------------------------------- MODULE Eeprom -------------------------------
(***************************************************************************)
(* What wear leveling promises the rest of the firmware: a byte array that *)
(* survives power loss.                                                    *)
(*                                                                         *)
(* A power loss between operations loses nothing.  One in the middle of a  *)
(* write leaves a first part of the region new and the rest of it old, and *)
(* nothing else changes.  Only while the store is rewritten as a whole or  *)
(* erased may a byte fall back to zero: the code documents this window     *)
(* (wear_leveling.c, "there is the potential for data loss").              *)
(***************************************************************************)
EXTENDS Integers

CONSTANTS Addresses,     \* an interval of Nat from 0
          Bytes

VARIABLES mem,       \* what a read returns, now or after the next power-up
          was,       \* mem before the operation under way
          region,    \* the addresses the operation under way writes
          phase      \* "off", "idle", "writing", "rewriting" or "erasing"

vars == <<mem, was, region, phase>>

Blank == [a \in Addresses |-> 0]

Init == mem = Blank /\ was = Blank /\ region = {} /\ phase = "off"

\* After power-up the store may first be rewritten.
Start == /\ phase = "off" /\ phase' \in {"idle", "rewriting"}
         /\ mem' = mem /\ was' = mem /\ region' = {}

\* Reads see a write at once; one that changes nothing is over at once.
Write == /\ phase = "idle" /\ phase' \in {"idle", "writing"}
         /\ was' = mem /\ region' \in SUBSET Addresses
         /\ \A a \in Addresses : mem'[a] \in (IF a \in region' THEN Bytes ELSE {mem[a]})
         /\ phase' = "idle" => mem' = mem

\* A write that runs out of space rewrites the store.
Rewrite == phase = "writing" /\ phase' = "rewriting" /\ UNCHANGED <<mem, was, region>>

Done == phase \in {"writing", "rewriting"} /\ phase' = "idle" /\ UNCHANGED <<mem, was, region>>

StartErase == /\ phase = "idle" /\ phase' = "erasing"
              /\ mem' = mem /\ was' = mem /\ region' = Addresses

Erase == phase = "erasing" /\ phase' = "idle" /\ mem' = Blank /\ UNCHANGED <<was, region>>

\* The bytes of the region below n are new, the others are old.
Torn(n) == [a \in Addresses |-> IF a \in region /\ a < n THEN mem[a] ELSE was[a]]

PowerLoss ==
  /\ phase # "off" /\ phase' = "off" /\ UNCHANGED <<was, region>>
  /\ CASE phase = "idle"    -> mem' = mem
       [] phase = "writing" -> \E a \in Addresses : mem' \in {Torn(a), Torn(a + 1)}
       [] OTHER -> \A a \in Addresses : mem'[a] \in {0, was[a], mem[a]}

Next == Start \/ Write \/ Rewrite \/ Done \/ StartErase \/ Erase \/ PowerLoss

Spec == Init /\ [][Next]_vars
=============================================================================
