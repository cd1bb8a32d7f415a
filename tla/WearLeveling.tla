---------------------------- MODULE WearLeveling ----------------------------
(***************************************************************************)
(* Wear leveling (quantum/wear_leveling/wear_leveling.c) with 2-byte       *)
(* backing store writes.                                                   *)
(*                                                                         *)
(* The backing store holds the consolidated data, its checksum and the     *)
(* write log.  Each call that changes the backing store is one step, and   *)
(* power may fail between any two of them.  A word is its two bytes, and   *)
(* playback takes whatever it meets for an entry by those bytes alone.     *)
(* The checksum is the data it was computed from: hash collisions are left *)
(* out.  The backing store itself is external.                             *)
(***************************************************************************)
EXTENDS Integers, Sequences

CONSTANTS LOGICAL_SIZE,    \* bytes
          LOG_SLOTS,       \* words of the write log
          Bytes,           \* byte values to write, with 0 and 1
          Writes,          \* the writes: [address, value], value a sequence
          SECTOR,          \* log slots erased together with the data, before the rest
          Stray,           \* the two bytes of memory behind a write_log_entry_t
          Failing,         \* the backing store calls that may fail
          MAX_FAULTS       \* bound: power losses and failing calls

BANK == 65536    \* the addresses that two bytes tell apart

ASSUME WearLevelingAssumption ==
  /\ LOGICAL_SIZE \in 1 .. 8 * BANK /\ LOGICAL_SIZE % 2 = 0   \* 19 bits of address
  /\ LOG_SLOTS \in Nat \ {0} /\ MAX_FAULTS \in Nat
  /\ {0, 1} \subseteq Bytes /\ Bytes \subseteq 0 .. 255
  /\ Stray \in (0 .. 255) \X (0 .. 255)
  /\ SECTOR \in 0 .. LOG_SLOTS
  /\ Failing \subseteq {"init", "checksum", "read", "unlock", "erase", "write", "lock"}
  /\ \A w \in Writes : /\ w.value \in Seq(Bytes) \ {<<>>}
                       /\ w.address \in 0 .. LOGICAL_SIZE - Len(w.value)

Addresses == 0 .. LOGICAL_SIZE - 1
Slots     == 0 .. LOG_SLOTS - 1

MAX_BYTES  == 5        \* LOG_ENTRY_MULTIBYTE_MAX_BYTES
OPT_LIMIT  == 64       \* below it a byte takes one word
WORD_LIMIT == 16384    \* below it a 16-bit 0 or 1 takes one word

VARIABLES
  con, sum, log,    \* backing store: consolidated data, checksum, log words
  cache,            \* wear_leveling.cache
  write_address,    \* wear_leveling.write_address, as a slot of the log
  unlocked,         \* wear_leveling.unlocked
  pc,               \* what happens next, see the actions
  caller,           \* whose wear_leveling_consolidate_force: "init" or "write"
  todo,             \* words wear_leveling_write_raw has still to append
  acquired,         \* lock_status = STATUS_SUCCESS, of the operation
  status,           \* what the operation returns
  impaired,         \* history: since power-up an operation has returned
                    \* WEAR_LEVELING_FAILED, or the checksum was not read
  astray,           \* history: a failed call has left write_address elsewhere than
                    \* where playback of the log ends, and the log has not been erased
                    \* since
  before, region,   \* history: the data before the operation, what it writes
  restart,          \* history: what start-up was to restore at the last power loss
  crashes, failures

store    == <<con, sum, log>>
history  == <<before, region>>
power    == <<restart, crashes>>
vars == <<con, sum, log, cache, write_address, unlocked, pc, caller, todo, acquired,
          status, impaired, astray, before, region, restart, crashes, failures>>

-----------------------------------------------------------------------------
(* Log words.                                                              *)

\* The bytes raw8[0] and raw8[1] of a write_log_entry_t.
Word(x, y) == [x |-> x, y |-> y]
Erased     == Word(0, 0)

\* The first words of entries: two bits of type, and what else fits.
MULTIBYTE(length, address)  == Word(8 * length + address \div BANK, (address \div 256) % 256)
OPTIMIZED_64(address, byte) == Word(64 + address, byte)
WORD_01(address, value)     == Word(128 + 32 * value + address \div 512, (address \div 2) % 256)

\* LOG_ENTRY_GET_TYPE: playback fails at the type that no entry has.
Type(w) == CASE w.x \in 0 .. 63    -> "MULTIBYTE"
             [] w.x \in 64 .. 127  -> "OPTIMIZED_64"
             [] w.x \in 128 .. 191 -> "WORD_01"
             [] w.x \in 192 .. 255 -> "NONE"

\* LOG_ENTRY_MULTIBYTE_GET_LENGTH: up to 7 for a word that is not the first of an entry.
Length(w) == w.x \div 8

At(v, i) == IF i <= Len(v) THEN v[i] ELSE 0

\* wear_leveling_write_raw_multibyte: two to four words.
MultibyteEntry(address, v) ==
  <<MULTIBYTE(Len(v), address), Word(address % 256, v[1])>>
    \o (IF Len(v) > 1 THEN <<Word(v[2], At(v, 3))>> ELSE <<>>)
    \o (IF Len(v) > 3 THEN <<Word(v[4], At(v, 5))>> ELSE <<>>)

\* wear_leveling_write_raw: the words of one write; enc[i] is the rest from byte i.
write_raw(w) ==
  LET n == Len(w.value)
      enc[i \in 0 .. n] ==
        LET a == w.address + i
            l == IF n - i >= MAX_BYTES THEN MAX_BYTES ELSE n - i
        IN  CASE i = n -> <<>>
              [] /\ n - i >= 2 /\ a % 2 = 0 /\ a < WORD_LIMIT
                 /\ w.value[i + 1] \in {0, 1} /\ w.value[i + 2] = 0
                   -> <<WORD_01(a, w.value[i + 1])>> \o enc[i + 2]
              [] OTHER
                   -> IF a < OPT_LIMIT
                      THEN <<OPTIMIZED_64(a, w.value[i + 1])>> \o enc[i + 1]
                      ELSE MultibyteEntry(a, SubSeq(w.value, i + 1, i + l)) \o enc[i + l]
  IN  enc[0]

Blank == [a \in Addresses |-> 0]

\* Data d with the bytes v put at address a.
Overlay(d, a, v) ==
  [b \in Addresses |-> IF b \in a .. a + Len(v) - 1 THEN v[b - a + 1] ELSE d[b]]

-----------------------------------------------------------------------------
(* Start-up.                                                               *)

\* wear_leveling_read_consolidated: what does not match its checksum is dropped.
read_consolidated(d, s) == IF s = d THEN d ELSE Blank

\* backing_store_read; past the end of the backing store it reads as erased here.
Read(l, i) == IF i \in Slots THEN l[i] ELSE Erased

\* LOG_ENTRY_WORD_01_GET_VALUE
Value(w) == (w.x \div 32) % 2

\* Mutant: the high byte of a 16-bit 0 or 1 is left alone.
EntryBytes_LowByte(l, i) ==
  LET w == Read(l, i)
  IN  IF Type(w) = "WORD_01" THEN <<Value(w)>> ELSE <<w.y>>

\* The bytes that the words from slot i on say, by the type of the first.
EntryBytes(l, i) ==
  LET w == Read(l, i)
  IN  CASE Type(w) = "MULTIBYTE" ->
             SubSeq(<<Read(l, i + 1).y, Read(l, i + 2).x, Read(l, i + 2).y,
                      Read(l, i + 3).x, Read(l, i + 3).y>> \o Stray, 1, Length(w))
        [] Type(w) = "OPTIMIZED_64" -> <<w.y>>
        [] Type(w) = "WORD_01" -> <<Value(w), 0>>
        [] Type(w) = "NONE" -> <<>>

EntryAddress(l, i) ==
  LET w == Read(l, i)
  IN  CASE Type(w) = "MULTIBYTE" -> (w.x % 8) * BANK + w.y * 256 + Read(l, i + 1).x
        [] Type(w) = "OPTIMIZED_64" -> w.x - 64
        [] Type(w) = "WORD_01" -> (w.x % 32) * 512 + w.y * 2
        [] Type(w) = "NONE" -> 0

\* The slots playback reads for it; an entry out of range is given up after its address.
EntryWords(l, i, bad) ==
  LET w == Read(l, i)
  IN  IF Type(w) # "MULTIBYTE" THEN 1
      ELSE IF bad \/ Length(w) <= 1 THEN 2
      ELSE IF Length(w) <= 3 THEN 3
      ELSE 4

\* The log has ended: playback stops without a read.
AtEnd(p) == p.done \/ p.at >= LOG_SLOTS

\* One log entry: p is the playback so far, at its slot.
PlayEntry(l, p) ==
  LET bytes == EntryBytes(l, p.at)
      a     == EntryAddress(l, p.at)
      bad   == Type(Read(l, p.at)) = "NONE" \/ a + Len(bytes) > LOGICAL_SIZE
      next  == p.at + EntryWords(l, p.at, bad)
  IN  CASE AtEnd(p) -> p
        [] ~AtEnd(p) /\ Read(l, p.at) = Erased -> [p EXCEPT !.done = TRUE]
        [] OTHER -> [cache  |-> IF bad THEN p.cache ELSE Overlay(p.cache, a, bytes),
                     at     |-> next,
                     done   |-> bad,
                     failed |-> bad]

\* wear_leveling_playback_log on top of the data d, up to n entries.
Play(d, l, n) ==
  LET play[k \in 0 .. n] ==
        IF k = 0 THEN [cache |-> d, at |-> 0, done |-> FALSE, failed |-> FALSE]
                 ELSE PlayEntry(l, play[k - 1])
  IN  play[n]

\* As far as it gets: a slot holds at most one entry, and the round after the last
\* slot is the test that ends the loop.
Playback(d, l) == Play(d, l, LOG_SLOTS + 1)

\* What the next start-up would restore.
Stored == Playback(read_consolidated(con, sum), log)

\* The same after this step.
StoredThen == Playback(read_consolidated(con', sum'), log')

ErasedLog == [i \in Slots |-> Erased]

StillAstray == astray /\ log' # ErasedLog

\* With the store played back to p, the next word would go elsewhere than where that ends.
OutOfStep(p, address) == address \in Slots /\ (p.failed \/ p.at # address)

\* What a failed call leaves behind.
Astray == astray' = (StillAstray \/ OutOfStep(StoredThen, write_address'))

\* With the log played back, start-up goes on to the main loop or consolidates.
Start(p, failed, unread) ==
  /\ pc = "off"
  /\ cache' = p.cache /\ write_address' = p.at
  /\ before' = p.cache /\ region' = {}
  /\ pc' = IF failed \/ p.at >= LOG_SLOTS THEN "erase" ELSE "idle"
  /\ caller' = "init" /\ unlocked' = FALSE /\ acquired' = FALSE
  /\ status' = "SUCCESS" /\ impaired' = unread
  /\ UNCHANGED <<store, astray, todo, power>>

wear_leveling_init ==
  Start(Stored, Stored.failed, FALSE) /\ UNCHANGED failures

Fails(call) == call \in Failing /\ crashes + failures < MAX_FAULTS /\ failures' = failures + 1

\* The checksum cannot be read: it is not looked at, and taken for a mismatch.
init_ChecksumUnread ==
  LET p == Playback(Blank, log)
  IN  Start(p, p.failed, TRUE) /\ Fails("checksum")

\* Mutant: go on without consolidating.
init_ReadFails_GoesOn(n) ==
  LET p == Play(read_consolidated(con, sum), log, n)
  IN  Start(p, FALSE, FALSE) /\ ~p.done /\ p.at < LOG_SLOTS /\ Fails("read")

\* A word of entry n + 1 cannot be read: consolidate what was read so far.
init_ReadFails(n) ==
  LET p == Play(read_consolidated(con, sum), log, n)
  IN  Start(p, TRUE, FALSE) /\ ~p.done /\ p.at < LOG_SLOTS /\ Fails("read")

\* The backing store does not initialise, or its data cannot be read.
init_Fails ==
  /\ pc = "off" /\ Fails("init")
  /\ cache' = Blank /\ write_address' = 0
  /\ before' = Blank /\ region' = {}
  /\ pc' = "idle" /\ status' = "FAILED" /\ impaired' = TRUE
  /\ unlocked' = FALSE /\ acquired' = FALSE
  /\ UNCHANGED <<store, caller, todo, power>>
  /\ Astray

-----------------------------------------------------------------------------
(* wear_leveling_write.                                                    *)

Unchanged(w) == Overlay(cache, w.address, w.value) = cache

write_Skipped(w) ==
  /\ pc = "idle" /\ Unchanged(w)
  /\ status' = "SUCCESS" /\ region' = w.address .. w.address + Len(w.value) - 1
  /\ before' = cache
  /\ UNCHANGED <<store, cache, write_address, unlocked, pc, caller, todo, acquired,
                 impaired, astray, power, failures>>

StartWrite(w) ==
  /\ pc = "idle" /\ ~Unchanged(w)
  /\ cache' = Overlay(cache, w.address, w.value)
  /\ before' = cache /\ region' = w.address .. w.address + Len(w.value) - 1
  /\ caller' = "write"
  /\ UNCHANGED <<store, astray, write_address, power>>

wear_leveling_write(w) ==
  /\ StartWrite(w)
  /\ pc' = "append" /\ todo' = write_raw(w)
  /\ unlocked' = TRUE /\ acquired' = ~unlocked
  /\ status' = "SUCCESS"
  /\ UNCHANGED <<impaired, failures>>

\* Mutant: the failure is not reported.
write_UnlockFails_Silent(w) ==
  /\ StartWrite(w) /\ ~unlocked /\ Fails("unlock")
  /\ status' = "SUCCESS"
  /\ UNCHANGED <<unlocked, pc, todo, acquired, impaired>>

write_UnlockFails(w) ==
  /\ StartWrite(w) /\ ~unlocked /\ Fails("unlock")
  /\ status' = "FAILED" /\ impaired' = TRUE
  /\ UNCHANGED <<unlocked, pc, todo, acquired>>

Full_AtTheEnd(address) == address >= LOG_SLOTS /\ Len(todo) = 1   \* mutant: too late

\* wear_leveling_consolidate_if_needed.
Full(address) == address >= LOG_SLOTS

\* wear_leveling_append_raw: one word, and a consolidation as soon as the log is
\* full; the words left need not be written then.
append_raw ==
  /\ pc = "append"
  /\ log' = IF write_address \in Slots THEN [log EXCEPT ![write_address] = Head(todo)] ELSE log
  /\ write_address' = write_address + 1
  /\ todo' = Tail(todo)
  /\ pc' = IF Full(write_address + 1) THEN "erase"
           ELSE IF Len(todo) = 1 THEN "lock" ELSE "append"
  /\ UNCHANGED <<con, sum, cache, unlocked, caller, acquired, status, impaired, astray, history,
                 power, failures>>

\* A word is not written, and the rest of the write is dropped.  If it is not the
\* first of its entry, the words there count as an entry, whose other words will be
\* those of the entries behind it.
append_Fails ==
  /\ pc = "append" /\ Fails("write")
  /\ pc' = "lock" /\ status' = "FAILED"
  /\ UNCHANGED <<store, cache, write_address, unlocked, caller, todo, acquired, impaired,
                 history, power>>
  /\ Astray

-----------------------------------------------------------------------------
(* wear_leveling_consolidate_force, called by a write or at start-up.      *)

Erase == con' = Blank /\ sum' = <<>> /\ log' = ErasedLog

\* An erase that is cut short or fails has erased nothing, the first sector or all.
PartlyErase ==
  \/ UNCHANGED store
  \/ Erase
  \/ /\ con' = Blank /\ sum' = <<>>
     /\ log' = [i \in Slots |-> IF i < SECTOR THEN Erased ELSE log[i]]

consolidate_Erase ==
  /\ pc = "erase" /\ caller # "erase"
  /\ Erase /\ astray' = FALSE
  /\ pc' = "unlock"
  /\ UNCHANGED <<cache, write_address, unlocked, caller, todo, acquired, status, impaired,
                 history, power, failures>>

\* Whoever called goes on with the result: start-up clears the cache if it failed.
Consolidated(result, address) ==
  /\ status' = result
  /\ IF caller = "init"
     THEN /\ pc' = "idle" /\ impaired' = (impaired \/ result = "FAILED")
          /\ cache' = IF result = "FAILED" THEN Blank ELSE cache
          /\ write_address' = IF result = "FAILED" THEN 0 ELSE address
     ELSE /\ pc' = "lock" /\ write_address' = address
          /\ UNCHANGED <<cache, impaired>>

\* The erase fails: back to the caller, with write_address as it was.
consolidate_EraseFails ==
  /\ pc = "erase" /\ caller # "erase" /\ Fails("erase")
  /\ Consolidated("FAILED", write_address)
  /\ PartlyErase
  /\ UNCHANGED <<unlocked, caller, todo, acquired, history, power>>
  /\ Astray

\* wear_leveling_write_consolidated: unlock if need be, and go on either way.
write_consolidated_Unlock ==
  /\ pc = "unlock"
  /\ pc' = "data"
  /\ acquired' = (acquired \/ ~unlocked)
  /\ unlocked' = TRUE
  /\ UNCHANGED <<store, cache, write_address, caller, todo, status, impaired, astray,
                 history, power, failures>>

write_consolidated_UnlockFails ==
  /\ pc = "unlock" /\ ~unlocked /\ Fails("unlock")
  /\ pc' = "data"
  /\ UNCHANGED <<store, cache, write_address, unlocked, caller, todo, acquired, status,
                 impaired, astray, history, power>>

write_consolidated_Data ==
  /\ pc = "data"
  /\ con' = cache
  /\ pc' = "sum"
  /\ UNCHANGED <<sum, log, cache, write_address, unlocked, caller, todo, acquired, status,
                 impaired, astray, history, power, failures>>

\* Start-up locks again here, a write does so itself; the result is not looked at.
LockAgain ==
  unlocked' \in IF caller = "init" /\ acquired
                THEN IF "lock" \in Failing THEN BOOLEAN ELSE {FALSE}
                ELSE {unlocked}

write_consolidated_Sum ==
  /\ pc = "sum"
  /\ sum' = cache
  /\ Consolidated("CONSOLIDATED", 0)
  /\ LockAgain
  /\ UNCHANGED <<con, log, astray, caller, todo, acquired, history, power, failures>>

\* The data or the checksum cannot be written.
write_consolidated_Fails ==
  /\ pc \in {"data", "sum"} /\ Fails("write")
  /\ Consolidated("FAILED", 0)
  /\ LockAgain
  /\ UNCHANGED <<store, astray, caller, todo, acquired, history, power>>

-----------------------------------------------------------------------------
(* wear_leveling_erase, and the end of both operations.                    *)

StartErase ==
  /\ pc = "idle"
  /\ before' = cache /\ region' = Addresses
  /\ UNCHANGED <<store, astray, cache, write_address, power, todo>>

wear_leveling_erase ==
  /\ StartErase
  /\ pc' = "erase" /\ caller' = "erase"
  /\ unlocked' = TRUE /\ acquired' = ~unlocked
  /\ status' = "SUCCESS"
  /\ UNCHANGED <<impaired, failures>>

erase_UnlockFails ==
  /\ StartErase /\ ~unlocked /\ Fails("unlock")
  /\ status' = "FAILED" /\ impaired' = TRUE
  /\ UNCHANGED <<pc, caller, unlocked, acquired>>

\* The cache is cleared whether or not the erase succeeds.
erase_Erase ==
  /\ pc = "erase" /\ caller = "erase"
  /\ cache' = Blank /\ write_address' = 0
  /\ \/ Erase /\ astray' = FALSE /\ UNCHANGED <<status, failures>>
     \/ PartlyErase /\ Astray /\ Fails("erase") /\ status' = "FAILED"
  /\ pc' = "lock"
  /\ UNCHANGED <<unlocked, caller, todo, acquired, impaired, history, power>>

lock ==
  /\ pc = "lock"
  /\ unlocked' = (unlocked /\ ~acquired)
  /\ pc' = "idle" /\ impaired' = (impaired \/ status = "FAILED")
  /\ UNCHANGED <<store, astray, cache, write_address, caller, todo, acquired, status, history,
                 power, failures>>

lock_Fails ==
  /\ pc = "lock" /\ acquired /\ Fails("lock")
  /\ pc' = "idle" /\ status' = "FAILED" /\ impaired' = TRUE
  /\ UNCHANGED <<store, astray, cache, write_address, unlocked, caller, todo, acquired, history,
                 power>>

-----------------------------------------------------------------------------
(* Power loss: what is not in the backing store is gone.                   *)

PowerLoss ==
  /\ pc # "off" /\ crashes + failures < MAX_FAULTS
  /\ crashes' = crashes + 1
  /\ pc' = "off"
  /\ IF pc = "erase" THEN PartlyErase ELSE UNCHANGED store
  /\ astray' = StillAstray
  /\ restart' = StoredThen.cache
  /\ cache' = Blank /\ write_address' = 0 /\ unlocked' = FALSE /\ acquired' = FALSE
  /\ todo' = <<>> /\ status' = "SUCCESS" /\ impaired' = FALSE
  /\ UNCHANGED <<caller, history, failures>>

-----------------------------------------------------------------------------

\* Power-up of a device whose store has never been written.
Init ==
  /\ con = Blank /\ sum = <<>> /\ log = [i \in Slots |-> Erased]
  /\ cache = Blank /\ write_address = 0 /\ unlocked = FALSE
  /\ pc = "off" /\ caller = "init" /\ todo = <<>> /\ acquired = FALSE
  /\ status = "SUCCESS" /\ impaired = FALSE /\ astray = FALSE
  /\ before = Blank /\ region = {} /\ restart = Blank
  /\ crashes = 0 /\ failures = 0

Next ==
  \/ wear_leveling_init \/ init_ChecksumUnread \/ init_Fails
  \/ \E n \in Slots : init_ReadFails(n)
  \/ \E w \in Writes : write_Skipped(w) \/ wear_leveling_write(w) \/ write_UnlockFails(w)
  \/ append_raw \/ append_Fails
  \/ consolidate_Erase \/ consolidate_EraseFails
  \/ write_consolidated_Unlock \/ write_consolidated_UnlockFails
  \/ write_consolidated_Data \/ write_consolidated_Sum \/ write_consolidated_Fails
  \/ wear_leveling_erase \/ erase_UnlockFails \/ erase_Erase
  \/ lock \/ lock_Fails
  \/ PowerLoss

Spec == Init /\ [][Next]_vars

-----------------------------------------------------------------------------
(* Properties.                                                             *)

\* Every variable has its type; write_address passes the end of the log only by the
\* rest of a torn entry, or where a failed erase leaves it
\* (wear_leveling_consolidate_force).
TypeOK ==
  /\ con \in [Addresses -> 0 .. 255] /\ cache \in [Addresses -> 0 .. 255]
  /\ sum \in [Addresses -> 0 .. 255] \union {<<>>}
  /\ log \in [Slots -> [x : 0 .. 255, y : 0 .. 255]]
  /\ write_address \in 0 .. LOG_SLOTS + 3 + MAX_FAULTS
  /\ unlocked \in BOOLEAN /\ acquired \in BOOLEAN /\ (acquired => unlocked \/ pc \in {"idle", "lock"})
  /\ pc \in {"off", "idle", "append", "erase", "unlock", "data", "sum", "lock"}
  /\ caller \in {"init", "write", "erase"}
  /\ status \in {"SUCCESS", "CONSOLIDATED", "FAILED"} /\ impaired \in BOOLEAN /\ astray \in BOOLEAN
  /\ before \in [Addresses -> 0 .. 255] /\ region \in SUBSET Addresses

\* Between operations a power loss would lose nothing: what start-up would restore
\* from the consolidated data and the log (wear_leveling_playback_log) is what reads
\* return (wear_leveling_read), unless an operation has failed since power-up or
\* a failed call has put write_address and the log out of step since the log was erased.
ReplayMatches == pc = "idle" /\ ~impaired /\ ~astray => Stored.cache = cache

\* Every word goes to a slot inside the backing store (wear_leveling_append_raw),
\* unless an operation has failed since power-up.
WritesInBounds == pc = "append" /\ ~impaired => write_address \in Slots

\* Flash is programmed once between erases: a log word is written only where the log
\* is erased, and consolidated data only over erased data (wear_leveling_append_raw,
\* wear_leveling_write_consolidated), unless an operation has failed since power-up or
\* a failed call has put write_address and the log out of step since the log was erased.
ProgramsErased ==
  [][~impaired /\ ~astray =>
       /\ \A i \in Slots : log'[i] # log[i] => Erased \in {log[i], log'[i]}
       /\ con' # con => Blank \in {con, con'}]_vars

\* For the abstract byte array: an operation that has come to lock is over.
Phase == CASE pc \in {"idle", "lock"} -> "idle"
           [] pc = "append" -> "writing"
           [] pc = "off" -> "off"
           [] pc = "erase" /\ caller = "erase" -> "erasing"
           [] OTHER -> "rewriting"

EepromSpec == INSTANCE Eeprom WITH
  mem <- IF pc = "off" THEN restart ELSE cache, was <- before, phase <- Phase

\* Whatever the interleaving of writes, consolidations, erases and power losses, reads
\* and what start-up restores are those of Eeprom.
ImplementsEeprom == EepromSpec!Spec

\* A power loss in the middle of a write leaves a first part of it written and all
\* else as it was (wear_leveling_append_raw, wear_leveling_playback_log).
TornIsPrefix ==
  pc = "append" =>
    \E a \in Addresses : Stored.cache \in {EepromSpec!Torn(a), EepromSpec!Torn(a + 1)}
=============================================================================
