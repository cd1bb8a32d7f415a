------------------------- MODULE WearLevelingProofs -------------------------
(***************************************************************************)
(* Proofs about wear leveling, for every size of the data and of the log,  *)
(* every set of byte values, power lost at any moment and any number of    *)
(* failing backing store calls.                                            *)
(*                                                                         *)
(* The argument is about the log: each word of it that is programmed       *)
(* belongs to an entry that playback reaches from slot 0 (Reached), and    *)
(* what playback makes of the entries before a slot depends on them alone  *)
(* (PlaybackReached), so an appended entry changes what start-up restores  *)
(* by what that entry says (AppendSound), and the encoder's entries say    *)
(* together what was written (EncodesWrite).  The invariant is in two      *)
(* parts: Shape (types, where the code can be when, the write address      *)
(* within the log), which needs no hypothesis, and Sound (what the store   *)
(* holds), which needs WholeErases.  Sound says nothing while the log is   *)
(* astray: a failed write may leave half an entry, whose other words       *)
(* playback takes from the entries behind it.                              *)
(***************************************************************************)
EXTENDS WearLeveling, SequenceTheorems, WellFoundedInduction, TLAPS

-----------------------------------------------------------------------------
(* Playback, as a function of the number of entries.                       *)

\* A nonempty set of naturals has a least element.
LEMMA LeastElement ==
  ASSUME NEW S \in SUBSET Nat, S # {}
  PROVE  \E x \in S : \A y \in S : x <= y
<1>1. IsWellFoundedOn(OpToRel(<, Nat), Nat)
  BY NatLessThanWellFounded
<1>2. PICK x \in S : \A y \in S : ~(<<y, x>> \in OpToRel(<, Nat))
  BY <1>1, WFMin
<1>3. \A y \in S : ~(y < x)
  BY <1>2 DEF OpToRel
<1> QED
  BY <1>3

\* Induction over the naturals, with a set in the place of the predicate.
LEMMA SetInduction ==
  ASSUME NEW S, 0 \in S, \A n \in Nat : n \in S => n + 1 \in S
  PROVE  Nat \subseteq S
<1> SUFFICES ASSUME Nat \ S # {} PROVE FALSE
  OBVIOUS
<1>1. PICK n \in Nat \ S : \A m \in Nat \ S : n <= m
  BY LeastElement
<1>2. n # 0 /\ n - 1 \in Nat
  OBVIOUS
<1>3. n - 1 \in S
  BY <1>1, <1>2
<1> QED
  BY <1>2, <1>3

\* The playback of no entry.
Begin(d) == [cache |-> d, at |-> 0, done |-> FALSE, failed |-> FALSE]

\* f is the function that Play defines.
IsPlay(f, d, l, n) ==
  f = [k \in 0 .. n |-> IF k = 0 THEN Begin(d) ELSE PlayEntry(l, f[k - 1])]

\* There is such a function.
LEMMA PlayExists ==
  ASSUME NEW d, NEW l
  PROVE  \A n \in Nat : \E f : IsPlay(f, d, l, n)
<1> DEFINE S == {n \in Nat : \E f : IsPlay(f, d, l, n)}
<1>1. 0 \in S
  <2>1. IsPlay([k \in 0 .. 0 |-> Begin(d)], d, l, 0)
    BY DEF IsPlay
  <2> QED
    BY <2>1
<1>2. ASSUME NEW n \in Nat, n \in S
      PROVE  n + 1 \in S
  <2>1. PICK f : IsPlay(f, d, l, n)
    BY <1>2
  <2> DEFINE g == [k \in 0 .. n + 1 |-> IF k = n + 1 THEN PlayEntry(l, f[n]) ELSE f[k]]
  <2>2. ASSUME NEW k \in 0 .. n + 1
        PROVE  g[k] = IF k = 0 THEN Begin(d) ELSE PlayEntry(l, g[k - 1])
    BY <2>1 DEF IsPlay
  <2>3. g = [k \in 0 .. n + 1 |-> IF k = 0 THEN Begin(d) ELSE PlayEntry(l, g[k - 1])]
    BY <2>2
  <2>4. IsPlay(g, d, l, n + 1)
    BY <2>3 DEF IsPlay
  <2> HIDE DEF g
  <2> QED
    BY <2>4
<1> HIDE DEF S
<1>3. Nat \subseteq S
  BY <1>1, <1>2, SetInduction
<1> QED
  BY <1>3 DEF S

\* And only one.
LEMMA PlayUnique ==
  ASSUME NEW d, NEW l, NEW n \in Nat, NEW m \in Nat, m <= n,
         NEW f, NEW g, IsPlay(f, d, l, n), IsPlay(g, d, l, m)
  PROVE  g[m] = f[m]
<1> DEFINE S == {k \in Nat : k <= m => g[k] = f[k]}
<1>1. 0 \in S
  BY DEF IsPlay
<1>2. ASSUME NEW k \in Nat, k \in S
      PROVE  k + 1 \in S
  <2>1. SUFFICES ASSUME k + 1 <= m
                 PROVE  g[k + 1] = f[k + 1]
    OBVIOUS
  <2>2. k \in 0 .. m /\ k + 1 \in 0 .. m /\ k + 1 \in 0 .. n /\ (k + 1) - 1 = k
    BY <2>1
  <2>3. g[k] = f[k]
    BY <1>2, <2>2
  <2>4. g[k + 1] = PlayEntry(l, g[k])
    BY <2>2 DEF IsPlay
  <2>5. f[k + 1] = PlayEntry(l, f[k])
    BY <2>2 DEF IsPlay
  <2> QED
    BY <2>3, <2>4, <2>5
<1> HIDE DEF S
<1>3. Nat \subseteq S
  BY <1>1, <1>2, SetInduction
<1> QED
  BY <1>3 DEF S

\* Play is the value of any such function.
LEMMA PlayIs ==
  ASSUME NEW d, NEW l, NEW n \in Nat, NEW f, IsPlay(f, d, l, n), NEW m \in 0 .. n
  PROVE  Play(d, l, m) = f[m]
<1> DEFINE play[k \in 0 .. m] ==
      IF k = 0 THEN [cache |-> d, at |-> 0, done |-> FALSE, failed |-> FALSE]
               ELSE PlayEntry(l, play[k - 1])
<1>1. PICK g : IsPlay(g, d, l, m)
  BY PlayExists
<1>2. g = [k \in 0 .. m |-> IF k = 0 THEN [cache |-> d, at |-> 0, done |-> FALSE, failed |-> FALSE]
                            ELSE PlayEntry(l, g[k - 1])]
  BY <1>1 DEF IsPlay, Begin
<1>3. play = [k \in 0 .. m |-> IF k = 0 THEN [cache |-> d, at |-> 0, done |-> FALSE, failed |-> FALSE]
                               ELSE PlayEntry(l, play[k - 1])]
  BY <1>2
<1>4. IsPlay(play, d, l, m)
  BY <1>3 DEF IsPlay, Begin
<1>5. Play(d, l, m) = play[m]
  BY DEF Play
<1> HIDE DEF play
<1> QED
  BY <1>4, <1>5, PlayUnique

\* Playback starts at the beginning of the log and goes on entry by entry.
LEMMA PlayUnfold ==
  ASSUME NEW d, NEW l
  PROVE  /\ Play(d, l, 0) = Begin(d)
         /\ \A n \in Nat : Play(d, l, n + 1) = PlayEntry(l, Play(d, l, n))
<1>1. ASSUME NEW n \in Nat
      PROVE  /\ Play(d, l, 0) = Begin(d)
             /\ Play(d, l, n + 1) = PlayEntry(l, Play(d, l, n))
  <2>1. PICK f : IsPlay(f, d, l, n + 1)
    BY PlayExists
  <2>2. /\ 0 \in 0 .. n + 1 /\ n \in 0 .. n + 1 /\ n + 1 \in 0 .. n + 1
        /\ n + 1 # 0 /\ (n + 1) - 1 = n
    OBVIOUS
  <2>3. f[0] = Begin(d) /\ f[n + 1] = PlayEntry(l, f[n])
    BY <2>1, <2>2 DEF IsPlay
  <2>4. Play(d, l, 0) = f[0] /\ Play(d, l, n) = f[n] /\ Play(d, l, n + 1) = f[n + 1]
    BY <2>1, <2>2, PlayIs
  <2> QED
    BY <2>3, <2>4
<1> QED
  BY <1>1

-----------------------------------------------------------------------------
(* Types: blocks of data, log words, logs and playbacks.                   *)

Octets == 0 .. 255

Blocks == [Addresses -> Octets]

Words == [x : Octets, y : Octets]

Logs == [Slots -> Words]

Plays == [cache : Blocks, at : Nat, done : BOOLEAN, failed : BOOLEAN]

\* A log entry that playback gives up on.
Bad(l, i) == Type(Read(l, i)) = "NONE" \/ EntryAddress(l, i) + Len(EntryBytes(l, i)) > LOGICAL_SIZE

\* The words of a log entry that it does not give up on.
Width(l, i) == EntryWords(l, i, FALSE)

\* The words of one that it gives up on.
BadWidth(l, i) == EntryWords(l, i, TRUE)

\* The data c with a log entry put in.
Put(c, l, i) == Overlay(c, EntryAddress(l, i), EntryBytes(l, i))

\* What is read from a log is a word, also behind its end.
LEMMA ReadWord ==
  ASSUME NEW l \in Logs, NEW i
  PROVE  Read(l, i) \in Words
BY DEF Logs, Read, Words, Erased, Word, Octets

\* An erased word is one.
LEMMA ErasedType == Erased \in Words
BY DEF Words, Erased, Word, Octets

\* The type of a word is that of the range its first byte is in.
LEMMA TypeRanges ==
  ASSUME NEW w \in Words
  PROVE  /\ w.x \in 0 .. 255 /\ w.y \in 0 .. 255
         /\ Type(w) = "MULTIBYTE" <=> w.x \in 0 .. 63
         /\ Type(w) = "OPTIMIZED_64" <=> w.x \in 64 .. 127
         /\ Type(w) = "WORD_01" <=> w.x \in 128 .. 191
         /\ Type(w) \in {"MULTIBYTE", "OPTIMIZED_64", "WORD_01", "NONE"}
<1>1. w.x \in 0 .. 255 /\ w.y \in 0 .. 255
  BY DEF Words, Octets
<1> DEFINE A == w.x \in 0 .. 63
           B == w.x \in 64 .. 127
           C == w.x \in 128 .. 191
           D == w.x \in 192 .. 255
<1>2. \/ A /\ ~B /\ ~C /\ ~D
      \/ ~A /\ B /\ ~C /\ ~D
      \/ ~A /\ ~B /\ C /\ ~D
      \/ ~A /\ ~B /\ ~C /\ D
  BY <1>1
<1>3. Type(w) = CASE A -> "MULTIBYTE" [] B -> "OPTIMIZED_64" [] C -> "WORD_01" [] D -> "NONE"
  BY DEF Type
<1> HIDE DEF A, B, C, D
<1>4. \/ A /\ ~B /\ ~C /\ Type(w) = "MULTIBYTE"
      \/ ~A /\ B /\ ~C /\ Type(w) = "OPTIMIZED_64"
      \/ ~A /\ ~B /\ C /\ Type(w) = "WORD_01"
      \/ ~A /\ ~B /\ ~C /\ Type(w) = "NONE"
  BY <1>2, <1>3, Zenon
<1> QED
  BY <1>1, <1>4 DEF A, B, C, D

\* The bytes a multibyte entry may have: those of its words, and the memory behind them.
Behind(l, i) ==
  <<Read(l, i + 1).y, Read(l, i + 2).x, Read(l, i + 2).y, Read(l, i + 3).x, Read(l, i + 3).y>>
    \o Stray

\* They are seven.
LEMMA BehindTypes ==
  ASSUME NEW l \in Logs, NEW i
  PROVE  /\ Behind(l, i) \in Seq(Octets) /\ Len(Behind(l, i)) = 7
         /\ Behind(l, i)[1] = Read(l, i + 1).y /\ Behind(l, i)[2] = Read(l, i + 2).x
         /\ Behind(l, i)[3] = Read(l, i + 2).y /\ Behind(l, i)[4] = Read(l, i + 3).x
         /\ Behind(l, i)[5] = Read(l, i + 3).y
         /\ Behind(l, i)[6] = Stray[1] /\ Behind(l, i)[7] = Stray[2]
<1> DEFINE five == <<Read(l, i + 1).y, Read(l, i + 2).x, Read(l, i + 2).y,
                     Read(l, i + 3).x, Read(l, i + 3).y>>
<1>1. /\ Read(l, i + 1) \in Words /\ Read(l, i + 2) \in Words /\ Read(l, i + 3) \in Words
  BY ReadWord
<1>2. /\ five \in Seq(Octets) /\ Len(five) = 5
      /\ five[1] = Read(l, i + 1).y /\ five[2] = Read(l, i + 2).x
      /\ five[3] = Read(l, i + 2).y /\ five[4] = Read(l, i + 3).x
      /\ five[5] = Read(l, i + 3).y
  BY <1>1 DEF Words
<1>3. Stray \in Seq(Octets) /\ Len(Stray) = 2
  <2>1. Stray \in Octets \X Octets
    BY WearLevelingAssumption DEF Octets
  <2>2. Stray = <<Stray[1], Stray[2]>> /\ Stray[1] \in Octets /\ Stray[2] \in Octets
    BY <2>1
  <2> DEFINE x == Stray[1]
             y == Stray[2]
  <2>3. x \in Octets /\ y \in Octets
    BY <2>2
  <2> HIDE DEF x, y
  <2>4. <<x, y>> \in Seq(Octets) /\ Len(<<x, y>>) = 2
    BY <2>3
  <2> QED
    BY <2>2, <2>4 DEF x, y
<1>4. Behind(l, i) = five \o Stray
  BY DEF Behind
<1> HIDE DEF five
<1>5. /\ five \o Stray \in Seq(Octets) /\ Len(five \o Stray) = Len(five) + Len(Stray)
      /\ \A j \in 1 .. Len(five) + Len(Stray) :
           (five \o Stray)[j] = IF j <= Len(five) THEN five[j] ELSE Stray[j - Len(five)]
  <2>1. five \in Seq(Octets) /\ Stray \in Seq(Octets)
    BY <1>2, <1>3
  <2> QED
    BY <2>1, ConcatProperties
<1>6. \A j \in 1 .. 7 : (five \o Stray)[j] = IF j <= 5 THEN five[j] ELSE Stray[j - 5]
  BY <1>2, <1>3, <1>5
<1>7. Len(five \o Stray) = 7
  BY <1>2, <1>3, <1>5
<1> QED
  BY <1>2, <1>4, <1>5, <1>6, <1>7

\* The bytes of a multibyte entry are the first of them.
LEMMA MultibyteBytes ==
  ASSUME NEW l \in Logs, NEW i, Type(Read(l, i)) = "MULTIBYTE"
  PROVE  LET n == Length(Read(l, i))
         IN  /\ n \in 0 .. 7
             /\ EntryBytes(l, i) \in Seq(Octets) /\ Len(EntryBytes(l, i)) = n
             /\ \A j \in 1 .. n : EntryBytes(l, i)[j] = Behind(l, i)[j]
<1> DEFINE n == Length(Read(l, i))
           b == Behind(l, i)
<1>1. n \in 0 .. 7
  <2>1. Read(l, i) \in Words
    BY ReadWord
  <2>2. Read(l, i).x \in 0 .. 63
    BY <2>1, TypeRanges
  <2> QED
    BY <2>2 DEF Length
<1>2. EntryBytes(l, i) = SubSeq(b, 1, n)
  BY DEF EntryBytes, Behind
<1>3. b \in Seq(Octets) /\ Len(b) = 7
  BY BehindTypes
<1> HIDE DEF n, b
<1>4. \A j \in 1 .. n : b[j] \in Octets
  <2>1. \A j \in 1 .. 7 : b[j] \in Octets
    BY <1>3, ElementOfSeq
  <2>2. \A j \in 1 .. n : j \in 1 .. 7
    BY <1>1
  <2> QED
    BY <2>1, <2>2
<1>5. /\ SubSeq(b, 1, n) \in Seq(Octets)
      /\ Len(SubSeq(b, 1, n)) = IF 1 <= n THEN n - 1 + 1 ELSE 0
      /\ \A j \in 1 .. n - 1 + 1 : SubSeq(b, 1, n)[j] = b[1 + j - 1]
  BY <1>1, <1>4, SubSeqProperties
<1>6. n - 1 + 1 = n /\ \A j \in 1 .. n : 1 + j - 1 = j
  BY <1>1
<1>7. Len(SubSeq(b, 1, n)) = n
  BY <1>1, <1>5
<1>8. \A j \in 1 .. n : SubSeq(b, 1, n)[j] = b[j]
  BY <1>5, <1>6
<1> QED
  BY <1>1, <1>2, <1>5, <1>7, <1>8 DEF n, b

\* A log entry has an address and at most five bytes, in one to four words.
LEMMA EntryTypes ==
  ASSUME NEW l \in Logs, NEW i \in Nat
  PROVE  /\ EntryAddress(l, i) \in Nat
         /\ EntryBytes(l, i) \in Seq(Octets)
         /\ Width(l, i) \in 1 .. 4 /\ BadWidth(l, i) \in 1 .. 4
<1>1. /\ Read(l, i) \in Words /\ Read(l, i + 1) \in Words
  BY ReadWord
<1>2. /\ Read(l, i).x \in 0 .. 255 /\ Read(l, i).y \in 0 .. 255 /\ Read(l, i + 1).x \in 0 .. 255
  BY <1>1, TypeRanges
<1>3. CASE Type(Read(l, i)) = "MULTIBYTE"
  <2> DEFINE w == Read(l, i)
             v == Read(l, i + 1)
  <2>1. BANK \in Nat
    BY SMT DEF BANK
  <2>2. /\ w.x \in Nat /\ w.y \in Nat /\ v.x \in Nat
    BY <1>2
  <2>3. EntryAddress(l, i) = (w.x % 8) * BANK + w.y * 256 + v.x
    BY <1>3 DEF EntryAddress
  <2> HIDE DEF w, v
  <2>4. w.x % 8 \in Nat
    BY <2>2
  <2>5. (w.x % 8) * BANK \in Nat
    BY <2>1, <2>4
  <2>6. EntryAddress(l, i) \in Nat
    BY <2>2, <2>3, <2>5
  <2> QED
    BY <1>3, <2>6, MultibyteBytes DEF Width, BadWidth, EntryWords
<1>4. CASE Type(Read(l, i)) = "OPTIMIZED_64"
  <2>1. Read(l, i).x \in 64 .. 127
    BY <1>1, <1>4, TypeRanges
  <2> QED
    BY <1>1, <1>4, <2>1 DEF EntryAddress, EntryBytes, Width, BadWidth, EntryWords, Words
<1>5. CASE Type(Read(l, i)) = "WORD_01"
  <2>1. Value(Read(l, i)) \in Octets /\ 0 \in Octets
    <3>1. Read(l, i).x \in Nat
      BY <1>2
    <3> QED
      BY <3>1 DEF Value, Octets
  <2>2. Read(l, i).x \in Nat /\ Read(l, i).y \in Nat
    BY <1>2
  <2> QED
    BY <1>5, <2>1, <2>2 DEF EntryAddress, EntryBytes, Width, BadWidth, EntryWords
<1>6. CASE Type(Read(l, i)) = "NONE"
  BY <1>6 DEF EntryAddress, EntryBytes, Width, BadWidth, EntryWords
<1> QED
  BY <1>1, <1>3, <1>4, <1>5, <1>6, TypeRanges

\* Bytes put into a block leave a block.
LEMMA OverlayType ==
  ASSUME NEW d \in Blocks, NEW a \in Nat, NEW v \in Seq(Octets)
  PROVE  Overlay(d, a, v) \in Blocks
<1>1. ASSUME NEW b \in Addresses
      PROVE  (IF b \in a .. a + Len(v) - 1 THEN v[b - a + 1] ELSE d[b]) \in Octets
  <2>1. b \in Nat /\ d[b] \in Octets
    BY WearLevelingAssumption DEF Addresses, Blocks
  <2> QED
    BY <2>1
<1> QED
  BY <1>1 DEF Overlay, Blocks

\* Playback stays where it has ended.
LEMMA PlayStays ==
  ASSUME NEW l, NEW p, AtEnd(p)
  PROVE  PlayEntry(l, p) = p
BY DEF PlayEntry

\* It ends at an erased word.
LEMMA PlayErased ==
  ASSUME NEW l \in Logs, NEW p \in Plays, ~AtEnd(p), l[p.at] = Erased
  PROVE  PlayEntry(l, p) = [p EXCEPT !.done = TRUE]
<1>1. p.at \in Slots
  BY WearLevelingAssumption DEF AtEnd, Plays, Slots
<1> QED
  BY <1>1 DEF PlayEntry, Read

\* It fails at an entry it gives up on.
LEMMA PlayBad ==
  ASSUME NEW l \in Logs, NEW p \in Plays, ~AtEnd(p), l[p.at] # Erased, Bad(l, p.at)
  PROVE  PlayEntry(l, p) = [cache |-> p.cache, at |-> p.at + BadWidth(l, p.at),
                            done |-> TRUE, failed |-> TRUE]
<1>1. p.at \in Slots
  BY WearLevelingAssumption DEF AtEnd, Plays, Slots
<1> QED
  BY <1>1 DEF PlayEntry, Read, Bad, BadWidth

\* And goes on behind any other, with its bytes put in.
LEMMA PlayGood ==
  ASSUME NEW l \in Logs, NEW p \in Plays, ~AtEnd(p), l[p.at] # Erased, ~Bad(l, p.at)
  PROVE  PlayEntry(l, p) = [cache |-> Put(p.cache, l, p.at), at |-> p.at + Width(l, p.at),
                            done |-> FALSE, failed |-> FALSE]
<1>1. p.at \in Slots
  BY WearLevelingAssumption DEF AtEnd, Plays, Slots
<1> QED
  BY <1>1 DEF PlayEntry, Read, Bad, Put, Width

\* The playback of a log onto a block is one.
LEMMA PlayEntryType ==
  ASSUME NEW l \in Logs, NEW p \in Plays
  PROVE  PlayEntry(l, p) \in Plays
<1>1. CASE AtEnd(p)
  BY <1>1, PlayStays
<1>2. CASE ~AtEnd(p) /\ l[p.at] = Erased
  <2>1. PlayEntry(l, p) = [p EXCEPT !.done = TRUE]
    BY <1>2, PlayErased
  <2> QED
    BY <2>1 DEF Plays
<1>3. CASE ~AtEnd(p) /\ l[p.at] # Erased /\ Bad(l, p.at)
  <2>1. p.at \in Nat /\ p.cache \in Blocks
    BY DEF Plays
  <2>2. BadWidth(l, p.at) \in 1 .. 4
    BY <2>1, EntryTypes
  <2>3. p.at + BadWidth(l, p.at) \in Nat
    BY <2>1, <2>2
  <2>4. PlayEntry(l, p) = [cache |-> p.cache, at |-> p.at + BadWidth(l, p.at),
                           done |-> TRUE, failed |-> TRUE]
    BY <1>3, PlayBad
  <2> QED
    BY <2>1, <2>3, <2>4 DEF Plays
<1>4. CASE ~AtEnd(p) /\ l[p.at] # Erased /\ ~Bad(l, p.at)
  <2>1. p.at \in Nat /\ p.cache \in Blocks
    BY DEF Plays
  <2>2. Width(l, p.at) \in 1 .. 4
    BY <2>1, EntryTypes
  <2>4. p.at + Width(l, p.at) \in Nat
    BY <2>1, <2>2
  <2>3. Put(p.cache, l, p.at) \in Blocks
    BY <2>1, EntryTypes, OverlayType DEF Put
  <2>5. PlayEntry(l, p) = [cache |-> Put(p.cache, l, p.at), at |-> p.at + Width(l, p.at),
                           done |-> FALSE, failed |-> FALSE]
    BY <1>4, PlayGood
  <2> QED
    BY <2>3, <2>4, <2>5 DEF Plays
<1> QED
  BY <1>1, <1>2, <1>3, <1>4

\* However many entries it takes.
LEMMA PlayType ==
  ASSUME NEW d \in Blocks, NEW l \in Logs
  PROVE  \A k \in Nat : Play(d, l, k) \in Plays
<1> DEFINE S == {k \in Nat : Play(d, l, k) \in Plays}
<1>1. 0 \in S
  <2>1. Play(d, l, 0) = Begin(d)
    BY PlayUnfold
  <2>2. Begin(d) \in Plays
    BY DEF Begin, Plays
  <2> QED
    BY <2>1, <2>2
<1>2. ASSUME NEW k \in Nat, k \in S
      PROVE  k + 1 \in S
  <2>1. Play(d, l, k + 1) = PlayEntry(l, Play(d, l, k))
    BY PlayUnfold
  <2>2. Play(d, l, k) \in Plays
    BY <1>2
  <2>3. PlayEntry(l, Play(d, l, k)) \in Plays
    BY <2>2, PlayEntryType
  <2> QED
    BY <2>1, <2>3
<1> HIDE DEF S
<1>3. Nat \subseteq S
  BY <1>1, <1>2, SetInduction
<1> QED
  BY <1>3 DEF S

-----------------------------------------------------------------------------
(* Where playback comes by.                                                *)

\* Playback of the log l onto d comes to slot n with the data c.
Reached(d, l, n, c) ==
  \E k \in Nat : Play(d, l, k) = [cache |-> c, at |-> n, done |-> FALSE, failed |-> FALSE]

\* It comes to slot n.
Visits(l, n) == \E c : Reached(Blank, l, n, c)

\* The erased data are a block.
LEMMA BlankType == Blank \in Blocks
BY DEF Blank, Blocks, Octets

\* It begins at the first slot.
LEMMA ReachedFirst ==
  ASSUME NEW d
  PROVE  \A l : Reached(d, l, 0, d)
BY PlayUnfold DEF Reached, Begin

\* The places are slots, or behind the last one, and the data there a block.
LEMMA ReachedType ==
  ASSUME NEW d \in Blocks, NEW l \in Logs, NEW n, NEW c, Reached(d, l, n, c)
  PROVE  n \in Nat /\ c \in Blocks
<1>1. PICK k \in Nat : Play(d, l, k) = [cache |-> c, at |-> n, done |-> FALSE, failed |-> FALSE]
  BY DEF Reached
<1>2. Play(d, l, k) \in Plays
  BY PlayType
<1> QED
  BY <1>1, <1>2 DEF Plays

\* From a slot with a good entry it comes to the slot behind that entry.
LEMMA ReachedNext ==
  ASSUME NEW d \in Blocks, NEW l \in Logs, NEW n \in Slots, NEW c, Reached(d, l, n, c),
         l[n] # Erased, ~Bad(l, n)
  PROVE  Reached(d, l, n + Width(l, n), Put(c, l, n))
<1>1. PICK k \in Nat : Play(d, l, k) = [cache |-> c, at |-> n, done |-> FALSE, failed |-> FALSE]
  BY DEF Reached
<1> DEFINE p == Play(d, l, k)
<1>2. p \in Plays /\ p.at = n /\ p.cache = c /\ ~p.done
  <2>1. p \in Plays
    BY PlayType
  <2> QED
    BY <1>1, <2>1
<1>3. ~AtEnd(p)
  BY <1>2, WearLevelingAssumption DEF AtEnd, Slots
<1>4. PlayEntry(l, p) = [cache |-> Put(c, l, n), at |-> n + Width(l, n),
                         done |-> FALSE, failed |-> FALSE]
  <2> HIDE DEF p
  <2> QED
    BY <1>2, <1>3, PlayGood
<1>5. Play(d, l, k + 1) = PlayEntry(l, p)
  BY PlayUnfold
<1>6. k + 1 \in Nat
  OBVIOUS
<1> QED
  BY <1>4, <1>5, <1>6 DEF Reached

\* How one entry changes a playback that has not ended.
LEMMA OneEntry ==
  ASSUME NEW l \in Logs, NEW p \in Plays, NEW q, q = PlayEntry(l, p)
  PROVE  \/ AtEnd(p) /\ q = p
         \/ /\ ~AtEnd(p) /\ p.at \in Slots /\ l[p.at] = Erased
            /\ q.done /\ q.cache = p.cache /\ q.at = p.at /\ q.failed = p.failed
         \/ /\ ~AtEnd(p) /\ p.at \in Slots /\ l[p.at] # Erased /\ Bad(l, p.at)
            /\ q.done /\ q.failed /\ q.at = p.at + BadWidth(l, p.at) /\ q.at > p.at
         \/ /\ ~AtEnd(p) /\ p.at \in Slots /\ l[p.at] # Erased /\ ~Bad(l, p.at)
            /\ ~q.done /\ ~q.failed /\ q.cache = Put(p.cache, l, p.at)
            /\ q.at = p.at + Width(l, p.at) /\ q.at > p.at
<1>1. p.at \in Nat /\ (~AtEnd(p) => p.at \in Slots)
  BY WearLevelingAssumption DEF AtEnd, Plays, Slots
<1>2. Width(l, p.at) \in 1 .. 4 /\ BadWidth(l, p.at) \in 1 .. 4
  BY <1>1, EntryTypes
<1>3. p.at + Width(l, p.at) > p.at /\ p.at + BadWidth(l, p.at) > p.at
  BY <1>1, <1>2
<1>4. CASE AtEnd(p)
  BY <1>4, PlayStays
<1>5. CASE ~AtEnd(p) /\ l[p.at] = Erased
  <2>1. q = [p EXCEPT !.done = TRUE]
    BY <1>5, PlayErased
  <2>2. q.done /\ q.cache = p.cache /\ q.at = p.at /\ q.failed = p.failed
    BY <2>1 DEF Plays
  <2> QED
    BY <1>1, <1>5, <2>2
<1>6. CASE ~AtEnd(p) /\ l[p.at] # Erased /\ Bad(l, p.at)
  <2>1. q = [cache |-> p.cache, at |-> p.at + BadWidth(l, p.at), done |-> TRUE, failed |-> TRUE]
    BY <1>6, PlayBad
  <2>2. q.done /\ q.failed /\ q.at = p.at + BadWidth(l, p.at)
    BY <2>1
  <2> QED
    BY <1>1, <1>3, <1>6, <2>2
<1>7. CASE ~AtEnd(p) /\ l[p.at] # Erased /\ ~Bad(l, p.at)
  <2>1. q = [cache |-> Put(p.cache, l, p.at), at |-> p.at + Width(l, p.at),
             done |-> FALSE, failed |-> FALSE]
    BY <1>7, PlayGood
  <2>2. /\ ~q.done /\ ~q.failed /\ q.cache = Put(p.cache, l, p.at)
        /\ q.at = p.at + Width(l, p.at)
    BY <2>1
  <2> QED
    BY <1>1, <1>3, <1>7, <2>2
<1> QED
  BY <1>4, <1>5, <1>6, <1>7

\* A set of places, each a slot and the data there, that holds the first one and with
\* a place the next one, holds every place that playback comes to.
LEMMA ReachedInduction ==
  ASSUME NEW d \in Blocks, NEW l \in Logs, NEW T, <<0, d>> \in T,
         \A n \in Slots, c \in Blocks :
           /\ <<n, c>> \in T /\ Reached(d, l, n, c) /\ l[n] # Erased /\ ~Bad(l, n)
           => <<n + Width(l, n), Put(c, l, n)>> \in T,
         NEW n, NEW c, Reached(d, l, n, c)
  PROVE  <<n, c>> \in T
<1> DEFINE S == {k \in Nat : ~Play(d, l, k).done =>
                               ~Play(d, l, k).failed /\ <<Play(d, l, k).at, Play(d, l, k).cache>> \in T}
<1>1. 0 \in S
  <2>1. Play(d, l, 0) = Begin(d)
    BY PlayUnfold
  <2> QED
    BY <2>1 DEF Begin
<1>2. ASSUME NEW k \in Nat, k \in S
      PROVE  k + 1 \in S
  <2> DEFINE p == Play(d, l, k)
             q == Play(d, l, k + 1)
  <2>1. q = PlayEntry(l, p) /\ p \in Plays /\ q \in Plays
    BY PlayUnfold, PlayType
  <2>2. ~p.done => ~p.failed /\ <<p.at, p.cache>> \in T
    BY <1>2
  <2>3. p = [cache |-> p.cache, at |-> p.at, done |-> p.done, failed |-> p.failed]
    BY <2>1 DEF Plays
  <2>4. ~p.done => Reached(d, l, p.at, p.cache)
    <3>1. SUFFICES ASSUME ~p.done PROVE Reached(d, l, p.at, p.cache)
      OBVIOUS
    <3>2. p.done = FALSE /\ p.failed = FALSE
      BY <2>1, <2>2, <3>1 DEF Plays
    <3>3. Play(d, l, k) = [cache |-> p.cache, at |-> p.at, done |-> FALSE, failed |-> FALSE]
      BY <2>3, <3>2
    <3> HIDE DEF p
    <3> QED
      BY <3>3 DEF Reached
  <2>5. ~q.done => ~q.failed /\ <<q.at, q.cache>> \in T
    <3> HIDE DEF p, q
    <3>1. SUFFICES ASSUME ~q.done PROVE ~q.failed /\ <<q.at, q.cache>> \in T
      OBVIOUS
    <3>2. p.cache \in Blocks
      BY <2>1 DEF Plays
    <3>3. \/ AtEnd(p) /\ q = p
          \/ /\ ~AtEnd(p) /\ p.at \in Slots /\ l[p.at] # Erased /\ ~Bad(l, p.at)
             /\ ~q.failed /\ q.cache = Put(p.cache, l, p.at) /\ q.at = p.at + Width(l, p.at)
      BY <2>1, <3>1, OneEntry
    <3>4. CASE AtEnd(p) /\ q = p
      BY <2>2, <3>1, <3>4
    <3>5. CASE /\ ~AtEnd(p) /\ p.at \in Slots /\ l[p.at] # Erased /\ ~Bad(l, p.at)
               /\ ~q.failed /\ q.cache = Put(p.cache, l, p.at) /\ q.at = p.at + Width(l, p.at)
      <4>1. ~p.done
        BY <3>5 DEF AtEnd
      <4>2. <<p.at, p.cache>> \in T /\ Reached(d, l, p.at, p.cache)
        BY <2>2, <2>4, <4>1
      <4>3. <<p.at + Width(l, p.at), Put(p.cache, l, p.at)>> \in T
        BY <3>2, <3>5, <4>2
      <4> QED
        BY <3>5, <4>3
    <3> QED
      BY <3>3, <3>4, <3>5
  <2> HIDE DEF p
  <2> QED
    BY <2>5
<1> HIDE DEF S
<1>3. Nat \subseteq S
  BY <1>1, <1>2, SetInduction
<1>4. PICK k \in Nat : Play(d, l, k) = [cache |-> c, at |-> n, done |-> FALSE, failed |-> FALSE]
  BY DEF Reached
<1>5. k \in S
  BY <1>3
<1> QED
  BY <1>4, <1>5 DEF S

\* Playback goes forward only, and where it has ended it stays.
LEMMA PlayLater ==
  ASSUME NEW d \in Blocks, NEW l \in Logs, NEW k \in Nat
  PROVE  \A j \in Nat : /\ Play(d, l, k).at <= Play(d, l, k + j).at
                        /\ AtEnd(Play(d, l, k)) => Play(d, l, k + j) = Play(d, l, k)
<1> DEFINE p == Play(d, l, k)
           S == {j \in Nat : p.at <= Play(d, l, k + j).at /\ (AtEnd(p) => Play(d, l, k + j) = p)}
<1>1. 0 \in S
  <2>1. p \in Plays /\ k + 0 = k
    BY PlayType
  <2> QED
    BY <2>1 DEF Plays
<1>2. ASSUME NEW j \in Nat, j \in S
      PROVE  j + 1 \in S
  <2> DEFINE m == Play(d, l, k + j)
             q == Play(d, l, k + (j + 1))
  <2>1. k + j \in Nat /\ k + (j + 1) = (k + j) + 1
    OBVIOUS
  <2>2. q = PlayEntry(l, m) /\ m \in Plays /\ q \in Plays /\ p \in Plays
    BY <2>1, PlayUnfold, PlayType
  <2>3. p.at <= m.at /\ (AtEnd(p) => m = p)
    BY <1>2
  <2>4. p.at <= q.at /\ (AtEnd(p) => q = p)
    <3> HIDE DEF p, q, m
    <3>1. p.at \in Nat /\ m.at \in Nat /\ q.at \in Nat
      BY <2>2 DEF Plays
    <3>2. m.at <= q.at /\ (AtEnd(m) => q = m)
      BY <2>2, <3>1, OneEntry
    <3> QED
      BY <2>3, <3>1, <3>2
  <2> HIDE DEF p
  <2> QED
    BY <2>4
<1> HIDE DEF S
<1>3. Nat \subseteq S
  BY <1>1, <1>2, SetInduction
<1> QED
  BY <1>3 DEF S

\* No place it comes to is inside an entry: before a place there are good entries only,
\* each of which ends there or before.
LEMMA Gap ==
  ASSUME NEW d \in Blocks, NEW l \in Logs, NEW n, NEW c, NEW i, NEW e,
         Reached(d, l, n, c), Reached(d, l, i, e), i < n
  PROVE  i \in Slots /\ l[i] # Erased /\ ~Bad(l, i) /\ i + Width(l, i) <= n
<1>1. PICK kn \in Nat : Play(d, l, kn) = [cache |-> c, at |-> n, done |-> FALSE, failed |-> FALSE]
  BY DEF Reached
<1>2. PICK ki \in Nat : Play(d, l, ki) = [cache |-> e, at |-> i, done |-> FALSE, failed |-> FALSE]
  BY DEF Reached
<1>3. n \in Nat /\ i \in Nat
  BY ReachedType
<1> DEFINE p == Play(d, l, ki)
           q == Play(d, l, ki + 1)
           r == Play(d, l, kn)
<1>4. p \in Plays /\ q \in Plays /\ r \in Plays /\ q = PlayEntry(l, p)
  BY PlayType, PlayUnfold
<1>5. p.at = i /\ ~p.done
  BY <1>2
<1>6. r.at = n /\ ~r.done
  BY <1>1
<1>7. ki < kn
  <2>1. SUFFICES ASSUME kn <= ki PROVE FALSE
    OBVIOUS
  <2>2. ki - kn \in Nat /\ kn + (ki - kn) = ki
    BY <2>1
  <2>3. r.at <= p.at
    BY <2>2, PlayLater
  <2> QED
    BY <1>3, <1>5, <1>6, <2>3
<1>8. r.at >= q.at /\ (AtEnd(q) => r = q)
  <2>1. kn - (ki + 1) \in Nat /\ (ki + 1) + (kn - (ki + 1)) = kn /\ ki + 1 \in Nat
    BY <1>7
  <2>2. q.at <= Play(d, l, (ki + 1) + (kn - (ki + 1))).at
        /\ (AtEnd(q) => Play(d, l, (ki + 1) + (kn - (ki + 1))) = q)
    BY <2>1, PlayLater
  <2>3. q.at <= r.at /\ (AtEnd(q) => r = q)
    BY <2>1, <2>2
  <2> HIDE DEF q, r
  <2> QED
    BY <1>4, <2>3 DEF Plays
<1> HIDE DEF p, q, r
<1>9. ~q.done
  BY <1>6, <1>8 DEF AtEnd
<1>10. ~AtEnd(p)
  <2>1. SUFFICES ASSUME AtEnd(p) PROVE FALSE
    OBVIOUS
  <2>2. q = p
    BY <1>4, <2>1, PlayStays
  <2>3. r = p
    BY <1>8, <2>1, <2>2
  <2> QED
    BY <1>3, <1>5, <1>6, <2>3
<1>11. /\ p.at \in Slots /\ l[p.at] # Erased /\ ~Bad(l, p.at)
       /\ q.at = p.at + Width(l, p.at)
  BY <1>4, <1>9, <1>10, OneEntry
<1> QED
  BY <1>5, <1>6, <1>8, <1>11

\* The data make no difference to where it comes by.
LEMMA SameWay ==
  ASSUME NEW d \in Blocks, NEW e \in Blocks, NEW l \in Logs, NEW n, NEW c, Reached(d, l, n, c)
  PROVE  \E b : Reached(e, l, n, b)
<1> DEFINE T == {t \in Nat \X Blocks : \E b : Reached(e, l, t[1], b)}
<1>1. <<0, d>> \in T
  BY ReachedFirst
<1>2. ASSUME NEW m \in Slots, NEW f \in Blocks, <<m, f>> \in T, Reached(d, l, m, f),
             l[m] # Erased, ~Bad(l, m)
      PROVE  <<m + Width(l, m), Put(f, l, m)>> \in T
  <2>1. PICK b : Reached(e, l, m, b)
    BY <1>2
  <2>2. Reached(e, l, m + Width(l, m), Put(b, l, m))
    BY <1>2, <2>1, ReachedNext
  <2>3. Reached(d, l, m + Width(l, m), Put(f, l, m))
    BY <1>2, ReachedNext
  <2>4. m + Width(l, m) \in Nat /\ Put(f, l, m) \in Blocks
    BY <2>3, ReachedType
  <2> QED
    BY <2>2, <2>4
<1> HIDE DEF T
<1>3. <<n, c>> \in T
  BY <1>1, <1>2, ReachedInduction
<1> QED
  BY <1>3 DEF T

\* An entry that ends in time is the same in a log that agrees as far as there.
LEMMA EntryAgree ==
  ASSUME NEW l \in Logs, NEW m \in Logs, NEW n \in Nat, NEW i \in Slots,
         \A j \in Slots : j < n => l[j] = m[j], ~Bad(l, i), i + Width(l, i) <= n
  PROVE  m[i] = l[i] /\ ~Bad(m, i) /\ Width(m, i) = Width(l, i) /\ \A c : Put(c, m, i) = Put(c, l, i)
<1>1. i \in Nat /\ i < LOG_SLOTS
  BY WearLevelingAssumption DEF Slots
<1>2. Width(l, i) \in 1 .. 4
  BY <1>1, EntryTypes
<1>3. \A j \in Nat : j < n => Read(m, j) = Read(l, j)
  BY DEF Read
<1>4. i < n /\ Read(m, i) = Read(l, i) /\ m[i] = l[i]
  BY <1>1, <1>2, <1>3
<1>5. Read(l, i) \in Words
  BY <1>1, ReadWord
<1>6. Width(m, i) = Width(l, i)
  BY <1>4 DEF Width, EntryWords
<1>7. EntryAddress(m, i) = EntryAddress(l, i) /\ EntryBytes(m, i) = EntryBytes(l, i)
  <2>1. CASE Type(Read(l, i)) # "MULTIBYTE"
    <3>1. Type(Read(l, i)) \in {"OPTIMIZED_64", "WORD_01", "NONE"}
      BY <1>5, <2>1, TypeRanges
    <3> QED
      BY <1>4, <3>1 DEF EntryAddress, EntryBytes
  <2>2. CASE Type(Read(l, i)) = "MULTIBYTE"
    <3> DEFINE x == Length(Read(l, i))
    <3>1. /\ x \in 0 .. 7
          /\ EntryBytes(l, i) \in Seq(Octets) /\ Len(EntryBytes(l, i)) = x
          /\ \A j \in 1 .. x : EntryBytes(l, i)[j] = Behind(l, i)[j]
      BY <2>2, MultibyteBytes
    <3>2. /\ EntryBytes(m, i) \in Seq(Octets) /\ Len(EntryBytes(m, i)) = x
          /\ \A j \in 1 .. x : EntryBytes(m, i)[j] = Behind(m, i)[j]
      BY <1>4, <2>2, MultibyteBytes
    <3>3. Width(l, i) = IF x <= 1 THEN 2 ELSE IF x <= 3 THEN 3 ELSE 4
      BY <2>2 DEF Width, EntryWords
    <3> HIDE DEF x
    <3>4. Read(m, i + 1) = Read(l, i + 1)
      BY <1>1, <1>3, <3>1, <3>3
    <3>5. x > 1 => Read(m, i + 2) = Read(l, i + 2)
      BY <1>1, <1>3, <3>1, <3>3
    <3>6. x > 3 => Read(m, i + 3) = Read(l, i + 3)
      BY <1>1, <1>3, <3>1, <3>3
    <3>7. EntryAddress(m, i) = EntryAddress(l, i)
      BY <1>4, <2>2, <3>4 DEF EntryAddress
    <3>8. \A j \in 1 .. x : Behind(m, i)[j] = Behind(l, i)[j]
      <4>1. ASSUME NEW j \in 1 .. x PROVE Behind(m, i)[j] = Behind(l, i)[j]
        <5>1. j \in 1 .. 7
          BY <3>1
        <5>2. CASE j \in {1, 6, 7}
          BY <3>4, <5>2, BehindTypes
        <5>3. CASE j \in {2, 3}
          <6>1. x > 1
            BY <3>1, <5>3
          <6> QED
            BY <3>5, <5>3, <6>1, BehindTypes
        <5>4. CASE j \in {4, 5}
          <6>1. x > 3
            BY <3>1, <5>4
          <6> QED
            BY <3>6, <5>4, <6>1, BehindTypes
        <5> QED
          BY <5>1, <5>2, <5>3, <5>4
      <4> QED
        BY <4>1
    <3>9. EntryBytes(m, i) = EntryBytes(l, i)
      BY <3>1, <3>2, <3>8, SeqEqual
    <3> QED
      BY <3>7, <3>9
  <2> QED
    BY <2>1, <2>2
<1>8. ~Bad(m, i)
  BY <1>4, <1>7 DEF Bad
<1> QED
  BY <1>4, <1>6, <1>7, <1>8 DEF Put

\* Playback comes to the same places in a log that agrees as far as there.
LEMMA ReachedAgree ==
  ASSUME NEW d \in Blocks, NEW l \in Logs, NEW m \in Logs, NEW n \in Nat, NEW c,
         \A j \in Slots : j < n => l[j] = m[j], Reached(d, l, n, c)
  PROVE  Reached(d, m, n, c)
<1> DEFINE T == {t \in Nat \X Blocks : t[1] <= n => Reached(d, m, t[1], t[2])}
<1>1. <<0, d>> \in T
  BY ReachedFirst
<1>2. ASSUME NEW i \in Slots, NEW f \in Blocks, <<i, f>> \in T, Reached(d, l, i, f),
             l[i] # Erased, ~Bad(l, i)
      PROVE  <<i + Width(l, i), Put(f, l, i)>> \in T
  <2> DEFINE a == i + Width(l, i)
             g == Put(f, l, i)
  <2>1. Reached(d, l, a, g)
    BY <1>2, ReachedNext
  <2>2. a \in Nat /\ g \in Blocks
    BY <2>1, ReachedType
  <2>3. ASSUME a <= n
        PROVE  Reached(d, m, a, g)
    <3>0. i \in Nat /\ Width(l, i) \in 1 .. 4
      BY EntryTypes, WearLevelingAssumption DEF Slots
    <3>1. i <= n
      BY <2>3, <3>0
    <3>2. Reached(d, m, i, f)
      BY <1>2, <3>1
    <3>3. m[i] = l[i] /\ ~Bad(m, i) /\ Width(m, i) = Width(l, i) /\ Put(f, m, i) = Put(f, l, i)
      BY <1>2, <2>3, EntryAgree
    <3>4. Reached(d, m, i + Width(m, i), Put(f, m, i))
      BY <1>2, <3>2, <3>3, ReachedNext
    <3> QED
      BY <3>3, <3>4
  <2> HIDE DEF a, g
  <2>4. <<a, g>> \in T
    BY <2>2, <2>3
  <2> HIDE DEF T
  <2> QED
    BY <2>4 DEF a, g
<1> HIDE DEF T
<1>3. <<n, c>> \in T
  BY <1>1, <1>2, ReachedInduction
<1> QED
  BY <1>3 DEF T

\* How far playback has come after k entries: it goes on at slot k or later, or has
\* ended at an erased slot it came to, or has failed.
LEMMA PlayShape ==
  ASSUME NEW d \in Blocks, NEW l \in Logs
  PROVE  \A k \in Nat :
           LET p == Play(d, l, k)
           IN  /\ p.at <= LOG_SLOTS + 3
               /\ \/ ~p.done /\ ~p.failed /\ (p.at >= k \/ p.at >= LOG_SLOTS)
                  \/ /\ p.done /\ ~p.failed /\ p.at \in Slots /\ l[p.at] = Erased
                     /\ Reached(d, l, p.at, p.cache)
                  \/ p.done /\ p.failed
<1> DEFINE Shape(k, p) ==
      /\ p.at <= LOG_SLOTS + 3
      /\ \/ ~p.done /\ ~p.failed /\ (p.at >= k \/ p.at >= LOG_SLOTS)
         \/ /\ p.done /\ ~p.failed /\ p.at \in Slots /\ l[p.at] = Erased
            /\ Reached(d, l, p.at, p.cache)
         \/ p.done /\ p.failed
    S == {k \in Nat : Shape(k, Play(d, l, k))}
<1> LOG_SLOTS \in Nat
  BY WearLevelingAssumption
<1>1. 0 \in S
  <2>1. Play(d, l, 0) = Begin(d)
    BY PlayUnfold
  <2>2. Shape(0, Begin(d))
    BY DEF Begin
  <2> HIDE DEF Shape
  <2> QED
    BY <2>1, <2>2
<1>2. ASSUME NEW k \in Nat, k \in S
      PROVE  k + 1 \in S
  <2> DEFINE p == Play(d, l, k)
             q == Play(d, l, k + 1)
  <2>1. p \in Plays /\ q \in Plays /\ q = PlayEntry(l, p)
    BY PlayType, PlayUnfold
  <2>2. Shape(k, p)
    <3> HIDE DEF Shape
    <3> QED
      BY <1>2
  <2>3. ~p.done /\ ~p.failed => Reached(d, l, p.at, p.cache)
    <3>1. SUFFICES ASSUME ~p.done, ~p.failed PROVE Reached(d, l, p.at, p.cache)
      OBVIOUS
    <3>2. p = [cache |-> p.cache, at |-> p.at, done |-> p.done, failed |-> p.failed]
      BY <2>1 DEF Plays
    <3>3. p.done = FALSE /\ p.failed = FALSE
      BY <2>1, <3>1 DEF Plays
    <3>4. Play(d, l, k) = [cache |-> p.cache, at |-> p.at, done |-> FALSE, failed |-> FALSE]
      BY <3>2, <3>3
    <3> HIDE DEF p
    <3> QED
      BY <3>4 DEF Reached
  <2>4. Shape(k + 1, q)
    <3> HIDE DEF p, q
    <3>1. p.at \in Nat /\ q.at \in Nat /\ (p.at \in Slots => p.at <= LOG_SLOTS - 1)
      BY <2>1 DEF Plays, Slots
    <3>2. Width(l, p.at) \in 1 .. 4 /\ BadWidth(l, p.at) \in 1 .. 4
      BY <3>1, EntryTypes
    <3>3. CASE AtEnd(p) /\ q = p
      BY <2>2, <3>1, <3>3 DEF AtEnd
    <3>4. CASE /\ ~AtEnd(p) /\ p.at \in Slots /\ l[p.at] = Erased
               /\ q.done /\ q.cache = p.cache /\ q.at = p.at /\ q.failed = p.failed
      <4>1. ~p.done /\ ~p.failed
        BY <2>2, <3>4 DEF AtEnd
      <4>2. Reached(d, l, q.at, q.cache)
        BY <2>3, <3>4, <4>1
      <4> QED
        BY <2>2, <3>1, <3>4, <4>1, <4>2
    <3>5. CASE /\ ~AtEnd(p) /\ p.at \in Slots /\ l[p.at] # Erased /\ Bad(l, p.at)
               /\ q.done /\ q.failed /\ q.at = p.at + BadWidth(l, p.at) /\ q.at > p.at
      BY <3>1, <3>2, <3>5
    <3>6. CASE /\ ~AtEnd(p) /\ p.at \in Slots /\ l[p.at] # Erased /\ ~Bad(l, p.at)
               /\ ~q.done /\ ~q.failed /\ q.cache = Put(p.cache, l, p.at)
               /\ q.at = p.at + Width(l, p.at) /\ q.at > p.at
      <4>1. ~p.done /\ p.at < LOG_SLOTS
        BY <3>1, <3>6 DEF AtEnd
      <4>2. p.at >= k
        BY <2>2, <3>1, <4>1
      <4> QED
        BY <3>1, <3>2, <3>6, <4>2
    <3> QED
      BY <2>1, <3>3, <3>4, <3>5, <3>6, OneEntry
  <2> HIDE DEF Shape
  <2> QED
    BY <2>4
<1> HIDE DEF S, Shape
<1>3. Nat \subseteq S
  BY <1>1, <1>2, SetInduction
<1>4. \A k \in Nat : Shape(k, Play(d, l, k))
  <2> USE DEF S
  <2> QED
    BY <1>3
<1> QED
  BY <1>4 DEF Shape

\* What playback ends with: at an erased slot it came to, unless it failed or the log
\* is full.
LEMMA PlaybackReached ==
  ASSUME NEW d \in Blocks, NEW l \in Logs, NEW p, p = Playback(d, l)
  PROVE  /\ p \in Plays /\ p.at <= LOG_SLOTS + 3
         /\ ~p.failed /\ p.at < LOG_SLOTS =>
              p.at \in Slots /\ l[p.at] = Erased /\ Reached(d, l, p.at, p.cache)
<1>1. LOG_SLOTS \in Nat /\ LOG_SLOTS + 1 \in Nat
  BY WearLevelingAssumption
<1>2. p = Play(d, l, LOG_SLOTS + 1)
  BY DEF Playback
<1>3. p \in Plays /\ p.at \in Nat
  <2>1. p \in Plays
    BY <1>1, <1>2, PlayType
  <2> QED
    BY <2>1 DEF Plays
<1>4. /\ p.at <= LOG_SLOTS + 3
      /\ \/ ~p.done /\ ~p.failed /\ (p.at >= LOG_SLOTS + 1 \/ p.at >= LOG_SLOTS)
         \/ /\ p.done /\ ~p.failed /\ p.at \in Slots /\ l[p.at] = Erased
            /\ Reached(d, l, p.at, p.cache)
         \/ p.done /\ p.failed
  BY <1>1, <1>2, PlayShape
<1> QED
  BY <1>1, <1>3, <1>4

\* Playback ends where it comes to an erased slot.
LEMMA ReachedStops ==
  ASSUME NEW d \in Blocks, NEW l \in Logs, NEW n \in Slots, NEW c, Reached(d, l, n, c),
         l[n] = Erased
  PROVE  Playback(d, l) = [cache |-> c, at |-> n, done |-> TRUE, failed |-> FALSE]
<1>1. PICK k \in Nat : Play(d, l, k) = [cache |-> c, at |-> n, done |-> FALSE, failed |-> FALSE]
  BY DEF Reached
<1> DEFINE p == Play(d, l, k)
           q == Play(d, l, k + 1)
<1>2. p \in Plays /\ q \in Plays /\ q = PlayEntry(l, p)
  BY PlayType, PlayUnfold
<1>3. LOG_SLOTS \in Nat /\ n \in Nat /\ n < LOG_SLOTS
  BY WearLevelingAssumption DEF Slots
<1>4. p.at = n /\ ~p.done /\ p = [cache |-> c, at |-> n, done |-> FALSE, failed |-> FALSE]
  BY <1>1
<1>5. k <= n
  <2>1. \/ ~p.done /\ ~p.failed /\ (p.at >= k \/ p.at >= LOG_SLOTS)
        \/ p.done
    BY PlayShape
  <2> HIDE DEF p
  <2> QED
    BY <1>3, <1>4, <2>1
<1>6. q = [cache |-> c, at |-> n, done |-> TRUE, failed |-> FALSE]
  <2> HIDE DEF p, q
  <2>1. ~AtEnd(p)
    BY <1>3, <1>4 DEF AtEnd
  <2>2. q = [p EXCEPT !.done = TRUE]
    BY <1>2, <1>4, <2>1, PlayErased
  <2>3. p.cache = c /\ p.at = n /\ p.failed = FALSE
    BY <1>4
  <2> QED
    BY <1>2, <2>2, <2>3 DEF Plays
<1>7. AtEnd(q)
  <2> HIDE DEF q
  <2> QED
    BY <1>6 DEF AtEnd
<1>8. LOG_SLOTS - k \in Nat /\ (k + 1) + (LOG_SLOTS - k) = LOG_SLOTS + 1 /\ k + 1 \in Nat
  BY <1>3, <1>5
<1>9. Play(d, l, (k + 1) + (LOG_SLOTS - k)) = q
  BY <1>7, <1>8, PlayLater
<1> HIDE DEF p, q
<1> QED
  BY <1>6, <1>8, <1>9 DEF Playback

-----------------------------------------------------------------------------
(* The words of a write.                                                   *)

\* The words e are in the log l from slot s on, as far as it goes.
Placed(e, l, s) == \A j \in 1 .. Len(e) : s + j - 1 \in Slots => l[s + j - 1] = e[j]

\* e is a log entry for the bytes v at address a.
IsEntry(e, a, v) ==
  /\ e \in Seq(Words) /\ Len(e) \in 1 .. 4
  /\ e[1] # Erased /\ Type(e[1]) # "NONE"
  /\ Len(e) > 1 => Type(e[1]) = "MULTIBYTE"
  /\ \A l \in Logs, s \in Slots :
       Placed(e, l, s) => /\ Width(l, s) = Len(e)
                          /\ s + Len(e) <= LOG_SLOTS => EntryAddress(l, s) = a /\ EntryBytes(l, s) = v

\* Two bytes are a word.
LEMMA WordTypes ==
  ASSUME NEW x \in Octets, NEW y \in Octets
  PROVE  Word(x, y) \in Words /\ Word(x, y).x = x /\ Word(x, y).y = y
BY DEF Words, Word

\* What is placed in a log is read from it.
LEMMA PlacedReads ==
  ASSUME NEW e \in Seq(Words), NEW l \in Logs, NEW s \in Slots, Placed(e, l, s)
  PROVE  /\ \A j \in 1 .. Len(e) : s + Len(e) <= LOG_SLOTS => Read(l, s + j - 1) = e[j]
         /\ Len(e) > 0 => Read(l, s) = e[1]
<1>1. LOG_SLOTS \in Nat /\ s \in Nat /\ s < LOG_SLOTS /\ Len(e) \in Nat
  BY WearLevelingAssumption DEF Slots
<1>2. ASSUME NEW j \in 1 .. Len(e), s + Len(e) <= LOG_SLOTS
      PROVE  Read(l, s + j - 1) = e[j]
  <2>1. s + j - 1 \in Slots
    BY <1>1, <1>2 DEF Slots
  <2> QED
    BY <2>1 DEF Placed, Read
<1>3. ASSUME Len(e) > 0
      PROVE  Read(l, s) = e[1]
  <2>1. 1 \in 1 .. Len(e) /\ s + 1 - 1 = s
    BY <1>1, <1>3
  <2> QED
    BY <2>1 DEF Placed, Read
<1> QED
  BY <1>2, <1>3

\* A byte in one word.
LEMMA OneByteEntry ==
  ASSUME NEW a \in 0 .. 63, NEW b \in Octets
  PROVE  IsEntry(<<OPTIMIZED_64(a, b)>>, a, <<b>>)
<1> DEFINE w == OPTIMIZED_64(a, b)
           e == <<w>>
<1>1. w \in Words /\ w.x = 64 + a /\ w.y = b
  <2>1. 64 + a \in Octets
    BY DEF Octets
  <2> QED
    BY <2>1, WordTypes DEF OPTIMIZED_64
<1>2. Type(w) = "OPTIMIZED_64" /\ w # Erased
  <2>1. w.x \in 64 .. 127 /\ w.x # 0
    BY <1>1
  <2> HIDE DEF w
  <2> QED
    BY <1>1, <2>1, TypeRanges DEF Erased, Word
<1> HIDE DEF w
<1>3. e \in Seq(Words) /\ Len(e) = 1 /\ e[1] = w
  BY <1>1
<1> HIDE DEF e
<1>4. ASSUME NEW l \in Logs, NEW s \in Slots, Placed(e, l, s)
      PROVE  Width(l, s) = 1 /\ EntryAddress(l, s) = a /\ EntryBytes(l, s) = <<b>>
  <2>1. Read(l, s) = w
    BY <1>3, <1>4, PlacedReads
  <2>2. Width(l, s) = 1
    BY <1>2, <2>1 DEF Width, EntryWords
  <2>3. EntryAddress(l, s) = w.x - 64
    BY <1>2, <2>1 DEF EntryAddress
  <2>4. EntryBytes(l, s) = <<w.y>>
    BY <1>2, <2>1 DEF EntryBytes
  <2> QED
    BY <1>1, <2>2, <2>3, <2>4
<1>5. IsEntry(e, a, <<b>>)
  BY <1>2, <1>3, <1>4 DEF IsEntry
<1> QED
  BY <1>5 DEF e, w

\* A 16-bit 0 or 1 in one word.
LEMMA WordEntry ==
  ASSUME NEW a \in Nat, a < WORD_LIMIT, a % 2 = 0, NEW b \in {0, 1}
  PROVE  IsEntry(<<WORD_01(a, b)>>, a, <<b, 0>>)
<1> DEFINE w == WORD_01(a, b)
           e == <<w>>
<1>7. a < 16384
  BY SMT DEF WORD_LIMIT
<1>8. a \div 512 \in Nat /\ a \div 512 <= 31
  BY <1>7, SMT
<1>1. w \in Words /\ w.x = 128 + 32 * b + a \div 512 /\ w.y = (a \div 2) % 256
  <2>1. 128 + 32 * b + a \div 512 \in Octets /\ (a \div 2) % 256 \in Octets
    BY <1>8 DEF Octets
  <2> QED
    BY <2>1, WordTypes DEF WORD_01
<1>2. Type(w) = "WORD_01" /\ w # Erased
  <2>1. w.x \in 128 .. 191 /\ w.x # 0
    BY <1>1, <1>8
  <2> HIDE DEF w
  <2> QED
    BY <1>1, <2>1, TypeRanges DEF Erased, Word
<1>3. Value(w) = b /\ (w.x % 32) * 512 + w.y * 2 = a
  <2> HIDE DEF w
  <2>1. w.x % 32 = a \div 512 /\ (w.x \div 32) % 2 = b
    <3> DEFINE q == a \div 512
    <3>1. q \in Nat /\ q <= 31 /\ b \in Nat /\ b <= 1 /\ w.x = 128 + 32 * b + q
      BY <1>1, <1>8
    <3> HIDE DEF q
    <3>2. w.x % 32 = q /\ (w.x \div 32) % 2 = b
      BY <3>1, SMT
    <3> QED
      BY <3>2 DEF q
  <2>2. (a \div 512) * 512 + ((a \div 2) % 256) * 2 = a
    BY <1>7, SMT
  <2> QED
    BY <1>1, <2>1, <2>2 DEF Value
<1> HIDE DEF w
<1>4. e \in Seq(Words) /\ Len(e) = 1 /\ e[1] = w
  BY <1>1
<1> HIDE DEF e
<1>5. ASSUME NEW l \in Logs, NEW s \in Slots, Placed(e, l, s)
      PROVE  Width(l, s) = 1 /\ EntryAddress(l, s) = a /\ EntryBytes(l, s) = <<b, 0>>
  <2>1. Read(l, s) = w
    BY <1>4, <1>5, PlacedReads
  <2>2. Width(l, s) = 1
    BY <1>2, <2>1 DEF Width, EntryWords
  <2>3. EntryAddress(l, s) = (w.x % 32) * 512 + w.y * 2
    BY <1>2, <2>1 DEF EntryAddress
  <2>4. EntryBytes(l, s) = <<Value(w), 0>>
    BY <1>2, <2>1 DEF EntryBytes
  <2> QED
    BY <1>3, <2>2, <2>3, <2>4
<1>6. IsEntry(e, a, <<b, 0>>)
  BY <1>2, <1>4, <1>5 DEF IsEntry
<1> QED
  BY <1>6 DEF e, w

\* An address is put together again from its three parts, and a length told from them.
LEMMA AddressParts ==
  ASSUME NEW a \in Nat, a < 8 * BANK, NEW n \in 1 .. 5
  PROVE  /\ 8 * n + a \div BANK \in 1 .. 63
         /\ (a \div 256) % 256 \in 0 .. 255 /\ a % 256 \in 0 .. 255
         /\ (8 * n + a \div BANK) \div 8 = n
         /\ ((8 * n + a \div BANK) % 8) * BANK + ((a \div 256) % 256) * 256 + (a % 256) = a
<1>1. BANK = 65536
  BY SMT DEF BANK
<1>2. n \in Nat /\ n >= 1 /\ n <= 5
  OBVIOUS
<1>3. a \div BANK \in Nat /\ a \div BANK <= 7
  BY <1>1, SMT
<1>4. (a \div BANK) * BANK + ((a \div 256) % 256) * 256 + (a % 256) = a
  BY <1>1, SMT
<1>5. (a \div 256) % 256 \in 0 .. 255 /\ a % 256 \in 0 .. 255
  BY SMT
<1> DEFINE q == a \div BANK
<1> HIDE DEF q
<1>6. (8 * n + q) % 8 = q /\ (8 * n + q) \div 8 = n /\ 8 * n + q \in 1 .. 63
  <2>1. q \in Nat /\ q <= 7
    BY <1>3 DEF q
  <2> QED
    BY <1>2, <2>1, SMT
<1> QED
  BY <1>4, <1>5, <1>6, SMT DEF q

\* The words of a multibyte entry.
LEMMA MultibyteWords ==
  ASSUME NEW a \in Nat, a < 8 * BANK, NEW v \in Seq(Octets), Len(v) \in 1 .. 5, NEW e, e = MultibyteEntry(a, v)
  PROVE  /\ e \in Seq(Words)
         /\ Len(e) = IF Len(v) <= 1 THEN 2 ELSE IF Len(v) <= 3 THEN 3 ELSE 4
         /\ e[1] = MULTIBYTE(Len(v), a) /\ e[2] = Word(a % 256, v[1])
         /\ Len(v) > 1 => e[3] = Word(v[2], At(v, 3))
         /\ Len(v) > 3 => e[4] = Word(v[4], At(v, 5))
<1>1. \A j \in 1 .. Len(v) : v[j] \in Octets
  BY ElementOfSeq
<1>2. \A j \in 1 .. 5 : At(v, j) \in Octets
  <2>1. 0 \in Octets
    BY DEF Octets
  <2>2. \A j \in 1 .. 5 : j <= Len(v) => j \in 1 .. Len(v)
    OBVIOUS
  <2> QED
    BY <1>1, <2>1, <2>2 DEF At
<1>3. /\ 8 * Len(v) + a \div BANK \in Octets /\ (a \div 256) % 256 \in Octets
      /\ a % 256 \in Octets
  <2> DEFINE n == Len(v)
  <2>1. n \in 1 .. 5
    OBVIOUS
  <2> HIDE DEF n
  <2>2. /\ 8 * n + a \div BANK \in 1 .. 63
        /\ (a \div 256) % 256 \in 0 .. 255 /\ a % 256 \in 0 .. 255
        /\ (8 * n + a \div BANK) \div 8 = n
        /\ ((8 * n + a \div BANK) % 8) * BANK + ((a \div 256) % 256) * 256 + (a % 256) = a
    BY <2>1, AddressParts
  <2>3. \A x \in 1 .. 63 : x \in 0 .. 255
    OBVIOUS
  <2> QED
    BY <2>2, <2>3 DEF n, Octets
<1> DEFINE w1 == MULTIBYTE(Len(v), a)
           w2 == Word(a % 256, v[1])
           w3 == Word(v[2], At(v, 3))
           w4 == Word(v[4], At(v, 5))
<1>4. w1 \in Words /\ w2 \in Words
  BY <1>1, <1>3, WordTypes DEF MULTIBYTE
<1>5. Len(v) > 1 => w3 \in Words
  BY <1>1, <1>2, WordTypes
<1>6. Len(v) > 3 => w4 \in Words
  BY <1>1, <1>2, WordTypes, SMTT(30)
<1> DEFINE r == <<w1, w2>>
           t == IF Len(v) > 1 THEN <<w3>> ELSE <<>>
           u == IF Len(v) > 3 THEN <<w4>> ELSE <<>>
<1>7. e = (r \o t) \o u
  BY DEF MultibyteEntry
<1>8. r \in Seq(Words) /\ Len(r) = 2 /\ r[1] = w1 /\ r[2] = w2
  <2> HIDE DEF w1, w2
  <2> QED
    BY <1>4
<1>9. /\ t \in Seq(Words) /\ Len(t) = IF Len(v) > 1 THEN 1 ELSE 0
      /\ Len(v) > 1 => t[1] = w3
  <2> HIDE DEF w3
  <2> QED
    BY <1>5
<1>10. /\ u \in Seq(Words) /\ Len(u) = IF Len(v) > 3 THEN 1 ELSE 0
       /\ Len(v) > 3 => u[1] = w4
  <2> HIDE DEF w4
  <2> QED
    BY <1>6
<1>11. /\ e \in Seq(Words)
       /\ Len(e) = IF Len(v) <= 1 THEN 2 ELSE IF Len(v) <= 3 THEN 3 ELSE 4
       /\ e[1] = w1 /\ e[2] = w2
       /\ Len(v) > 1 => e[3] = w3
       /\ Len(v) > 3 => e[4] = w4
  <2> HIDE DEF w1, w2, w3, w4, r, t, u
  <2> DEFINE q == r \o t
  <2>1. /\ q \in Seq(Words) /\ Len(q) = Len(r) + Len(t)
        /\ \A i \in 1 .. Len(r) + Len(t) : q[i] = IF i <= Len(r) THEN r[i] ELSE t[i - Len(r)]
    BY <1>8, <1>9, ConcatProperties
  <2>2. /\ q \o u \in Seq(Words) /\ Len(q \o u) = Len(q) + Len(u)
        /\ \A i \in 1 .. Len(q) + Len(u) : (q \o u)[i] = IF i <= Len(q) THEN q[i] ELSE u[i - Len(q)]
    <3> HIDE DEF q
    <3>1. q \in Seq(Words) /\ u \in Seq(Words)
      BY <1>10, <2>1
    <3> QED
      BY <3>1, ConcatProperties
  <2>6. e = q \o u
    BY <1>7
  <2> HIDE DEF q
  <2>3. CASE Len(v) <= 1
    BY <1>8, <1>9, <1>10, <2>1, <2>2, <2>6, <2>3
  <2>4. CASE Len(v) > 1 /\ Len(v) <= 3
    BY <1>8, <1>9, <1>10, <2>1, <2>2, <2>6, <2>4
  <2>5. CASE Len(v) > 3
    BY <1>8, <1>9, <1>10, <2>1, <2>2, <2>6, <2>5
  <2> QED
    BY <2>3, <2>4, <2>5
<1> QED
  BY <1>11

\* Up to five bytes in two to four words.
LEMMA MultibyteIsEntry ==
  ASSUME NEW a \in Nat, a < 8 * BANK, NEW v \in Seq(Octets), Len(v) \in 1 .. 5
  PROVE  IsEntry(MultibyteEntry(a, v), a, v)
<1> DEFINE e == MultibyteEntry(a, v)
<1>1. /\ e \in Seq(Words)
      /\ Len(e) = IF Len(v) <= 1 THEN 2 ELSE IF Len(v) <= 3 THEN 3 ELSE 4
      /\ e[1] = MULTIBYTE(Len(v), a) /\ e[2] = Word(a % 256, v[1])
      /\ Len(v) > 1 => e[3] = Word(v[2], At(v, 3))
      /\ Len(v) > 3 => e[4] = Word(v[4], At(v, 5))
  BY MultibyteWords
<1> HIDE DEF e
<1>0. /\ 8 * Len(v) + a \div BANK \in 1 .. 63 /\ (8 * Len(v) + a \div BANK) \div 8 = Len(v)
      /\ ((8 * Len(v) + a \div BANK) % 8) * BANK + ((a \div 256) % 256) * 256 + (a % 256) = a
  <2> DEFINE n == Len(v)
  <2>1. n \in 1 .. 5
    OBVIOUS
  <2> HIDE DEF n
  <2>2. /\ 8 * n + a \div BANK \in 1 .. 63 /\ (8 * n + a \div BANK) \div 8 = n
        /\ ((8 * n + a \div BANK) % 8) * BANK + ((a \div 256) % 256) * 256 + (a % 256) = a
    BY <2>1, AddressParts
  <2> QED
    BY <2>2 DEF n
<1>2. e[1].x = 8 * Len(v) + a \div BANK /\ e[1].y = (a \div 256) % 256
  BY <1>1 DEF MULTIBYTE, Word
<1>3. e[2].x = a % 256 /\ e[2].y = v[1]
  BY <1>1 DEF Word
<1>4. Len(v) > 1 => e[3].x = v[2] /\ e[3].y = At(v, 3)
  BY <1>1 DEF Word
<1>5. Len(v) > 3 => e[4].x = v[4] /\ e[4].y = At(v, 5)
  BY <1>1 DEF Word
<1>6. Type(e[1]) = "MULTIBYTE" /\ e[1] # Erased /\ Length(e[1]) = Len(v)
  <2>1. e[1] \in Words
    <3>1. 1 \in 1 .. Len(e)
      BY <1>1
    <3> QED
      BY <1>1, <3>1, ElementOfSeq
  <2>2. e[1].x \in 1 .. 63 /\ e[1].x \div 8 = Len(v)
    BY <1>0, <1>2
  <2>3. e[1].x \in 0 .. 63 /\ e[1].x # 0
    <3>1. \A x \in 1 .. 63 : x \in 0 .. 63 /\ x # 0
      OBVIOUS
    <3> QED
      BY <2>2, <3>1
  <2> QED
    BY <2>1, <2>2, <2>3, TypeRanges DEF Length, Erased, Word
<1>7. ASSUME NEW l \in Logs, NEW s \in Slots, Placed(e, l, s)
      PROVE  /\ Width(l, s) = Len(e)
             /\ s + Len(e) <= LOG_SLOTS => EntryAddress(l, s) = a /\ EntryBytes(l, s) = v
  <2>1. Read(l, s) = e[1]
    BY <1>1, <1>7, PlacedReads
  <2>2. Width(l, s) = Len(e)
    BY <1>1, <1>6, <2>1 DEF Width, EntryWords
  <2>3. SUFFICES ASSUME s + Len(e) <= LOG_SLOTS
                 PROVE  EntryAddress(l, s) = a /\ EntryBytes(l, s) = v
    BY <2>2
  <2>4. \A j \in 1 .. Len(e) : Read(l, s + j - 1) = e[j]
    BY <1>1, <1>7, <2>3, PlacedReads
  <2>5. s \in Nat /\ (s + 2) - 1 = s + 1 /\ (s + 3) - 1 = s + 2 /\ (s + 4) - 1 = s + 3
    BY WearLevelingAssumption DEF Slots
  <2>6. Read(l, s + 1) = e[2]
    BY <1>1, <2>4, <2>5
  <2>7. Len(v) > 1 => Read(l, s + 2) = e[3]
    BY <1>1, <2>4, <2>5
  <2>8. Len(v) > 3 => Read(l, s + 3) = e[4]
    BY <1>1, <2>4, <2>5, SMTT(30)
  <2>9. EntryAddress(l, s) = a
    <3>1. EntryAddress(l, s) = (e[1].x % 8) * BANK + e[1].y * 256 + e[2].x
      BY <1>6, <2>1, <2>6 DEF EntryAddress
    <3> QED
      BY <1>0, <1>2, <1>3, <3>1
  <2>10. EntryBytes(l, s) = v
    <3>1. /\ EntryBytes(l, s) \in Seq(Octets) /\ Len(EntryBytes(l, s)) = Len(v)
          /\ \A j \in 1 .. Len(v) : EntryBytes(l, s)[j] = Behind(l, s)[j]
      BY <1>6, <2>1, MultibyteBytes
    <3>2. Behind(l, s)[1] = v[1]
      BY <1>3, <2>6, BehindTypes
    <3>3. Len(v) > 1 => Behind(l, s)[2] = v[2] /\ Behind(l, s)[3] = At(v, 3)
      BY <1>4, <2>7, BehindTypes
    <3>4. Len(v) > 3 => Behind(l, s)[4] = v[4] /\ Behind(l, s)[5] = At(v, 5)
      BY <1>5, <2>8, BehindTypes
    <3>5. \A j \in 1 .. Len(v) : Behind(l, s)[j] = v[j]
      <4>1. ASSUME NEW j \in 1 .. Len(v) PROVE Behind(l, s)[j] = v[j]
        <5>1. j \in 1 .. 5
          <6>1. \A n \in 1 .. 5 : \A k \in 1 .. n : k \in 1 .. 5
            OBVIOUS
          <6> QED
            BY <6>1
        <5>2. CASE j = 1
          BY <3>2, <5>2
        <5>3. CASE j \in {2, 3}
          <6>1. Len(v) > 1 /\ j <= Len(v)
            BY <5>3
          <6> QED
            BY <3>3, <5>3, <6>1 DEF At
        <5>4. CASE j \in {4, 5}
          <6>1. Len(v) > 3 /\ j <= Len(v)
            BY <5>4
          <6> QED
            BY <3>4, <5>4, <6>1 DEF At
        <5> QED
          BY <5>1, <5>2, <5>3, <5>4
      <4> QED
        BY <4>1
    <3> QED
      BY <3>1, <3>5, SeqEqual
  <2> QED
    BY <2>9, <2>10
<1>8. Len(e) \in 1 .. 4
  BY <1>1
<1>9. IsEntry(e, a, v)
  BY <1>1, <1>6, <1>7, <1>8 DEF IsEntry
<1> QED
  BY <1>9 DEF e

\* The words of a write from byte i on, f those from later bytes on.
EncodeFrom(w, f, i) ==
  LET n == Len(w.value)
      a == w.address + i
      l == IF n - i >= MAX_BYTES THEN MAX_BYTES ELSE n - i
  IN  CASE i = n -> <<>>
        [] /\ n - i >= 2 /\ a % 2 = 0 /\ a < WORD_LIMIT
           /\ w.value[i + 1] \in {0, 1} /\ w.value[i + 2] = 0
             -> <<WORD_01(a, w.value[i + 1])>> \o f[i + 2]
        [] OTHER
             -> IF a < OPT_LIMIT
                THEN <<OPTIMIZED_64(a, w.value[i + 1])>> \o f[i + 1]
                ELSE MultibyteEntry(a, SubSeq(w.value, i + 1, i + l)) \o f[i + l]

\* f is the function that write_raw defines, from byte j on.
IsEncoding(f, w, j) == f = [i \in j .. Len(w.value) |-> EncodeFrom(w, f, i)]

\* A write has an address and bytes in the data.
LEMMA WriteTypes ==
  ASSUME NEW w \in Writes
  PROVE  /\ w.value \in Seq(Octets) /\ Len(w.value) \in Nat \ {0}
         /\ w.address \in Nat /\ w.address + Len(w.value) <= LOGICAL_SIZE
<1>1. w.value \in Seq(Bytes) /\ w.value # <<>> /\ w.address \in 0 .. LOGICAL_SIZE - Len(w.value)
  BY WearLevelingAssumption
<1>2. Len(w.value) \in Nat \ {0}
  BY <1>1, EmptySeq
<1>3. \A i \in 1 .. Len(w.value) : w.value[i] \in Octets
  BY <1>1, ElementOfSeq, WearLevelingAssumption DEF Octets
<1>4. w.value \in Seq(Octets)
  BY <1>1, <1>3, SeqDef
<1> QED
  BY <1>1, <1>2, <1>4, WearLevelingAssumption

\* The words from byte i on depend on those from later bytes on.
LEMMA EncodeAgree ==
  ASSUME NEW w \in Writes, NEW i \in 0 .. Len(w.value), NEW f, NEW g,
         \A k \in i + 1 .. Len(w.value) : f[k] = g[k]
  PROVE  EncodeFrom(w, f, i) = EncodeFrom(w, g, i)
<1> DEFINE n == Len(w.value)
           l == IF n - i >= MAX_BYTES THEN MAX_BYTES ELSE n - i
<1>1. n \in Nat \ {0}
  BY WriteTypes
<1>2. CASE i = n
  BY <1>2 DEF EncodeFrom
<1>3. CASE i # n
  <2>1. l \in 1 .. n - i
    BY <1>1, <1>3 DEF MAX_BYTES
  <2>2. f[i + 1] = g[i + 1] /\ f[i + l] = g[i + l] /\ (n - i >= 2 => f[i + 2] = g[i + 2])
    <3> HIDE DEF l
    <3> QED
      BY <1>1, <1>3, <2>1
  <2> QED
    BY <1>3, <2>2 DEF EncodeFrom
<1> QED
  BY <1>2, <1>3

\* There is such a function.
LEMMA EncodingExists ==
  ASSUME NEW w \in Writes
  PROVE  \E f : IsEncoding(f, w, 0)
<1> DEFINE n == Len(w.value)
           S == {m \in Nat : m <= n => \E f : IsEncoding(f, w, n - m)}
<1>1. n \in Nat
  BY WriteTypes
<1>2. 0 \in S
  <2> DEFINE f == [i \in n .. n |-> <<>>]
  <2>1. \A i \in n .. n : EncodeFrom(w, f, i) = <<>>
    BY <1>1 DEF EncodeFrom
  <2>2. f = [i \in n .. n |-> EncodeFrom(w, f, i)]
    BY <2>1
  <2> HIDE DEF f
  <2>3. IsEncoding(f, w, n - 0)
    BY <1>1, <2>2 DEF IsEncoding
  <2> QED
    BY <2>3
<1>3. ASSUME NEW m \in Nat, m \in S
      PROVE  m + 1 \in S
  <2>1. SUFFICES ASSUME m + 1 <= n
                 PROVE  \E f : IsEncoding(f, w, n - (m + 1))
    OBVIOUS
  <2> DEFINE j == n - (m + 1)
  <2>2. PICK f : IsEncoding(f, w, n - m)
    BY <1>1, <1>3, <2>1
  <2>3. j \in 0 .. n /\ n - m = j + 1
    BY <1>1, <2>1
  <2> DEFINE g == [i \in j .. n |-> IF i = j THEN EncodeFrom(w, f, j) ELSE f[i]]
  <2> HIDE DEF j
  <2>4. \A i \in j + 1 .. n : f[i] = g[i] /\ f[i] = EncodeFrom(w, f, i)
    <3>1. f = [i \in j + 1 .. n |-> EncodeFrom(w, f, i)]
      BY <2>2, <2>3 DEF IsEncoding
    <3>2. ASSUME NEW i \in j + 1 .. n
          PROVE  i \in j .. n /\ i # j
      <4> HIDE DEF n
      <4> QED
        BY <1>1, <2>3
    <3>3. \A i \in j + 1 .. n : f[i] = g[i]
      BY <3>2
    <3> HIDE DEF g, n
    <3>4. \A i \in j + 1 .. n : f[i] = EncodeFrom(w, f, i)
      BY <3>1
    <3> QED
      BY <3>3, <3>4
  <2>5. ASSUME NEW i \in j .. n
        PROVE  g[i] = EncodeFrom(w, g, i)
    <3> HIDE DEF g, n
    <3>1. i \in 0 .. n /\ \A k \in i + 1 .. n : k \in j + 1 .. n
      BY <1>1, <2>3
    <3>2. EncodeFrom(w, f, i) = EncodeFrom(w, g, i)
      BY <2>4, <3>1, EncodeAgree DEF n
    <3>3. g[i] = EncodeFrom(w, f, i)
      <4>1. CASE i = j
        BY <4>1 DEF g
      <4>2. CASE i # j
        BY <1>1, <2>3, <2>4, <4>2
      <4> QED
        BY <4>1, <4>2
    <3> QED
      BY <3>2, <3>3
  <2>6. g = [i \in j .. n |-> EncodeFrom(w, g, i)]
    BY <2>5
  <2> HIDE DEF g
  <2>7. IsEncoding(g, w, j)
    BY <2>6 DEF IsEncoding
  <2> QED
    BY <2>7 DEF j
<1> HIDE DEF S
<1>4. Nat \subseteq S
  BY <1>2, <1>3, SetInduction
<1>5. n \in S
  BY <1>1, <1>4
<1>6. n - n = 0
  BY <1>1
<1> QED
  BY <1>1, <1>5, <1>6 DEF S

\* write_raw is the value of one such function.
LEMMA EncodingIs ==
  ASSUME NEW w \in Writes
  PROVE  \E f : IsEncoding(f, w, 0) /\ write_raw(w) = f[0]
<1> DEFINE n == Len(w.value)
           enc[i \in 0 .. n] ==
             LET a == w.address + i
                 l == IF n - i >= MAX_BYTES THEN MAX_BYTES ELSE n - i
             IN  CASE i = n -> <<>>
                   [] /\ n - i >= 2 /\ a % 2 = 0 /\ a < WORD_LIMIT
                      /\ w.value[i + 1] \in {0, 1} /\ w.value[i + 2] = 0
                        -> <<WORD_01(a, w.value[i + 1])>> \o enc[i + 2]
                   [] OTHER
                        -> IF a < OPT_LIMIT
                           THEN <<OPTIMIZED_64(a, w.value[i + 1])>> \o enc[i + 1]
                           ELSE MultibyteEntry(a, SubSeq(w.value, i + 1, i + l)) \o enc[i + l]
<1>1. PICK f : IsEncoding(f, w, 0)
  BY EncodingExists
<1>2. f = [i \in 0 .. n |->
             LET a == w.address + i
                 l == IF n - i >= MAX_BYTES THEN MAX_BYTES ELSE n - i
             IN  CASE i = n -> <<>>
                   [] /\ n - i >= 2 /\ a % 2 = 0 /\ a < WORD_LIMIT
                      /\ w.value[i + 1] \in {0, 1} /\ w.value[i + 2] = 0
                        -> <<WORD_01(a, w.value[i + 1])>> \o f[i + 2]
                   [] OTHER
                        -> IF a < OPT_LIMIT
                           THEN <<OPTIMIZED_64(a, w.value[i + 1])>> \o f[i + 1]
                           ELSE MultibyteEntry(a, SubSeq(w.value, i + 1, i + l)) \o f[i + l]]
  BY <1>1, SMTT(30) DEF IsEncoding, EncodeFrom
<1>3. enc = [i \in 0 .. n |->
             LET a == w.address + i
                 l == IF n - i >= MAX_BYTES THEN MAX_BYTES ELSE n - i
             IN  CASE i = n -> <<>>
                   [] /\ n - i >= 2 /\ a % 2 = 0 /\ a < WORD_LIMIT
                      /\ w.value[i + 1] \in {0, 1} /\ w.value[i + 2] = 0
                        -> <<WORD_01(a, w.value[i + 1])>> \o enc[i + 2]
                   [] OTHER
                        -> IF a < OPT_LIMIT
                           THEN <<OPTIMIZED_64(a, w.value[i + 1])>> \o enc[i + 1]
                           ELSE MultibyteEntry(a, SubSeq(w.value, i + 1, i + l)) \o enc[i + l]]
  BY <1>2, ZenonT(60)
<1>4. IsEncoding(enc, w, 0)
  BY <1>3, ZenonT(60) DEF IsEncoding, EncodeFrom
<1>5. write_raw(w) = enc[0]
  BY DEF write_raw
<1> HIDE DEF enc
<1> QED
  BY <1>4, <1>5

\* Byte i and the bytes that share its entry, and the words from the next byte on.
LEMMA EncodeEntry ==
  ASSUME NEW w \in Writes, NEW f, IsEncoding(f, w, 0), NEW i \in 0 .. Len(w.value) - 1
  PROVE  \E m \in 1 .. Len(w.value) - i : \E e :
           /\ IsEntry(e, w.address + i, SubSeq(w.value, i + 1, i + m))
           /\ f[i] = e \o f[i + m]
<1> DEFINE n == Len(w.value)
           a == w.address + i
           l == IF n - i >= MAX_BYTES THEN MAX_BYTES ELSE n - i
<1>1. /\ w.value \in Seq(Octets) /\ n \in Nat \ {0} /\ w.address \in Nat
      /\ w.address + n <= LOGICAL_SIZE /\ LOGICAL_SIZE \in 1 .. 8 * BANK
      /\ BANK \in Nat
  <2>1. BANK \in Nat
    BY SMT DEF BANK
  <2> QED
    BY <2>1, WriteTypes, WearLevelingAssumption
<1>2. a \in Nat /\ a < 8 * BANK /\ i \in 0 .. n /\ i # n /\ i \in Nat
  BY <1>1
<1>3. f[i] = EncodeFrom(w, f, i)
  <2>1. f = [k \in 0 .. n |-> EncodeFrom(w, f, k)]
    BY DEF IsEncoding
  <2> HIDE DEF n
  <2> QED
    BY <1>2, <2>1
<1>4. \A k \in 1 .. n : w.value[k] \in Octets
  BY <1>1, ElementOfSeq
<1>5. \A m \in 1 .. n - i : LET v == SubSeq(w.value, i + 1, i + m)
                            IN  v \in Seq(Octets) /\ Len(v) = m /\ \A k \in 1 .. m : v[k] = w.value[i + k]
  <2>1. ASSUME NEW m \in 1 .. n - i
        PROVE  LET v == SubSeq(w.value, i + 1, i + m)
               IN  v \in Seq(Octets) /\ Len(v) = m /\ \A k \in 1 .. m : v[k] = w.value[i + k]
    <3>1. \A k \in i + 1 .. i + m : w.value[k] \in Octets
      BY <1>1, <1>2, <1>4
    <3>2. i + 1 \in Int /\ i + m \in Int /\ i + 1 <= i + m /\ i + m - (i + 1) + 1 = m
      BY <1>1, <1>2
    <3> DEFINE v == SubSeq(w.value, i + 1, i + m)
    <3>3. /\ v \in Seq(Octets)
          /\ Len(v) = IF i + 1 <= i + m THEN i + m - (i + 1) + 1 ELSE 0
          /\ \A k \in 1 .. i + m - (i + 1) + 1 : v[k] = w.value[i + 1 + k - 1]
      BY <3>1, <3>2, SubSeqProperties
    <3> HIDE DEF v
    <3>4. Len(v) = m /\ \A k \in 1 .. m : v[k] = w.value[i + 1 + k - 1]
      BY <3>2, <3>3
    <3>5. \A k \in 1 .. m : i + 1 + k - 1 = i + k
      BY <1>2
    <3>6. \A k \in 1 .. m : v[k] = w.value[i + k]
      BY <3>4, <3>5
    <3> QED
      BY <3>3, <3>4, <3>6 DEF v
  <2> QED
    BY <2>1
<1>6. CASE /\ n - i >= 2 /\ a % 2 = 0 /\ a < WORD_LIMIT
           /\ w.value[i + 1] \in {0, 1} /\ w.value[i + 2] = 0
  <2> DEFINE v == SubSeq(w.value, i + 1, i + 2)
             e == <<WORD_01(a, w.value[i + 1])>>
  <2>1. f[i] = e \o f[i + 2]
    BY <1>2, <1>3, <1>6 DEF EncodeFrom
  <2>2. 2 \in 1 .. n - i
    BY <1>1, <1>2, <1>6
  <2>3. v \in Seq(Octets) /\ Len(v) = 2 /\ v[1] = w.value[i + 1] /\ v[2] = 0
    <3>1. v \in Seq(Octets) /\ Len(v) = 2 /\ \A k \in 1 .. 2 : v[k] = w.value[i + k]
      BY <1>5, <2>2
    <3>2. w.value[i + 2] = 0 /\ 1 \in 1 .. 2 /\ 2 \in 1 .. 2
      BY <1>6
    <3> HIDE DEF v
    <3> QED
      BY <3>1, <3>2
  <2>4. v = <<w.value[i + 1], 0>>
    <3> HIDE DEF v
    <3>1. w.value[i + 1] \in Octets /\ 0 \in Octets
      BY <1>6 DEF Octets
    <3> DEFINE u == <<w.value[i + 1], 0>>
    <3>2. u \in Seq(Octets) /\ Len(u) = 2 /\ u[1] = w.value[i + 1] /\ u[2] = 0
      BY <3>1
    <3> HIDE DEF u
    <3>3. v = u
      BY <2>3, <3>2, SeqEqual, SMTT(30)
    <3> QED
      BY <3>3 DEF u
  <2>5. IsEntry(e, a, v)
    <3>1. a % 2 = 0 /\ a < WORD_LIMIT /\ a \in Nat /\ w.value[i + 1] \in {0, 1}
      BY <1>2, <1>6
    <3> HIDE DEF v, a
    <3> DEFINE b == w.value[i + 1]
    <3>2. b \in {0, 1} /\ e = <<WORD_01(a, b)>> /\ v = <<b, 0>>
      BY <2>4, <3>1
    <3> HIDE DEF b, e
    <3>3. IsEntry(<<WORD_01(a, b)>>, a, <<b, 0>>)
      BY <3>1, <3>2, WordEntry
    <3> QED
      BY <3>2, <3>3
  <2> HIDE DEF e, v
  <2> QED
    BY <2>1, <2>2, <2>5 DEF v
<1>7. CASE ~(/\ n - i >= 2 /\ a % 2 = 0 /\ a < WORD_LIMIT
             /\ w.value[i + 1] \in {0, 1} /\ w.value[i + 2] = 0) /\ a < OPT_LIMIT
  <2> DEFINE v == SubSeq(w.value, i + 1, i + 1)
             e == <<OPTIMIZED_64(a, w.value[i + 1])>>
  <2>1. f[i] = e \o f[i + 1]
    BY <1>2, <1>3, <1>7 DEF EncodeFrom
  <2>2. 1 \in 1 .. n - i /\ i + 1 \in 1 .. n
    BY <1>1, <1>2
  <2>3. v \in Seq(Octets) /\ Len(v) = 1 /\ v[1] = w.value[i + 1]
    BY <1>5, <2>2
  <2>6. w.value[i + 1] \in Octets
    BY <1>4, <2>2
  <2>4. v = <<w.value[i + 1]>>
    <3> HIDE DEF v
    <3> DEFINE u == <<w.value[i + 1]>>
    <3>2. u \in Seq(Octets) /\ Len(u) = 1 /\ u[1] = w.value[i + 1]
      BY <2>6
    <3> HIDE DEF u
    <3>3. v = u
      BY <2>3, <3>2, SeqEqual
    <3> QED
      BY <3>3 DEF u
  <2>5. IsEntry(e, a, v)
    <3>1. a \in Nat /\ a < OPT_LIMIT
      BY <1>2, <1>7
    <3> HIDE DEF v, a
    <3>2. a \in 0 .. 63
      BY <3>1, SMT DEF OPT_LIMIT
    <3> QED
      BY <2>4, <2>6, <3>2, OneByteEntry
  <2> HIDE DEF e, v
  <2> QED
    BY <2>1, <2>2, <2>5 DEF v
<1>8. CASE ~(/\ n - i >= 2 /\ a % 2 = 0 /\ a < WORD_LIMIT
             /\ w.value[i + 1] \in {0, 1} /\ w.value[i + 2] = 0) /\ ~(a < OPT_LIMIT)
  <2> DEFINE v == SubSeq(w.value, i + 1, i + l)
             e == MultibyteEntry(a, v)
  <2>1. f[i] = e \o f[i + l]
    BY <1>2, <1>3, <1>8 DEF EncodeFrom
  <2>2. l \in 1 .. n - i /\ l \in 1 .. 5
    BY <1>1, <1>2, SMTT(30) DEF MAX_BYTES
  <2>3. v \in Seq(Octets) /\ Len(v) = l
    <3> HIDE DEF l
    <3> QED
      BY <1>5, <2>2
  <2>4. IsEntry(e, a, v)
    <3> HIDE DEF v, l
    <3> QED
      BY <1>2, <2>2, <2>3, MultibyteIsEntry
  <2> HIDE DEF e, l
  <2> QED
    BY <2>1, <2>2, <2>4
<1> QED
  BY <1>6, <1>7, <1>8

\* Behind len words from slot s on, where playback came to s, it goes on with the data c,
\* unless the log ends before; between them it comes to no erased slot.
Follows(d, l, s, len, c) ==
  /\ s + len < LOG_SLOTS => Reached(d, l, s + len, c)
  /\ \A x \in Slots :
       x >= s /\ x < s + len =>
         \A e : Reached(d, l, x, e) => l[x] # Erased

\* So it is with one entry.
LEMMA EntryFollows ==
  ASSUME NEW d \in Blocks, NEW l \in Logs, NEW s \in Slots, NEW c, Reached(d, l, s, c),
         NEW e, NEW a \in Nat, NEW v \in Seq(Octets), IsEntry(e, a, v),
         a + Len(v) <= LOGICAL_SIZE, Placed(e, l, s)
  PROVE  Follows(d, l, s, Len(e), Overlay(c, a, v)) /\ Len(e) \in 1 .. 4
<1>1. LOG_SLOTS \in Nat /\ s \in Nat /\ s < LOG_SLOTS
  BY WearLevelingAssumption DEF Slots
<1>2. /\ e \in Seq(Words) /\ Len(e) \in 1 .. 4
      /\ e[1] # Erased /\ Type(e[1]) # "NONE"
  BY DEF IsEntry
<1>3. /\ Width(l, s) = Len(e)
      /\ s + Len(e) <= LOG_SLOTS => EntryAddress(l, s) = a /\ EntryBytes(l, s) = v
  BY DEF IsEntry
<1>4. l[s] = e[1] /\ Read(l, s) = e[1]
  <2>1. Read(l, s) = e[1]
    BY <1>2, PlacedReads
  <2> QED
    BY <2>1 DEF Read
<1>5. l[s] # Erased
  BY <1>2, <1>4
<1>6. ASSUME s + Len(e) <= LOG_SLOTS
      PROVE  Reached(d, l, s + Len(e), Overlay(c, a, v))
  <2>1. EntryAddress(l, s) = a /\ EntryBytes(l, s) = v
    BY <1>3, <1>6
  <2>2. ~(a + Len(v) > LOGICAL_SIZE)
    BY WearLevelingAssumption
  <2>3. ~Bad(l, s)
    BY <1>2, <1>4, <2>1, <2>2 DEF Bad
  <2>4. Reached(d, l, s + Width(l, s), Put(c, l, s))
    BY <1>5, <2>3, ReachedNext
  <2>5. Put(c, l, s) = Overlay(c, a, v)
    BY <2>1 DEF Put
  <2> QED
    BY <1>3, <2>4, <2>5
<1>7. ASSUME NEW x \in Slots, x >= s, x < s + Len(e)
      PROVE  \A b : Reached(d, l, x, b) => l[x] # Erased
  <2>1. CASE x = s
    BY <1>5, <2>1
  <2>2. CASE x # s
    <3>1. x \in Nat /\ x > s
      BY <1>1, <1>7, <2>2 DEF Slots
    <3>2. ASSUME NEW b, Reached(d, l, x, b)
          PROVE  FALSE
      <4>1. s + Width(l, s) <= x
        BY <3>1, <3>2, Gap
      <4> QED
        BY <1>1, <1>2, <1>3, <1>7, <3>1, <4>1
    <3> QED
      BY <3>2
  <2> QED
    BY <2>1, <2>2
<1>8. s + Len(e) < LOG_SLOTS => s + Len(e) <= LOG_SLOTS
  BY <1>1, <1>2
<1> QED
  BY <1>2, <1>6, <1>7, <1>8 DEF Follows

\* The data c with the bytes of a write from byte i on.
Rest(c, w, i) ==
  [b \in Addresses |-> IF b \in w.address + i .. w.address + Len(w.value) - 1
                       THEN w.value[b - w.address + 1] ELSE c[b]]

\* With no byte left they are as they were.
LEMMA RestNone ==
  ASSUME NEW c \in Blocks, NEW w \in Writes
  PROVE  Rest(c, w, Len(w.value)) = c
<1>1. w.address \in Nat /\ Len(w.value) \in Nat
  BY WriteTypes
<1>2. \A b \in Addresses : b \notin w.address + Len(w.value) .. w.address + Len(w.value) - 1
  BY <1>1
<1>3. c = [b \in Addresses |-> c[b]]
  BY DEF Blocks
<1> QED
  BY <1>2, <1>3 DEF Rest

\* With all of them the write has been made.
LEMMA RestWhole ==
  ASSUME NEW c, NEW w \in Writes
  PROVE  Rest(c, w, 0) = Overlay(c, w.address, w.value)
<1>1. w.address \in Nat /\ w.address + 0 = w.address
  BY WriteTypes
<1> QED
  BY <1>1 DEF Rest, Overlay

\* An entry's bytes and those left.
LEMMA RestStep ==
  ASSUME NEW c, NEW w \in Writes, NEW i \in Nat, NEW m \in 1 .. Len(w.value) - i
  PROVE  Rest(Overlay(c, w.address + i, SubSeq(w.value, i + 1, i + m)), w, i + m) = Rest(c, w, i)
<1> DEFINE n == Len(w.value)
           a == w.address
           v == SubSeq(w.value, i + 1, i + m)
           o == Overlay(c, a + i, v)
<1>1. w.value \in Seq(Octets) /\ n \in Nat \ {0} /\ a \in Nat
  BY WriteTypes
<1>2. \A k \in 1 .. n : w.value[k] \in Octets
  BY <1>1, ElementOfSeq
<1>3. \A k \in i + 1 .. i + m : w.value[k] \in Octets
  BY <1>1, <1>2, SMTT(30)
<1>4. i + 1 \in Int /\ i + m \in Int /\ i + 1 <= i + m /\ i + m - (i + 1) + 1 = m
  BY <1>1
<1>5. /\ Len(v) = IF i + 1 <= i + m THEN i + m - (i + 1) + 1 ELSE 0
      /\ \A k \in 1 .. i + m - (i + 1) + 1 : v[k] = w.value[i + 1 + k - 1]
  BY <1>3, <1>4, SubSeqProperties
<1>6. Len(v) = m /\ \A k \in 1 .. m : v[k] = w.value[i + 1 + k - 1]
  <2> HIDE DEF v
  <2> QED
    BY <1>4, <1>5
<1>7. ASSUME NEW b \in Addresses
      PROVE  (IF b \in a + (i + m) .. a + n - 1 THEN w.value[b - a + 1] ELSE o[b])
             = (IF b \in a + i .. a + n - 1 THEN w.value[b - a + 1] ELSE c[b])
  <2>1. b \in Nat
    BY WearLevelingAssumption DEF Addresses
  <2>2. o[b] = IF b \in a + i .. a + i + Len(v) - 1 THEN v[b - (a + i) + 1] ELSE c[b]
    BY DEF Overlay
  <2> HIDE DEF o, v, n, a
  <2>3. CASE b \in a + i .. a + i + m - 1
    <3> DEFINE k == b - (a + i) + 1
    <3>1. k \in 1 .. m /\ i + 1 + k - 1 = b - a + 1
      BY <1>1, <2>1, <2>3
    <3>2. o[b] = v[k]
      BY <1>6, <2>2, <2>3
    <3> HIDE DEF k
    <3>3. o[b] = w.value[b - a + 1]
      BY <1>6, <3>1, <3>2
    <3>4. b \in a + i .. a + n - 1
      BY <1>1, <2>1, <2>3 DEF n
    <3> QED
      BY <3>3, <3>4
  <2>4. CASE b \notin a + i .. a + i + m - 1
    <3>1. o[b] = c[b]
      BY <1>6, <2>2, <2>4
    <3>2. b \in a + (i + m) .. a + n - 1 <=> b \in a + i .. a + n - 1
      BY <1>1, <2>1, <2>4
    <3> QED
      BY <3>1, <3>2
  <2> QED
    BY <2>3, <2>4
<1>8. [b \in Addresses |-> IF b \in a + (i + m) .. a + n - 1 THEN w.value[b - a + 1] ELSE o[b]]
      = [b \in Addresses |-> IF b \in a + i .. a + n - 1 THEN w.value[b - a + 1] ELSE c[b]]
  <2> HIDE DEF o, n, a
  <2> QED
    BY <1>7
<1> HIDE DEF o
<1>9. Rest(o, w, i + m) = Rest(c, w, i)
  BY <1>8 DEF Rest
<1> QED
  BY <1>9 DEF o

\* The words s of a write from byte i on are such that with them placed where playback
\* comes to, it goes on behind them with the write made.
Encodes(s, w, i) ==
  /\ s \in Seq(Words)
  /\ i < Len(w.value) => s # <<>>
  /\ \A d \in Blocks, l \in Logs, n \in Nat, c \in Blocks :
       Placed(s, l, n) /\ Reached(d, l, n, c) => Follows(d, l, n, Len(s), Rest(c, w, i))

\* No words for no bytes.
LEMMA EncodesNone ==
  ASSUME NEW w \in Writes
  PROVE  Encodes(<<>>, w, Len(w.value))
<1>1. <<>> \in Seq(Words) /\ Len(<<>>) = 0 /\ Len(w.value) \in Nat
  BY WriteTypes, EmptySeq
<1>2. ASSUME NEW d \in Blocks, NEW l \in Logs, NEW n \in Nat, NEW c \in Blocks,
             Reached(d, l, n, c)
      PROVE  Follows(d, l, n, 0, Rest(c, w, Len(w.value)))
  <2>1. Rest(c, w, Len(w.value)) = c
    BY RestNone
  <2>2. n + 0 = n /\ \A x \in Slots : ~(x >= n /\ x < n + 0)
    BY DEF Slots
  <2> QED
    BY <1>2, <2>1, <2>2 DEF Follows
<1> QED
  BY <1>1, <1>2 DEF Encodes

\* An entry, and the words for the bytes behind it.
LEMMA EncodesStep ==
  ASSUME NEW w \in Writes, NEW i \in Nat, NEW m \in 1 .. Len(w.value) - i, NEW e, NEW s,
         IsEntry(e, w.address + i, SubSeq(w.value, i + 1, i + m)), Encodes(s, w, i + m)
  PROVE  Encodes(e \o s, w, i)
<1> DEFINE a == w.address + i
           v == SubSeq(w.value, i + 1, i + m)
           q == e \o s
<1>1. e \in Seq(Words) /\ s \in Seq(Words) /\ Len(e) \in 1 .. 4 /\ Len(s) \in Nat
  BY LenProperties DEF IsEntry, Encodes
<1>2. /\ q \in Seq(Words) /\ Len(q) = Len(e) + Len(s)
      /\ \A j \in 1 .. Len(e) + Len(s) : q[j] = IF j <= Len(e) THEN e[j] ELSE s[j - Len(e)]
  BY <1>1, ConcatProperties
<1>3. a \in Nat /\ v \in Seq(Octets) /\ a + Len(v) <= LOGICAL_SIZE
  <2>1. /\ w.value \in Seq(Octets) /\ Len(w.value) \in Nat \ {0} /\ w.address \in Nat
        /\ w.address + Len(w.value) <= LOGICAL_SIZE
    BY WriteTypes
  <2>2. \A k \in 1 .. Len(w.value) : w.value[k] \in Octets
    BY <2>1, ElementOfSeq
  <2>3. \A k \in i + 1 .. i + m : w.value[k] \in Octets
    BY <2>1, <2>2
  <2>4. i + 1 \in Int /\ i + m \in Int /\ i + 1 <= i + m /\ i + m - (i + 1) + 1 = m
    BY <2>1
  <2>5. v \in Seq(Octets) /\ Len(v) = IF i + 1 <= i + m THEN i + m - (i + 1) + 1 ELSE 0
    BY <2>3, <2>4, SubSeqProperties
  <2> HIDE DEF v
  <2>6. Len(v) = m
    BY <2>4, <2>5
  <2> QED
    <3>1. LOGICAL_SIZE \in Nat /\ m \in Nat /\ m <= Len(w.value) - i
      BY <2>1, WearLevelingAssumption
    <3>2. w.address + i + m <= LOGICAL_SIZE
      BY <2>1, <3>1, SMTT(30)
    <3> QED
      BY <2>1, <2>5, <2>6, <3>2, SMTT(30)
<1> HIDE DEF q, a, v
<1>4. ASSUME NEW d \in Blocks, NEW l \in Logs, NEW n \in Nat, NEW c \in Blocks,
             Placed(q, l, n), Reached(d, l, n, c)
      PROVE  Follows(d, l, n, Len(q), Rest(c, w, i))
  <2>1. LOG_SLOTS \in Nat
    BY WearLevelingAssumption
  <2>2. CASE n >= LOG_SLOTS
    <3>1. ~(n + Len(q) < LOG_SLOTS)
      BY <1>1, <1>2, <2>1, <2>2
    <3>2. \A x \in Slots : ~(x >= n)
      BY <2>1, <2>2 DEF Slots
    <3> QED
      BY <3>1, <3>2 DEF Follows
  <2>3. CASE n < LOG_SLOTS
    <3> DEFINE o == Overlay(c, a, v)
    <3>1. n \in Slots
      BY <2>1, <2>3 DEF Slots
    <3>2. Placed(e, l, n)
      <4>1. ASSUME NEW j \in 1 .. Len(e), n + j - 1 \in Slots
            PROVE  l[n + j - 1] = e[j]
        <5>1. j \in 1 .. Len(q) /\ j \in 1 .. Len(e) + Len(s) /\ j <= Len(e)
          BY <1>1, <1>2
        <5>2. q[j] = e[j]
          BY <1>2, <5>1
        <5>3. l[n + j - 1] = q[j]
          BY <1>4, <4>1, <5>1 DEF Placed
        <5> QED
          BY <5>2, <5>3
      <4> QED
        BY <4>1 DEF Placed
    <3>3. Placed(s, l, n + Len(e))
      <4>1. ASSUME NEW j \in 1 .. Len(s), (n + Len(e)) + j - 1 \in Slots
            PROVE  l[(n + Len(e)) + j - 1] = s[j]
        <5> DEFINE k == j + Len(e)
        <5>1. /\ k \in 1 .. Len(q) /\ k \in 1 .. Len(e) + Len(s) /\ ~(k <= Len(e))
              /\ k - Len(e) = j /\ n + k - 1 = (n + Len(e)) + j - 1
          BY <1>1, <1>2
        <5> HIDE DEF k
        <5>2. q[k] = s[j]
          BY <1>2, <5>1
        <5>3. l[n + k - 1] = q[k]
          BY <1>4, <4>1, <5>1 DEF Placed
        <5> QED
          BY <5>1, <5>2, <5>3
      <4> QED
        BY <4>1 DEF Placed
    <3>4. Follows(d, l, n, Len(e), o)
      <4>1. IsEntry(e, a, v)
        BY DEF a, v
      <4> QED
        BY <1>3, <1>4, <3>1, <3>2, <4>1, EntryFollows
    <3>5. Rest(o, w, i + m) = Rest(c, w, i)
      BY RestStep DEF a, v
    <3>6. o \in Blocks
      BY <1>3, OverlayType
    <3> HIDE DEF o
    <3>7. n + Len(q) = (n + Len(e)) + Len(s) /\ n + Len(e) \in Nat
      BY <1>1, <1>2
    <3>8. n + Len(e) < LOG_SLOTS => Follows(d, l, n + Len(e), Len(s), Rest(c, w, i))
      <4>1. SUFFICES ASSUME n + Len(e) < LOG_SLOTS
                     PROVE  Follows(d, l, n + Len(e), Len(s), Rest(c, w, i))
        OBVIOUS
      <4>2. Reached(d, l, n + Len(e), o)
        BY <3>4, <4>1 DEF Follows
      <4>3. Follows(d, l, n + Len(e), Len(s), Rest(o, w, i + m))
        BY <3>3, <3>6, <3>7, <4>2 DEF Encodes
      <4> QED
        BY <3>5, <4>3
    <3>9. n + Len(q) < LOG_SLOTS => Reached(d, l, n + Len(q), Rest(c, w, i))
      <4>1. SUFFICES ASSUME n + Len(q) < LOG_SLOTS
                     PROVE  Reached(d, l, n + Len(q), Rest(c, w, i))
        OBVIOUS
      <4>2. n + Len(e) < LOG_SLOTS /\ (n + Len(e)) + Len(s) < LOG_SLOTS
        BY <1>1, <2>1, <3>7, <4>1
      <4> QED
        BY <3>7, <3>8, <4>2 DEF Follows
    <3>10. ASSUME NEW x \in Slots, x >= n, x < n + Len(q)
           PROVE  \A b : Reached(d, l, x, b) => l[x] # Erased
      <4>1. x \in Nat /\ x < LOG_SLOTS
        BY <2>1 DEF Slots
      <4>2. CASE x < n + Len(e)
        BY <3>4, <3>10, <4>2 DEF Follows
      <4>3. CASE x >= n + Len(e)
        <5>1. n + Len(e) < LOG_SLOTS /\ x < (n + Len(e)) + Len(s)
          BY <1>1, <2>1, <3>7, <3>10, <4>1, <4>3
        <5> QED
          BY <3>8, <4>3, <5>1 DEF Follows
      <4> QED
        BY <1>1, <4>1, <4>2, <4>3
    <3> QED
      BY <3>9, <3>10 DEF Follows
  <2> QED
    BY <2>1, <2>2, <2>3
<1>5. q # <<>>
  <2> DEFINE x == Len(e)
             y == Len(s)
  <2>1. x \in 1 .. 4 /\ y \in Nat /\ Len(q) = x + y
    BY <1>1, <1>2
  <2>2. x + y # 0
    <3> HIDE DEF x, y
    <3> QED
      BY <2>1
  <2> HIDE DEF x, y
  <2>3. SUFFICES ASSUME q = <<>> PROVE FALSE
    OBVIOUS
  <2>4. Len(q) = 0
    BY <2>3
  <2> QED
    BY <2>1, <2>2, <2>4
<1>6. Encodes(q, w, i)
  BY <1>2, <1>4, <1>5 DEF Encodes
<1> QED
  BY <1>6 DEF q

\* No words are left behind the last byte.
LEMMA EncodingEnd ==
  ASSUME NEW w \in Writes, NEW f, IsEncoding(f, w, 0)
  PROVE  f[Len(w.value)] = <<>>
<1> DEFINE n == Len(w.value)
<1>1. n \in 0 .. n
  BY WriteTypes
<1>2. f = [i \in 0 .. n |-> EncodeFrom(w, f, i)]
  BY DEF IsEncoding
<1>3. EncodeFrom(w, f, n) = <<>>
  BY DEF EncodeFrom
<1> HIDE DEF n
<1>4. f[n] = EncodeFrom(w, f, n)
  BY <1>1, <1>2
<1>5. f[n] = <<>>
  BY <1>3, <1>4
<1> QED
  BY <1>5 DEF n

\* The words from each byte on are what they should be.
LEMMA EncodingEncodes ==
  ASSUME NEW w \in Writes, NEW f, IsEncoding(f, w, 0)
  PROVE  \A i \in 0 .. Len(w.value) : Encodes(f[i], w, i)
<1> DEFINE n == Len(w.value)
<1>1. n \in Nat \ {0}
  BY WriteTypes
<1>2. f[n] = <<>>
  BY EncodingEnd
<1> HIDE DEF n
<1> DEFINE S == {m \in Nat : m <= n => \A i \in n - m .. n : Encodes(f[i], w, i)}
<1>3. 0 \in S
  <2>1. Encodes(f[n], w, n)
    BY <1>2, EncodesNone DEF n
  <2>2. \A i \in n - 0 .. n : i = n
    BY <1>1
  <2> QED
    BY <2>1, <2>2
<1>4. ASSUME NEW m \in Nat, m \in S
      PROVE  m + 1 \in S
  <2>1. SUFFICES ASSUME m + 1 <= n, NEW i \in n - (m + 1) .. n
                 PROVE  Encodes(f[i], w, i)
    OBVIOUS
  <2>2. m <= n /\ \A k \in n - m .. n : Encodes(f[k], w, k)
    BY <1>1, <1>4, <2>1
  <2>3. CASE i \in n - m .. n
    BY <2>2, <2>3
  <2>4. CASE i \notin n - m .. n
    <3>1. i \in 0 .. n - 1 /\ i = n - (m + 1) /\ i \in Nat
      BY <1>1, <2>1, <2>4
    <3> HIDE DEF S
    <3>2. i \in 0 .. Len(w.value) - 1
      BY <3>1 DEF n
    <3>3. \E j \in 1 .. Len(w.value) - i : \E e :
            /\ IsEntry(e, w.address + i, SubSeq(w.value, i + 1, i + j))
            /\ f[i] = e \o f[i + j]
      BY <3>2, EncodeEntry
    <3>4. PICK j \in 1 .. n - i : \E e : /\ IsEntry(e, w.address + i, SubSeq(w.value, i + 1, i + j))
                                         /\ f[i] = e \o f[i + j]
      BY <3>3 DEF n
    <3>5. PICK e : /\ IsEntry(e, w.address + i, SubSeq(w.value, i + 1, i + j))
                   /\ f[i] = e \o f[i + j]
      BY <3>4
    <3>6. i + j \in n - m .. n
      BY <1>1, <3>1, <3>4
    <3>7. Encodes(f[i + j], w, i + j)
      BY <2>2, <3>6
    <3>8. Encodes(e \o f[i + j], w, i)
      BY <3>1, <3>5, <3>7, EncodesStep DEF n
    <3> QED
      BY <3>5, <3>8
  <2> QED
    BY <2>3, <2>4
<1> HIDE DEF S
<1>5. Nat \subseteq S
  BY <1>3, <1>4, SetInduction
<1>6. n \in S /\ n - n = 0
  BY <1>1, <1>5
<1>7. \A i \in 0 .. n : Encodes(f[i], w, i)
  BY <1>1, <1>6 DEF S
<1> QED
  BY <1>7 DEF n

\* So are those of the whole write.
LEMMA EncodesWrite ==
  ASSUME NEW w \in Writes
  PROVE  Encodes(write_raw(w), w, 0)
<1>1. PICK f : IsEncoding(f, w, 0) /\ write_raw(w) = f[0]
  BY EncodingIs
<1>2. 0 \in 0 .. Len(w.value)
  BY WriteTypes
<1>3. Encodes(f[0], w, 0)
  BY <1>1, <1>2, EncodingEncodes
<1> QED
  BY <1>1, <1>3

-----------------------------------------------------------------------------
(* Types, and where write_address may be.                                  *)

TypeInv ==
  /\ con \in Blocks /\ cache \in Blocks /\ sum \in Blocks \union {<<>>} /\ log \in Logs
  /\ write_address \in Nat /\ unlocked \in BOOLEAN /\ acquired \in BOOLEAN
  /\ pc \in {"off", "idle", "append", "erase", "unlock", "data", "sum", "lock"}
  /\ caller \in {"init", "write", "erase"}
  /\ todo \in Seq(Words)
  /\ status \in {"SUCCESS", "CONSOLIDATED", "FAILED"} /\ impaired \in BOOLEAN
  /\ before \in Blocks /\ region \in SUBSET Addresses
  /\ crashes \in Nat /\ failures \in Nat

\* Who may hold the lock, what is left to append, and who consolidates.
Control ==
  /\ acquired => unlocked \/ pc \in {"idle", "lock"}
  /\ pc = "append" => caller = "write" /\ todo # <<>>
  /\ crashes + failures <= MAX_FAULTS

\* write_address is in the log, or as far behind it as a torn entry goes on, or as a
\* failed erase leaves it.
AddressInv ==
  /\ pc \in {"idle", "append", "lock"} => write_address < LOG_SLOTS + failures
  /\ pc \in {"erase", "unlock", "data", "sum"} =>
       write_address <= LOG_SLOTS + (IF caller = "init" THEN 3 ELSE failures)
  /\ pc = "off" => write_address = 0

\* Unless an operation has failed since power-up, or this one has, it is in the log.
InBounds ==
  ~impaired => /\ pc \in {"idle", "append"} => write_address < LOG_SLOTS
               /\ pc = "lock" /\ status # "FAILED" => write_address < LOG_SLOTS

Shape == TypeInv /\ Control /\ AddressInv /\ InBounds

\* What the constants are, for the steps below.
LEMMA Sizes == LOG_SLOTS \in Nat \ {0} /\ MAX_FAULTS \in Nat /\ SECTOR \in 0 .. LOG_SLOTS
BY WearLevelingAssumption

\* Start-up plays back onto a block.
LEMMA ConsolidatedType ==
  ASSUME TypeInv
  PROVE  read_consolidated(con, sum) \in Blocks
BY BlankType DEF TypeInv, read_consolidated

\* A log that has been erased, and one the first part of which has.
LEMMA EraseTypes ==
  ASSUME TypeInv, PartlyErase \/ Erase
  PROVE  con' \in Blocks /\ sum' \in Blocks \union {<<>>} /\ log' \in Logs
<1>1. Erased \in Words
  BY ErasedType
<1>2. ErasedLog \in Logs
  BY <1>1 DEF Logs, ErasedLog
<1>3. [i \in Slots |-> IF i < SECTOR THEN Erased ELSE log[i]] \in Logs
  BY <1>1 DEF TypeInv, Logs
<1> QED
  BY <1>2, <1>3, BlankType DEF PartlyErase, Erase, TypeInv, store

\* A write into the cache leaves a block, and is in the data.
LEMMA WriteBlock ==
  ASSUME TypeInv, NEW w \in Writes
  PROVE  /\ Overlay(cache, w.address, w.value) \in Blocks
         /\ w.address .. w.address + Len(w.value) - 1 \in SUBSET Addresses
         /\ write_raw(w) \in Seq(Words) /\ write_raw(w) # <<>>
<1>1. /\ w.value \in Seq(Octets) /\ Len(w.value) \in Nat \ {0}
      /\ w.address \in Nat /\ w.address + Len(w.value) <= LOGICAL_SIZE
  BY WriteTypes
<1>2. Overlay(cache, w.address, w.value) \in Blocks
  BY <1>1, OverlayType DEF TypeInv
<1>3. w.address .. w.address + Len(w.value) - 1 \in SUBSET Addresses
  <2>1. LOGICAL_SIZE \in Nat
    BY WearLevelingAssumption
  <2> QED
    BY <1>1, <2>1 DEF Addresses
<1>4. write_raw(w) \in Seq(Words) /\ write_raw(w) # <<>>
  <2>1. Encodes(write_raw(w), w, 0) /\ 0 < Len(w.value)
    BY <1>1, EncodesWrite
  <2> QED
    BY <2>1 DEF Encodes
<1> QED
  BY <1>2, <1>3, <1>4

\* Power-up.
LEMMA InitShape == Init => Shape
<1> SUFFICES ASSUME Init PROVE Shape
  OBVIOUS
<1>1. [i \in Slots |-> Erased] \in Logs
  BY ErasedType DEF Logs
<1>2. Blank \in Blocks /\ <<>> \in Seq(Words)
  BY BlankType
<1>3. TypeInv
  BY <1>1, <1>2 DEF Init, TypeInv
<1>4. Control /\ AddressInv /\ InBounds
  BY Sizes DEF Init, Control, AddressInv, InBounds
<1> QED
  BY <1>3, <1>4 DEF Shape

\* Start-up, with whatever has been played back.
LEMMA StartShape ==
  ASSUME Shape, NEW p \in Plays, p.at <= LOG_SLOTS + 3, NEW failed, NEW unread \in BOOLEAN,
         Start(p, failed, unread),
         failures' = failures \/ (crashes + failures < MAX_FAULTS /\ failures' = failures + 1)
  PROVE  Shape'
<1>1. p.cache \in Blocks /\ p.at \in Nat
  BY DEF Plays
<1>2. TypeInv'
  <2>1. failures' \in Nat /\ crashes' \in Nat
    BY DEF Shape, TypeInv, Start, power
  <2>2. unlocked' \in BOOLEAN /\ acquired' \in BOOLEAN /\ impaired' \in BOOLEAN
    BY DEF Start
  <2>3. pc' \in {"erase", "idle"} /\ caller' = "init" /\ status' = "SUCCESS"
    BY DEF Start
  <2> QED
    BY <1>1, <2>1, <2>2, <2>3 DEF Shape, TypeInv, Start, store, power
<1>3. Control'
  BY Sizes DEF Shape, TypeInv, Control, Start, power
<1>4. AddressInv'
  BY <1>1, Sizes DEF Shape, TypeInv, AddressInv, Start
<1>5. InBounds'
  BY <1>1, Sizes DEF Shape, InBounds, Start
<1> QED
  BY <1>2, <1>3, <1>4, <1>5 DEF Shape

\* Back from a consolidation.
LEMMA ConsolidatedShape ==
  ASSUME Shape, pc \in {"erase", "unlock", "data", "sum"}, NEW result, NEW address \in Nat,
         Consolidated(result, address),
         \/ address = 0 /\ result \in {"CONSOLIDATED", "FAILED"}
         \/ /\ address = write_address /\ result = "FAILED"
            /\ caller # "init" => failures' = failures + 1,
         con' \in Blocks, sum' \in Blocks \union {<<>>}, log' \in Logs, unlocked' \in BOOLEAN,
         UNCHANGED <<caller, todo, acquired, history, power>>,
         failures' = failures \/ (crashes + failures < MAX_FAULTS /\ failures' = failures + 1)
  PROVE  Shape'
<1>1. TypeInv'
  <2>1. failures' \in Nat /\ crashes' \in Nat
    BY DEF Shape, TypeInv, power
  <2>2. acquired' \in BOOLEAN
    BY DEF Shape, TypeInv
  <2>3. impaired' \in BOOLEAN
    BY DEF Shape, TypeInv, Consolidated
  <2>4. cache' \in Blocks /\ write_address' \in Nat
    BY BlankType DEF Shape, TypeInv, Consolidated
  <2>5. pc' \in {"idle", "lock"} /\ status' \in {"SUCCESS", "CONSOLIDATED", "FAILED"}
    BY DEF Shape, TypeInv, Consolidated
  <2> QED
    BY <2>1, <2>2, <2>3, <2>4, <2>5 DEF Shape, TypeInv, history, power
<1>2. Control'
  BY Sizes DEF Shape, TypeInv, Control, Consolidated, power
<1>3. AddressInv'
  BY Sizes DEF Shape, TypeInv, AddressInv, Consolidated
<1>4. InBounds'
  BY Sizes DEF Shape, TypeInv, InBounds, Consolidated
<1> QED
  BY <1>1, <1>2, <1>3, <1>4 DEF Shape

\* Every step leaves the variables their types, and write_address where it may be.
LEMMA StepShape == Shape /\ [Next]_vars => Shape'
<1> SUFFICES ASSUME Shape, [Next]_vars
             PROVE  Shape'
  OBVIOUS
<1> USE Sizes
<1>0. TypeInv /\ Control /\ AddressInv /\ InBounds
  BY DEF Shape
<1>1. CASE wear_leveling_init
  <2> DEFINE p == Stored
  <2>1. p \in Plays /\ p.at <= LOG_SLOTS + 3
    BY <1>0, ConsolidatedType, PlaybackReached DEF Stored, TypeInv
  <2>2. Start(p, p.failed, FALSE) /\ failures' = failures
    BY <1>1 DEF wear_leveling_init
  <2> HIDE DEF p
  <2> QED
    BY <2>1, <2>2, StartShape
<1>2. CASE init_ChecksumUnread
  <2> DEFINE p == Playback(Blank, log)
  <2>1. p \in Plays /\ p.at <= LOG_SLOTS + 3
    BY <1>0, BlankType, PlaybackReached DEF TypeInv
  <2>2. Start(p, p.failed, TRUE) /\ crashes + failures < MAX_FAULTS /\ failures' = failures + 1
    BY <1>2 DEF init_ChecksumUnread, Fails
  <2> HIDE DEF p
  <2> QED
    BY <2>1, <2>2, StartShape
<1>3. CASE init_Fails
  <2>1. TypeInv'
    <3>1. failures' \in Nat /\ crashes' \in Nat
      BY <1>0, <1>3 DEF TypeInv, init_Fails, Fails, power
    <3>2. /\ cache' = Blank /\ before' = Blank /\ region' = {} /\ write_address' = 0
          /\ pc' = "idle" /\ status' = "FAILED" /\ impaired' = TRUE /\ unlocked' = FALSE
          /\ acquired' = FALSE /\ UNCHANGED <<con, sum, log, caller, todo>>
      BY <1>3 DEF init_Fails, store
    <3> QED
      BY <1>0, <3>1, <3>2, BlankType DEF TypeInv
  <2>2. Control' /\ AddressInv' /\ InBounds'
    BY <1>0, <1>3 DEF TypeInv, Control, AddressInv, InBounds, init_Fails, Fails, power
  <2> QED
    BY <2>1, <2>2 DEF Shape
<1>4. ASSUME NEW n \in Slots, init_ReadFails(n)
      PROVE  Shape'
  <2> DEFINE p == Play(read_consolidated(con, sum), log, n)
  <2>1. p \in Plays /\ p.at <= LOG_SLOTS + 3
    <3>1. n \in Nat /\ read_consolidated(con, sum) \in Blocks /\ log \in Logs
      BY <1>0, ConsolidatedType DEF Slots, TypeInv
    <3> QED
      BY <3>1, PlayType, PlayShape
  <2>2. Start(p, TRUE, FALSE) /\ crashes + failures < MAX_FAULTS /\ failures' = failures + 1
    BY <1>4 DEF init_ReadFails, Fails
  <2> HIDE DEF p
  <2> QED
    BY <2>1, <2>2, StartShape
<1>5. ASSUME NEW w \in Writes, write_Skipped(w)
      PROVE  Shape'
  <2>1. TypeInv'
    BY <1>0, <1>5, WriteBlock DEF TypeInv, write_Skipped, store, power
  <2>2. Control' /\ AddressInv' /\ InBounds'
    BY <1>0, <1>5 DEF TypeInv, Control, AddressInv, InBounds, write_Skipped, power
  <2> QED
    BY <2>1, <2>2 DEF Shape
<1>6. ASSUME NEW w \in Writes, wear_leveling_write(w)
      PROVE  Shape'
  <2>1. TypeInv'
    BY <1>0, <1>6, WriteBlock DEF TypeInv, wear_leveling_write, StartWrite, store, power
  <2>2. Control' /\ AddressInv' /\ InBounds'
    BY <1>0, <1>6, WriteBlock
    DEF TypeInv, Control, AddressInv, InBounds, wear_leveling_write, StartWrite, power
  <2> QED
    BY <2>1, <2>2 DEF Shape
<1>7. ASSUME NEW w \in Writes, write_UnlockFails(w)
      PROVE  Shape'
  <2>1. TypeInv'
    BY <1>0, <1>7, WriteBlock DEF TypeInv, write_UnlockFails, StartWrite, Fails, store, power
  <2>2. Control' /\ AddressInv' /\ InBounds'
    BY <1>0, <1>7
    DEF TypeInv, Control, AddressInv, InBounds, write_UnlockFails, StartWrite, Fails, power
  <2> QED
    BY <2>1, <2>2 DEF Shape
<1>8. CASE append_raw
  <2>1. todo # <<>> /\ caller = "write"
    BY <1>0, <1>8 DEF Control, append_raw
  <2>2. Head(todo) \in Words /\ Tail(todo) \in Seq(Words) /\ Len(Tail(todo)) = Len(todo) - 1
    BY <1>0, <2>1, HeadTailProperties DEF TypeInv
  <2>3. log' \in Logs
    BY <1>0, <1>8, <2>2 DEF TypeInv, append_raw, Logs
  <2>4. TypeInv'
    BY <1>0, <1>8, <2>2, <2>3 DEF TypeInv, append_raw, power, history
  <2>5. pc' = "append" => todo' # <<>>
    <3>1. Len(todo) \in Nat /\ Len(todo) # 0
      BY <1>0, <2>1, EmptySeq DEF TypeInv
    <3>2. pc' = "append" => Len(todo) # 1
      BY <1>8 DEF append_raw
    <3>3. pc' = "append" => Len(todo') # 0
      BY <1>8, <2>2, <3>1, <3>2 DEF append_raw
    <3>4. todo' = <<>> => Len(todo') = 0
      OBVIOUS
    <3> QED
      BY <3>3, <3>4
  <2>6. Control'
    BY <1>0, <1>8, <2>1, <2>5 DEF TypeInv, Control, append_raw, power, Full
  <2>7. AddressInv' /\ InBounds'
    BY <1>0, <1>8, <2>1 DEF TypeInv, AddressInv, InBounds, append_raw, power, Full
  <2> QED
    BY <2>4, <2>6, <2>7 DEF Shape
<1>9. CASE append_Fails
  <2>1. TypeInv'
    BY <1>0, <1>9 DEF TypeInv, append_Fails, Fails, store, history, power
  <2>2. Control' /\ AddressInv' /\ InBounds'
    BY <1>0, <1>9 DEF TypeInv, Control, AddressInv, InBounds, append_Fails, Fails, power
  <2> QED
    BY <2>1, <2>2 DEF Shape
<1>10. CASE consolidate_Erase
  <2>1. con' \in Blocks /\ sum' \in Blocks \union {<<>>} /\ log' \in Logs
    BY <1>0, <1>10, EraseTypes DEF consolidate_Erase
  <2>2. TypeInv'
    BY <1>0, <1>10, <2>1 DEF TypeInv, consolidate_Erase, history, power
  <2>3. Control' /\ AddressInv' /\ InBounds'
    BY <1>0, <1>10 DEF TypeInv, Control, AddressInv, InBounds, consolidate_Erase, power
  <2> QED
    BY <2>2, <2>3 DEF Shape
<1>11. CASE consolidate_EraseFails
  <2>1. con' \in Blocks /\ sum' \in Blocks \union {<<>>} /\ log' \in Logs
    BY <1>0, <1>11, EraseTypes DEF consolidate_EraseFails
  <2>2. /\ Consolidated("FAILED", write_address) /\ pc = "erase" /\ unlocked' \in BOOLEAN
        /\ UNCHANGED <<caller, todo, acquired, history, power>>
        /\ crashes + failures < MAX_FAULTS /\ failures' = failures + 1
        /\ write_address \in Nat
    BY <1>0, <1>11 DEF consolidate_EraseFails, Fails, TypeInv
  <2> QED
    BY <2>1, <2>2, ConsolidatedShape
<1>12. CASE write_consolidated_Unlock
  <2>1. acquired' \in BOOLEAN /\ unlocked' = TRUE
    BY <1>0, <1>12 DEF TypeInv, write_consolidated_Unlock
  <2>2. TypeInv'
    BY <1>0, <1>12, <2>1 DEF TypeInv, write_consolidated_Unlock, store, history, power
  <2>3. Control'
    BY <1>0, <1>12, <2>1 DEF TypeInv, Control, write_consolidated_Unlock, power
  <2>4. AddressInv' /\ InBounds'
    BY <1>0, <1>12 DEF TypeInv, AddressInv, InBounds, write_consolidated_Unlock, power
  <2> QED
    BY <2>2, <2>3, <2>4 DEF Shape
<1>13. CASE write_consolidated_UnlockFails
  <2>1. TypeInv'
    BY <1>0, <1>13 DEF TypeInv, write_consolidated_UnlockFails, Fails, store, history, power
  <2>2. Control' /\ AddressInv' /\ InBounds'
    BY <1>0, <1>13
    DEF TypeInv, Control, AddressInv, InBounds, write_consolidated_UnlockFails, Fails, power
  <2> QED
    BY <2>1, <2>2 DEF Shape
<1>14. CASE write_consolidated_Data
  <2>1. TypeInv'
    BY <1>0, <1>14 DEF TypeInv, write_consolidated_Data, history, power
  <2>2. Control' /\ AddressInv' /\ InBounds'
    BY <1>0, <1>14 DEF TypeInv, Control, AddressInv, InBounds, write_consolidated_Data, power
  <2> QED
    BY <2>1, <2>2 DEF Shape
<1>15. CASE write_consolidated_Sum
  <2>1. unlocked' \in BOOLEAN
    BY <1>0, <1>15 DEF write_consolidated_Sum, LockAgain, TypeInv
  <2>2. /\ Consolidated("CONSOLIDATED", 0) /\ pc = "sum"
        /\ con' \in Blocks /\ sum' \in Blocks \union {<<>>} /\ log' \in Logs
        /\ UNCHANGED <<caller, todo, acquired, history, power>> /\ failures' = failures
    BY <1>0, <1>15 DEF write_consolidated_Sum, TypeInv
  <2> QED
    BY <2>1, <2>2, ConsolidatedShape
<1>16. CASE write_consolidated_Fails
  <2>1. unlocked' \in BOOLEAN
    BY <1>0, <1>16 DEF write_consolidated_Fails, LockAgain, TypeInv
  <2>2. /\ Consolidated("FAILED", 0) /\ pc \in {"data", "sum"}
        /\ con' \in Blocks /\ sum' \in Blocks \union {<<>>} /\ log' \in Logs
        /\ UNCHANGED <<caller, todo, acquired, history, power>>
        /\ crashes + failures < MAX_FAULTS /\ failures' = failures + 1
    BY <1>0, <1>16 DEF write_consolidated_Fails, TypeInv, Fails, store
  <2> QED
    BY <2>1, <2>2, ConsolidatedShape
<1>17. CASE wear_leveling_erase
  <2>1. TypeInv'
    BY <1>0, <1>17 DEF TypeInv, wear_leveling_erase, StartErase, store, power
  <2>2. Control' /\ AddressInv' /\ InBounds'
    BY <1>0, <1>17
    DEF TypeInv, Control, AddressInv, InBounds, wear_leveling_erase, StartErase, power
  <2> QED
    BY <2>1, <2>2 DEF Shape
<1>18. CASE erase_UnlockFails
  <2>1. TypeInv'
    BY <1>0, <1>18 DEF TypeInv, erase_UnlockFails, StartErase, Fails, store, power
  <2>2. Control' /\ AddressInv' /\ InBounds'
    BY <1>0, <1>18
    DEF TypeInv, Control, AddressInv, InBounds, erase_UnlockFails, StartErase, Fails, power
  <2> QED
    BY <2>1, <2>2 DEF Shape
<1>19. CASE erase_Erase
  <2>1. con' \in Blocks /\ sum' \in Blocks \union {<<>>} /\ log' \in Logs
    BY <1>0, <1>19, EraseTypes DEF erase_Erase
  <2>2. /\ crashes' = crashes
        /\ failures' = failures \/ (crashes + failures < MAX_FAULTS /\ failures' = failures + 1)
    BY <1>19 DEF erase_Erase, Fails, power
  <2>3. failures' \in Nat /\ crashes' \in Nat /\ crashes' + failures' <= MAX_FAULTS
    BY <1>0, <2>2 DEF TypeInv, Control
  <2>4. TypeInv'
    BY <1>0, <1>19, <2>1, <2>3, BlankType DEF TypeInv, erase_Erase, history, power
  <2>5. Control' /\ AddressInv' /\ InBounds'
    <3>1. /\ pc = "erase" /\ pc' = "lock" /\ write_address' = 0
          /\ UNCHANGED <<unlocked, caller, todo, acquired, impaired>>
      BY <1>19 DEF erase_Erase
    <3>2. Control'
      BY <2>3, <3>1 DEF Control
    <3>5. 0 < LOG_SLOTS + failures'
      <4>1. \A n \in Nat : 0 < LOG_SLOTS + n
        OBVIOUS
      <4> QED
        BY <2>3, <4>1
    <3>3. AddressInv'
      BY <3>1, <3>5 DEF AddressInv
    <3>4. InBounds'
      BY <3>1 DEF InBounds
    <3> QED
      BY <3>2, <3>3, <3>4
  <2> QED
    BY <2>4, <2>5 DEF Shape
<1>20. CASE lock
  <2>1. unlocked' \in BOOLEAN /\ impaired' \in BOOLEAN
    BY <1>0, <1>20 DEF TypeInv, lock
  <2>2. TypeInv'
    BY <1>0, <1>20, <2>1 DEF TypeInv, lock, store, history, power
  <2>3. Control' /\ AddressInv' /\ InBounds'
    BY <1>0, <1>20 DEF TypeInv, Control, AddressInv, InBounds, lock, power
  <2> QED
    BY <2>2, <2>3 DEF Shape
<1>21. CASE lock_Fails
  <2>1. TypeInv'
    BY <1>0, <1>21 DEF TypeInv, lock_Fails, Fails, store, history, power
  <2>2. Control' /\ AddressInv' /\ InBounds'
    BY <1>0, <1>21 DEF TypeInv, Control, AddressInv, InBounds, lock_Fails, Fails, power
  <2> QED
    BY <2>1, <2>2 DEF Shape
<1>22. CASE PowerLoss
  <2>1. con' \in Blocks /\ sum' \in Blocks \union {<<>>} /\ log' \in Logs
    <3>1. CASE pc = "erase"
      BY <1>0, <1>22, <3>1, EraseTypes DEF PowerLoss
    <3>2. CASE pc # "erase"
      BY <1>0, <1>22, <3>2 DEF PowerLoss, TypeInv, store
    <3> QED
      BY <3>1, <3>2
  <2>2. TypeInv'
    <3>1. failures' \in Nat /\ crashes' \in Nat
      BY <1>0, <1>22 DEF TypeInv, PowerLoss
    <3>2. /\ cache' = Blank /\ write_address' = 0 /\ pc' = "off" /\ status' = "SUCCESS"
          /\ impaired' = FALSE /\ unlocked' = FALSE /\ acquired' = FALSE /\ todo' = <<>>
          /\ UNCHANGED <<caller, before, region>>
      BY <1>22 DEF PowerLoss, history
    <3>3. <<>> \in Seq(Words)
      BY EmptySeq
    <3> QED
      BY <1>0, <2>1, <3>1, <3>2, <3>3, BlankType DEF TypeInv
  <2>3. Control' /\ AddressInv' /\ InBounds'
    BY <1>0, <1>22 DEF TypeInv, Control, AddressInv, InBounds, PowerLoss
  <2> QED
    BY <2>2, <2>3 DEF Shape
<1>23. CASE UNCHANGED vars
  BY <1>0, <1>23
  DEF Shape, TypeInv, Control, AddressInv, InBounds, vars, store, history, power
<1> QED
  BY <1>1, <1>2, <1>3, <1>4, <1>5, <1>6, <1>7, <1>8, <1>9, <1>10, <1>11, <1>12, <1>13, <1>14,
     <1>15, <1>16, <1>17, <1>18, <1>19, <1>20, <1>21, <1>22, <1>23
  DEF Next

\* It is an invariant, whatever fails and however often the power goes
\* (wear_leveling.c).
THEOREM Invariance == Spec => []Shape
<1>1. Shape /\ [Next]_vars => Shape'
  BY StepShape
<1> QED
  BY <1>1, InitShape, PTL DEF Spec

\* What a failed call leaves behind is a Boolean.
LEMMA AstrayType ==
  ASSUME astray \in BOOLEAN, [Next]_vars
  PROVE  astray' \in BOOLEAN
<1>1. Astray => astray' \in BOOLEAN
  BY DEF Astray
<1>2. PowerLoss => astray' \in BOOLEAN
  BY DEF PowerLoss, StillAstray
<1>3. CASE UNCHANGED astray
  BY <1>3
<1>4. \/ wear_leveling_init \/ init_ChecksumUnread \/ \E n \in Slots : init_ReadFails(n)
      => UNCHANGED astray
  BY DEF wear_leveling_init, init_ChecksumUnread, init_ReadFails, Start
<1>5. \/ \E w \in Writes : write_Skipped(w) \/ wear_leveling_write(w) \/ write_UnlockFails(w)
      \/ wear_leveling_erase \/ erase_UnlockFails
      => UNCHANGED astray
  BY DEF write_Skipped, wear_leveling_write, write_UnlockFails, StartWrite, wear_leveling_erase,
         erase_UnlockFails, StartErase
<1>6. \/ append_raw \/ write_consolidated_Unlock \/ write_consolidated_UnlockFails
      \/ write_consolidated_Data \/ write_consolidated_Sum \/ write_consolidated_Fails
      \/ lock \/ lock_Fails \/ UNCHANGED vars
      => UNCHANGED astray
  BY DEF append_raw, write_consolidated_Unlock, write_consolidated_UnlockFails,
         write_consolidated_Data, write_consolidated_Sum, write_consolidated_Fails, lock,
         lock_Fails, vars
<1>7. init_Fails \/ append_Fails \/ consolidate_EraseFails => Astray
  BY DEF init_Fails, append_Fails, consolidate_EraseFails
<1>8. consolidate_Erase => astray' = FALSE
  BY DEF consolidate_Erase
<1>9. erase_Erase => astray' = FALSE \/ Astray
  BY DEF erase_Erase
<1> QED
  BY <1>1, <1>2, <1>3, <1>4, <1>5, <1>6, <1>7, <1>8, <1>9 DEF Next

\* Every variable has its type, and write_address passes the end of the log only by the
\* rest of a torn entry, or by one word with each failed erase (wear_leveling_append_raw,
\* wear_leveling_consolidate_force).
THEOREM TypeCorrect == Spec => []TypeOK
<1>1. Shape /\ astray \in BOOLEAN => TypeOK
  <2> SUFFICES ASSUME Shape, astray \in BOOLEAN PROVE TypeOK
    OBVIOUS
  <2>1. TypeInv /\ Control /\ AddressInv
    BY DEF Shape
  <2>2. log \in [Slots -> [x : 0 .. 255, y : 0 .. 255]]
    BY <2>1 DEF TypeInv, Logs, Words, Octets
  <2>3. failures <= MAX_FAULTS /\ failures \in Nat /\ write_address \in Nat
    BY <2>1, Sizes DEF TypeInv, Control
  <2>4. write_address <= LOG_SLOTS + 3 + MAX_FAULTS
    BY <2>1, <2>3, Sizes DEF TypeInv, AddressInv
  <2>5. write_address \in 0 .. LOG_SLOTS + 3 + MAX_FAULTS
    BY <2>3, <2>4, Sizes
  <2> QED
    BY <2>1, <2>2, <2>5 DEF TypeOK, TypeInv, Control, Blocks, Octets
<1>2. Init => astray \in BOOLEAN
  BY DEF Init
<1>3. astray \in BOOLEAN /\ [Next]_vars => (astray \in BOOLEAN)'
  BY AstrayType
<1> QED
  BY <1>1, <1>2, <1>3, Invariance, PTL DEF Spec

\* Every word goes to a slot inside the backing store, unless an operation has failed
\* since power-up (wear_leveling_append_raw, wear_leveling_consolidate_if_needed).
THEOREM EveryWordInBounds == Spec => []WritesInBounds
<1>1. Shape => WritesInBounds
  <2> SUFFICES ASSUME Shape, pc = "append", ~impaired
               PROVE  write_address \in Slots
    BY DEF WritesInBounds
  <2>1. write_address < LOG_SLOTS /\ write_address \in Nat
    BY DEF Shape, InBounds, TypeInv
  <2> QED
    BY <2>1, Sizes DEF Slots
<1> QED
  BY <1>1, Invariance, PTL

-----------------------------------------------------------------------------
(* What is in the backing store.                                           *)

\* From slot n on the log is erased.
ErasedFrom(l, n) == \A i \in Slots : i >= n => l[i] = Erased

\* Where playback ends at an erased slot, nothing comes behind it.
Settled(l) == \A n \in Slots : Visits(l, n) /\ l[n] = Erased => ErasedFrom(l, n)

\* Slot n is where the next word goes.
Ready(l, n) == n \in Slots /\ Visits(l, n) /\ ErasedFrom(l, n)

\* The slot behind the words left to append, and the log with them.
End == write_address + Len(todo)

Image == [i \in Slots |-> IF i \in write_address .. End - 1 THEN todo[i - write_address + 1]
                          ELSE log[i]]

\* In the middle of a write: playback of the log as it will be comes to no erased slot
\* before the end of the words, and to their end.
AppendInv ==
  /\ write_address \in Slots /\ ErasedFrom(log, write_address)
  /\ \A n \in Slots : n < End /\ Visits(Image, n) => Image[n] # Erased
  /\ End < LOG_SLOTS => Visits(Image, End)

\* The backing store, as far as an operation has come.  Where write_address and the log
\* may be out of step nothing is said of the log; a write_address behind it, where a failed
\* erase has left it, sends the next write to the consolidation.
StoreInv ==
  /\ pc \in {"unlock", "data"} => con = Blank /\ ErasedFrom(log, 0)
  /\ pc = "sum" => con = cache /\ ErasedFrom(log, 0)
  /\ ~astray =>
       /\ pc \in {"off", "erase"} => Settled(log)
       /\ pc \in {"idle", "lock"} =>
            Settled(log) /\ (write_address \in Slots => Ready(log, write_address))
       /\ pc = "append" => IF write_address \in Slots THEN AppendInv ELSE Settled(log)

Consolidation == read_consolidated(con, sum)

\* Unless an operation has failed, playback leads to the data in the cache.
CleanInv ==
  ~impaired /\ ~astray =>
    /\ pc = "idle" => Reached(Consolidation, log, write_address, cache)
    /\ pc = "lock" /\ status # "FAILED" => Reached(Consolidation, log, write_address, cache)
    /\ pc = "append" /\ End < LOG_SLOTS => Reached(Consolidation, Image, End, cache)

Sound == StoreInv /\ CleanInv

\* What this takes: an erase that is cut short has erased nothing of the log or all of it.
WholeErases == SECTOR \in {0, LOG_SLOTS}

\* An erased log is ready from its first slot on.
LEMMA ErasedReady ==
  ASSUME NEW l \in Logs, ErasedFrom(l, 0)
  PROVE  Ready(l, 0)
<1>1. 0 \in Slots
  BY Sizes DEF Slots
<1> QED
  BY <1>1, ReachedFirst DEF Ready, Visits

\* Playback ends at one erased slot at most.
LEMMA EndsOnce ==
  ASSUME NEW l \in Logs, NEW n \in Slots, NEW m \in Slots, Visits(l, n), Visits(l, m),
         l[n] = Erased, l[m] = Erased
  PROVE  n = m
<1>1. PICK c : Reached(Blank, l, n, c)
  BY DEF Visits
<1>2. PICK e : Reached(Blank, l, m, e)
  BY DEF Visits
<1>3. Playback(Blank, l) = [cache |-> c, at |-> n, done |-> TRUE, failed |-> FALSE]
  BY <1>1, BlankType, ReachedStops
<1>4. Playback(Blank, l) = [cache |-> e, at |-> m, done |-> TRUE, failed |-> FALSE]
  BY <1>2, BlankType, ReachedStops
<1>5. Playback(Blank, l).at = n
  BY <1>3
<1>6. Playback(Blank, l).at = m
  BY <1>4
<1> QED
  BY <1>5, <1>6

\* A log that is ready is settled.
LEMMA ReadySettled ==
  ASSUME NEW l \in Logs, NEW n, Ready(l, n)
  PROVE  Settled(l)
<1>1. n \in Slots /\ Visits(l, n) /\ ErasedFrom(l, n)
  BY DEF Ready
<1>2. n \in Nat
  BY <1>1 DEF Slots
<1>3. l[n] = Erased
  BY <1>1, <1>2 DEF ErasedFrom
<1>4. ASSUME NEW m \in Slots, Visits(l, m), l[m] = Erased
      PROVE  ErasedFrom(l, m)
  BY <1>1, <1>3, <1>4, EndsOnce
<1> QED
  BY <1>4 DEF Settled

\* Playback that neither fails nor fills a settled log leaves it ready where it ends.
LEMMA PlaybackReady ==
  ASSUME NEW d \in Blocks, NEW l \in Logs, Settled(l), NEW p, p = Playback(d, l),
         ~p.failed, p.at < LOG_SLOTS
  PROVE  Ready(l, p.at) /\ Reached(d, l, p.at, p.cache)
<1>1. p.at \in Slots /\ l[p.at] = Erased /\ Reached(d, l, p.at, p.cache)
  BY PlaybackReached
<1>2. Visits(l, p.at)
  BY <1>1, BlankType, SameWay DEF Visits
<1> QED
  BY <1>1, <1>2 DEF Settled, Ready

\* The log in the middle of a write is settled.
LEMMA AppendSettled ==
  ASSUME TypeInv, AppendInv, Image \in Logs
  PROVE  Settled(log)
<1>1. log \in Logs /\ write_address \in Nat /\ Len(todo) \in Nat
  BY LenProperties DEF TypeInv
<1>2. ASSUME NEW n \in Slots, Visits(log, n), log[n] = Erased, n < write_address
      PROVE  FALSE
  <2>1. n \in Nat
    BY DEF Slots
  <2>2. PICK c : Reached(Blank, log, n, c)
    BY <1>2 DEF Visits
  <2>3. \A j \in Slots : j < n => log[j] = Image[j]
    BY <1>1, <1>2, <2>1 DEF Image, End, Slots
  <2>4. Reached(Blank, Image, n, c)
    BY <1>1, <2>1, <2>2, <2>3, BlankType, ReachedAgree
  <2>5. Image[n] = log[n] /\ n < End
    BY <1>1, <1>2, <2>1 DEF Image, End
  <2> QED
    BY <1>2, <2>4, <2>5 DEF AppendInv, Visits
<1>3. ASSUME NEW n \in Slots, Visits(log, n), log[n] = Erased
      PROVE  ErasedFrom(log, n)
  <2>1. n >= write_address
    BY <1>1, <1>2, <1>3 DEF Slots
  <2> QED
    BY <1>1, <2>1 DEF AppendInv, ErasedFrom, Slots
<1> QED
  BY <1>3 DEF Settled

\* The log as it will be is a log.
LEMMA ImageType == ASSUME TypeInv PROVE Image \in Logs
<1>1. log \in Logs /\ write_address \in Nat /\ todo \in Seq(Words) /\ Len(todo) \in Nat
  BY LenProperties DEF TypeInv
<1>2. ASSUME NEW i \in Slots
      PROVE  (IF i \in write_address .. End - 1 THEN todo[i - write_address + 1] ELSE log[i]) \in Words
  <2>1. CASE i \in write_address .. End - 1
    <3>1. i - write_address + 1 \in 1 .. Len(todo)
      BY <1>1, <2>1 DEF End
    <3> QED
      BY <1>1, <2>1, <3>1, ElementOfSeq
  <2>2. CASE i \notin write_address .. End - 1
    BY <1>1, <2>2 DEF Logs
  <2> QED
    BY <2>1, <2>2
<1> QED
  BY <1>2 DEF Image, Logs

\* A power loss in the middle of an erase leaves a settled log settled.
LEMMA PartlyEraseSettled ==
  ASSUME TypeInv, Settled(log), PartlyErase \/ Erase, SECTOR \in {0, LOG_SLOTS}
  PROVE  Settled(log')
<1>1. CASE log' = log
  BY <1>1 DEF Settled, Visits
<1>2. CASE \A i \in Slots : log'[i] = Erased
  BY <1>2 DEF Settled, ErasedFrom
<1>3. CASE log' = [i \in Slots |-> IF i < SECTOR THEN Erased ELSE log[i]]
  <2>1. CASE SECTOR = 0
    <3>1. log' = [i \in Slots |-> log[i]]
      BY <1>3, <2>1, Sizes DEF Slots
    <3>2. log' = log
      BY <3>1 DEF TypeInv, Logs
    <3> QED
      BY <1>1, <3>2
  <2>2. CASE SECTOR = LOG_SLOTS
    <3>1. \A i \in Slots : log'[i] = Erased
      BY <1>3, <2>2, Sizes DEF Slots
    <3> QED
      BY <1>2, <3>1
  <2> QED
    BY <2>1, <2>2
<1> QED
  BY <1>1, <1>2, <1>3 DEF PartlyErase, Erase, ErasedLog, store

\* A failed call that does not leave write_address and the log out of step leaves a
\* settled log, ready at write_address if that is in it.
LEMMA FailedReady ==
  ASSUME TypeInv', Astray, ~astray', ~astray => Settled(log')
  PROVE  Settled(log') /\ (write_address' \in Slots => Ready(log', write_address'))
<1> DEFINE d == read_consolidated(con', sum')
           p == StoredThen
<1>1. ~StillAstray /\ ~OutOfStep(p, write_address')
  BY DEF Astray
<1>2. log' \in Logs /\ d \in Blocks
  BY BlankType DEF TypeInv, read_consolidated
<1>3. Settled(log')
  <2>1. CASE log' = ErasedLog
    <3>1. \A i \in Slots : log'[i] = Erased
      BY <2>1 DEF ErasedLog
    <3> QED
      BY <3>1 DEF Settled, ErasedFrom
  <2>2. CASE ~astray
    BY <2>2
  <2> QED
    BY <1>1, <2>1, <2>2 DEF StillAstray
<1>4. ASSUME write_address' \in Slots
      PROVE  Ready(log', write_address')
  <2>1. p = Playback(d, log')
    BY DEF StoredThen
  <2>2. ~p.failed /\ p.at = write_address'
    BY <1>1, <1>4 DEF OutOfStep
  <2>3. p.at < LOG_SLOTS
    BY <1>4, <2>2, Sizes DEF Slots
  <2> HIDE DEF p, d
  <2>4. Ready(log', p.at)
    BY <1>2, <1>3, <2>1, <2>2, <2>3, PlaybackReady
  <2> QED
    BY <2>2, <2>4
<1> QED
  BY <1>3, <1>4

\* So the store is as it should be, if the failure is reported.
LEMMA FailedSound ==
  ASSUME TypeInv', Astray, ~astray => Settled(log'),
         pc' \in {"idle", "lock"}, pc' = "idle" => impaired', status' = "FAILED"
  PROVE  Sound'
<1>1. ~astray' => Settled(log') /\ (write_address' \in Slots => Ready(log', write_address'))
  BY FailedReady
<1> QED
  BY <1>1 DEF Sound, StoreInv, CleanInv

\* Power-up.
LEMMA InitSound == Init => Sound
<1> SUFFICES ASSUME Init PROVE Sound
  OBVIOUS
<1>1. \A i \in Slots : log[i] = Erased
  BY DEF Init
<1>2. Settled(log)
  BY <1>1 DEF Settled, ErasedFrom
<1> QED
  BY <1>2 DEF Init, Sound, StoreInv, CleanInv

\* Start-up, onto a log that is ready where playback ended.
LEMMA StartSound ==
  ASSUME NEW p, NEW failed, NEW unread, Start(p, failed, unread), ~astray => Settled(log),
         ~astray /\ ~failed /\ ~(p.at >= LOG_SLOTS) =>
           /\ Ready(log, p.at)
           /\ ~unread => Reached(Consolidation, log, p.at, p.cache)
  PROVE  Sound'
<1>1. /\ pc' = IF failed \/ p.at >= LOG_SLOTS THEN "erase" ELSE "idle"
      /\ log' = log /\ con' = con /\ sum' = sum /\ write_address' = p.at /\ cache' = p.cache
      /\ impaired' = unread /\ astray' = astray
  BY DEF Start, store
<1>2. Consolidation' = Consolidation
  BY <1>1 DEF Consolidation
<1>3. StoreInv'
  BY <1>1 DEF StoreInv
<1>4. CleanInv'
  BY <1>1, <1>2 DEF CleanInv
<1> QED
  BY <1>3, <1>4 DEF Sound

\* A write that starts, with its words to append.
LEMMA WriteInLog ==
  ASSUME TypeInv, Sound, ~astray, write_address \in Slots, NEW w \in Writes, wear_leveling_write(w), (Image \in Logs)'
  PROVE  Sound'
<1> DEFINE s == write_raw(w)
           l == Image'
           a == write_address
           o == Overlay(cache, w.address, w.value)
<1>1. /\ pc = "idle" /\ pc' = "append" /\ todo' = s /\ write_address' = a /\ cache' = o
      /\ con' = con /\ sum' = sum /\ log' = log /\ impaired' = impaired /\ astray' = astray
  BY DEF wear_leveling_write, StartWrite, store
<1>2. Consolidation' = Consolidation
  BY <1>1 DEF Consolidation
<1>3. /\ a \in Slots /\ Visits(log, a) /\ ErasedFrom(log, a) /\ log \in Logs /\ a \in Nat
      /\ cache \in Blocks /\ Consolidation \in Blocks
  BY <1>1, ConsolidatedType DEF Sound, StoreInv, Ready, TypeInv, Consolidation
<1>4. Encodes(s, w, 0) /\ s \in Seq(Words) /\ Len(s) \in Nat
  BY EncodesWrite, LenProperties DEF Encodes
<1> HIDE DEF s
<1>5. End' = a + Len(s)
  BY <1>1 DEF End
<1>6. l = [i \in Slots |-> IF i \in a .. (a + Len(s)) - 1 THEN s[i - a + 1] ELSE log[i]]
  <2> DEFINE With(g, b, e, t) ==
        [i \in Slots |-> IF i \in b .. e - 1 THEN t[i - b + 1] ELSE g[i]]
  <2>1. l = With(log', write_address', End', todo')
    BY DEF Image
  <2>2. write_address' = a /\ End' = a + Len(s) /\ todo' = s /\ log' = log
    BY <1>1, <1>5
  <2>3. With(log', write_address', End', todo') = With(log, a, a + Len(s), s)
    <3> HIDE DEF With, a
    <3> QED
      BY <2>2
  <2>4. With(log, a, a + Len(s), s)
        = [i \in Slots |-> IF i \in a .. (a + Len(s)) - 1 THEN s[i - a + 1] ELSE log[i]]
    OBVIOUS
  <2> HIDE DEF l, With
  <2> QED
    BY <2>1, <2>3, <2>4
<1>7. l \in Logs
  OBVIOUS
<1> HIDE DEF l
<1>8. \A j \in Slots : j < a => log[j] = l[j]
  <2>1. \A j \in Slots : j < a => j \notin a .. (a + Len(s)) - 1
    BY <1>3, <1>4 DEF Slots
  <2> QED
    BY <1>6, <2>1
<1>9. Placed(s, l, a)
  <2>1. ASSUME NEW j \in 1 .. Len(s), a + j - 1 \in Slots
        PROVE  l[a + j - 1] = s[j]
    <3>1. a + j - 1 \in a .. (a + Len(s)) - 1 /\ (a + j - 1) - a + 1 = j
      BY <1>3, <1>4
    <3> QED
      BY <1>6, <2>1, <3>1
  <2> QED
    BY <2>1 DEF Placed
<1>10. ASSUME NEW d \in Blocks, NEW c \in Blocks, Reached(d, log, a, c)
       PROVE  Follows(d, l, a, Len(s), Overlay(c, w.address, w.value))
  <2>1. Reached(d, l, a, c)
    BY <1>3, <1>7, <1>8, <1>10, ReachedAgree
  <2>2. Follows(d, l, a, Len(s), Rest(c, w, 0))
    BY <1>3, <1>4, <1>7, <1>9, <2>1 DEF Encodes
  <2> QED
    BY <2>2, RestWhole
<1>11. PICK c : Reached(Blank, log, a, c)
  BY <1>3 DEF Visits
<1>12. c \in Blocks
  BY <1>3, <1>11, BlankType, ReachedType
<1>13. Follows(Blank, l, a, Len(s), Overlay(c, w.address, w.value))
  BY <1>10, <1>11, <1>12, BlankType
<1>14. ASSUME NEW n \in Slots, n < a + Len(s), Visits(l, n)
       PROVE  l[n] # Erased
  <2>1. PICK e : Reached(Blank, l, n, e)
    BY <1>14 DEF Visits
  <2>2. CASE n >= a
    BY <1>13, <1>14, <2>1, <2>2 DEF Follows
  <2>3. CASE n < a
    <3>1. Reached(Blank, l, a, c)
      BY <1>3, <1>7, <1>8, <1>11, BlankType, ReachedAgree
    <3> QED
      BY <1>7, <2>1, <2>3, <3>1, BlankType, Gap
  <2>4. n \in Nat
    BY DEF Slots
  <2> QED
    BY <1>3, <2>2, <2>3, <2>4
<1>15. a + Len(s) < LOG_SLOTS => Visits(l, a + Len(s))
  BY <1>13 DEF Follows, Visits
<1>16. AppendInv'
  <2>1. /\ write_address' \in Slots /\ ErasedFrom(log', write_address')
    BY <1>1, <1>3
  <2>2. /\ \A n \in Slots : n < End' /\ Visits(l, n) => l[n] # Erased
        /\ End' < LOG_SLOTS => Visits(l, End')
    BY <1>1, <1>5, <1>14, <1>15
  <2> QED
    BY <2>1, <2>2 DEF AppendInv, l
<1>17. StoreInv'
  BY <1>1, <1>16 DEF StoreInv
<1>18. ~impaired /\ a + Len(s) < LOG_SLOTS => Reached(Consolidation, l, a + Len(s), o)
  <2>1. SUFFICES ASSUME ~impaired, a + Len(s) < LOG_SLOTS
                 PROVE  Reached(Consolidation, l, a + Len(s), o)
    OBVIOUS
  <2>2. Reached(Consolidation, log, a, cache)
    BY <1>1, <2>1 DEF Sound, CleanInv
  <2>3. Follows(Consolidation, l, a, Len(s), o)
    BY <1>3, <1>10, <2>2
  <2> QED
    BY <2>1, <2>3 DEF Follows
<1>19. CleanInv'
  <2> HIDE DEF o
  <2>1. ~impaired' /\ End' < LOG_SLOTS => Reached(Consolidation', Image', End', cache')
    BY <1>1, <1>2, <1>5, <1>18 DEF l
  <2> QED
    BY <1>1, <2>1 DEF CleanInv
<1> QED
  BY <1>17, <1>19 DEF Sound

\* And one that finds write_address behind the log.
LEMMA WriteSound ==
  ASSUME TypeInv, Sound, NEW w \in Writes, wear_leveling_write(w), (Image \in Logs)'
  PROVE  Sound'
<1>1. /\ pc = "idle" /\ pc' = "append" /\ todo' = write_raw(w) /\ log' = log
      /\ write_address' = write_address /\ astray' = astray
  BY DEF wear_leveling_write, StartWrite, store
<1>2. CASE astray
  BY <1>1, <1>2 DEF Sound, StoreInv, CleanInv
<1>3. CASE ~astray /\ write_address \in Slots
  BY <1>3, WriteInLog
<1>4. CASE ~astray /\ write_address \notin Slots
  <2>1. Len(write_raw(w)) \in Nat
    BY EncodesWrite, LenProperties DEF Encodes
  <2>2. write_address \in Nat /\ write_address >= LOG_SLOTS
    BY <1>4, Sizes DEF TypeInv, Slots
  <2>3. End' = write_address + Len(write_raw(w))
    BY <1>1 DEF End
  <2>4. ~(End' < LOG_SLOTS)
    BY <2>1, <2>2, <2>3, Sizes
  <2>5. Settled(log')
    BY <1>1, <1>4 DEF Sound, StoreInv
  <2> QED
    BY <1>1, <1>4, <2>4, <2>5 DEF Sound, StoreInv, CleanInv
<1> QED
  BY <1>2, <1>3, <1>4

\* One word of it.
LEMMA AppendInLog ==
  ASSUME TypeInv, Control, Sound, ~astray, write_address \in Slots, append_raw
  PROVE  Sound'
<1>1. /\ pc = "append" /\ todo # <<>> /\ AppendInv /\ todo \in Seq(Words) /\ log \in Logs
      /\ write_address \in Nat /\ write_address \in Slots
      /\ ErasedFrom(log, write_address)
  BY DEF TypeInv, Control, Sound, StoreInv, AppendInv, append_raw
<1>2. Len(todo) \in Nat \ {0} /\ Len(Tail(todo)) = Len(todo) - 1 /\ Head(todo) = todo[1]
      /\ \A i \in 1 .. Len(Tail(todo)) : Tail(todo)[i] = todo[i + 1]
  BY <1>1, EmptySeq, HeadTailProperties
<1>3. /\ log' = [log EXCEPT ![write_address] = todo[1]]
      /\ write_address' = write_address + 1 /\ todo' = Tail(todo)
      /\ con' = con /\ sum' = sum /\ cache' = cache /\ impaired' = impaired /\ astray' = astray
      /\ pc' = IF write_address + 1 >= LOG_SLOTS THEN "erase"
               ELSE IF Len(todo) = 1 THEN "lock" ELSE "append"
  BY <1>1, <1>2 DEF append_raw, Full
<1>4. End' = End /\ End \in Nat /\ write_address < End
  BY <1>1, <1>2, <1>3 DEF End
<1>5. Image' = Image
  <2>1. ASSUME NEW i \in Slots
        PROVE  (IF i \in write_address' .. End' - 1 THEN todo'[i - write_address' + 1] ELSE log'[i])
               = (IF i \in write_address .. End - 1 THEN todo[i - write_address + 1] ELSE log[i])
    <3>1. i \in Nat
      BY DEF Slots
    <3>2. CASE i = write_address
      <4>1. log'[i] = todo[1] /\ i - write_address + 1 = 1 /\ i \in write_address .. End - 1
        BY <1>1, <1>3, <1>4, <3>2 DEF Logs
      <4>2. i \notin write_address + 1 .. End - 1
        BY <1>1, <3>2
      <4> QED
        BY <1>3, <1>4, <4>1, <4>2
    <3>3. CASE i < write_address
      BY <1>1, <1>3, <1>4, <3>1, <3>3 DEF Logs
    <3>4. CASE i > write_address /\ i <= End - 1
      <4>1. /\ i - (write_address + 1) + 1 \in 1 .. Len(Tail(todo))
            /\ (i - (write_address + 1) + 1) + 1 = i - write_address + 1
        BY <1>1, <1>2, <1>4, <3>1, <3>4 DEF End
      <4>2. Tail(todo)[i - (write_address + 1) + 1] = todo[i - write_address + 1]
        BY <1>2, <4>1
      <4>3. i \in write_address + 1 .. End - 1 /\ i \in write_address .. End - 1
        BY <1>1, <1>4, <3>1, <3>4
      <4> QED
        BY <1>3, <1>4, <4>2, <4>3
    <3>5. CASE i > End - 1
      <4>1. /\ i \notin write_address + 1 .. End - 1 /\ i \notin write_address .. End - 1
            /\ i # write_address
        BY <1>1, <1>4, <3>1, <3>5
      <4> QED
        BY <1>1, <1>3, <1>4, <4>1 DEF Logs
    <3> QED
      BY <1>1, <1>4, <3>1, <3>2, <3>3, <3>4, <3>5
  <2> QED
    BY <2>1 DEF Image
<1>6. log' \in Logs /\ ErasedFrom(log', write_address')
  <2>1. todo[1] \in Words
    BY <1>1, <1>2, ElementOfSeq
  <2>2. log' \in Logs
    BY <1>1, <1>3, <2>1 DEF Logs
  <2>3. ASSUME NEW i \in Slots, i >= write_address + 1
        PROVE  log'[i] = Erased
    BY <1>1, <1>3, <2>3 DEF ErasedFrom, Logs, Slots
  <2> QED
    BY <1>3, <2>2, <2>3 DEF ErasedFrom
<1>7. End = write_address' => log' = Image
  <2>1. SUFFICES ASSUME End = write_address' PROVE log' = Image
    OBVIOUS
  <2>2. ASSUME NEW i \in Slots PROVE log'[i] = Image'[i]
    <3>1. i \notin write_address' .. End' - 1
      BY <1>1, <1>3, <1>4, <2>1
    <3> QED
      BY <3>1 DEF Image
  <2>3. Image' = [i \in Slots |-> Image'[i]] /\ log' = [i \in Slots |-> log'[i]]
    BY <1>6 DEF Image, Logs
  <2> QED
    BY <1>5, <2>2, <2>3
<1>8. Consolidation' = Consolidation
  BY <1>3 DEF Consolidation
<1>9. CASE write_address + 1 >= LOG_SLOTS
  <2>1. pc' = "erase"
    BY <1>3, <1>9
  <2>2. ASSUME NEW n \in Slots, Visits(log', n), log'[n] = Erased
        PROVE  FALSE
    <3>1. n \in Nat /\ n < write_address + 1 /\ n < End
      BY <1>1, <1>4, <1>9, Sizes DEF Slots
    <3>2. \A j \in Slots : log'[j] = Image[j]
      <4>1. ASSUME NEW j \in Slots PROVE log'[j] = Image'[j]
        <5>1. j \notin write_address' .. End' - 1
          BY <1>1, <1>3, <1>4, <1>9, Sizes DEF Slots
        <5> QED
          BY <5>1 DEF Image
      <4> QED
        BY <1>5, <4>1
    <3>3. log' = Image
      <4>1. Image = [i \in Slots |-> Image[i]] /\ log' = [i \in Slots |-> log'[i]]
        BY <1>6 DEF Image, Logs
      <4> QED
        BY <3>2, <4>1
    <3> QED
      BY <1>1, <2>2, <3>1, <3>3 DEF AppendInv
  <2>3. Settled(log')
    BY <2>2 DEF Settled
  <2> QED
    BY <2>1, <2>3 DEF Sound, StoreInv, CleanInv
<1>10. CASE ~(write_address + 1 >= LOG_SLOTS) /\ Len(todo) = 1
  <2>1. pc' = "lock"
    BY <1>3, <1>10
  <2>2. End = write_address' /\ End < LOG_SLOTS /\ End \in Slots
    BY <1>1, <1>3, <1>10, Sizes DEF End, Slots
  <2>3. log' = Image
    BY <1>7, <2>2
  <2>4. Ready(log', write_address')
    BY <1>1, <1>6, <2>2, <2>3 DEF Ready, AppendInv
  <2>6. Settled(log')
    BY <1>6, <2>4, ReadySettled
  <2>5. ~impaired' => Reached(Consolidation', log', write_address', cache')
    BY <1>1, <1>3, <1>8, <2>2, <2>3 DEF Sound, CleanInv
  <2> QED
    BY <2>1, <2>4, <2>5, <2>6 DEF Sound, StoreInv, CleanInv
<1>11. CASE ~(write_address + 1 >= LOG_SLOTS) /\ Len(todo) # 1
  <2>1. pc' = "append"
    BY <1>3, <1>11
  <2>2. write_address' \in Slots
    BY <1>1, <1>3, <1>11, Sizes DEF Slots
  <2>3. ASSUME NEW n \in Slots, n >= write_address'
        PROVE  n >= write_address
    BY <1>1, <1>3, <2>3 DEF Slots
  <2>4. AppendInv'
    BY <1>1, <1>4, <1>5, <1>6, <2>2, <2>3 DEF AppendInv
  <2>5. ~impaired' /\ End' < LOG_SLOTS => Reached(Consolidation', Image', End', cache')
    BY <1>1, <1>3, <1>4, <1>5, <1>8 DEF Sound, CleanInv
  <2> QED
    BY <2>1, <2>2, <2>4, <2>5 DEF Sound, StoreInv, CleanInv
<1> QED
  BY <1>9, <1>10, <1>11

\* Behind the log none is written.
LEMMA AppendSound ==
  ASSUME TypeInv, Control, Sound, append_raw
  PROVE  Sound'
<1>1. pc = "append" /\ astray' = astray /\ pc' \in {"erase", "lock", "append"}
  BY DEF append_raw
<1>2. CASE astray
  BY <1>1, <1>2 DEF Sound, StoreInv, CleanInv
<1>3. CASE ~astray /\ write_address \in Slots
  BY <1>3, AppendInLog
<1>4. CASE ~astray /\ write_address \notin Slots
  <2>1. write_address \in Nat /\ write_address >= LOG_SLOTS
    BY <1>4, Sizes DEF TypeInv, Slots
  <2>2. pc' = "erase" /\ log' = log
    BY <1>4, <2>1, Sizes DEF append_raw, Full
  <2>3. Settled(log')
    BY <1>1, <1>4, <2>2 DEF Sound, StoreInv
  <2> QED
    BY <2>2, <2>3 DEF Sound, StoreInv, CleanInv
<1> QED
  BY <1>2, <1>3, <1>4

\* The log in the middle of a write is settled, also with write_address behind it.
LEMMA WritingSettled ==
  ASSUME TypeInv, StoreInv, pc = "append", ~astray
  PROVE  Settled(log)
BY ImageType, AppendSettled DEF StoreInv

\* A word that is not written.
LEMMA AppendFailsSound ==
  ASSUME TypeInv, Sound, append_Fails, TypeInv'
  PROVE  Sound'
<1>1. /\ pc = "append" /\ log' = log /\ pc' = "lock" /\ status' = "FAILED" /\ Astray
  BY DEF append_Fails, store
<1>2. ~astray => Settled(log')
  BY <1>1, WritingSettled DEF Sound
<1> QED
  BY <1>1, <1>2, FailedSound

\* The same of the log after a step.
LEMMA ImageTypeNext == TypeInv' => (Image \in Logs)'
<1>1. TypeInv => Image \in Logs
  BY ImageType
<1> QED
  BY <1>1, PTL

\* Every step leaves the backing store as it should be.
LEMMA StepSound == WholeErases /\ Shape /\ Sound /\ [Next]_vars /\ TypeInv' => Sound'
<1> SUFFICES ASSUME WholeErases, Shape, Sound, [Next]_vars, TypeInv'
             PROVE  Sound'
  OBVIOUS
<1>0. /\ TypeInv /\ Control /\ StoreInv /\ CleanInv
      /\ log \in Logs /\ Consolidation \in Blocks /\ cache \in Blocks
  BY ConsolidatedType DEF Shape, Sound, TypeInv, Consolidation
<1>24. ~astray /\ pc \in {"off", "erase", "idle", "lock", "append"} => Settled(log)
  BY <1>0, WritingSettled DEF StoreInv
<1>1. CASE wear_leveling_init
  <2> DEFINE p == Stored
  <2>1. Start(p, p.failed, FALSE) /\ (~astray => Settled(log))
    BY <1>1, <1>24 DEF wear_leveling_init, Start
  <2>2. ~astray /\ ~p.failed /\ ~(p.at >= LOG_SLOTS) =>
          Ready(log, p.at) /\ Reached(Consolidation, log, p.at, p.cache)
    <3>1. SUFFICES ASSUME ~astray, ~p.failed, ~(p.at >= LOG_SLOTS)
                   PROVE  Ready(log, p.at) /\ Reached(Consolidation, log, p.at, p.cache)
      OBVIOUS
    <3>2. p = Playback(Consolidation, log)
      BY DEF Stored, Consolidation
    <3>3. p.at \in Nat
      BY <1>0, <3>2, PlaybackReached DEF Plays
    <3>4. p.at < LOG_SLOTS
      BY <3>1, <3>3, Sizes
    <3> HIDE DEF p
    <3> QED
      BY <1>0, <2>1, <3>1, <3>2, <3>4, PlaybackReady
  <2> HIDE DEF p
  <2> QED
    BY <2>1, <2>2, StartSound
<1>2. CASE init_ChecksumUnread
  <2> DEFINE p == Playback(Blank, log)
  <2>1. Start(p, p.failed, TRUE) /\ (~astray => Settled(log))
    BY <1>2, <1>24 DEF init_ChecksumUnread, Start
  <2>2. ~astray /\ ~p.failed /\ ~(p.at >= LOG_SLOTS) => Ready(log, p.at)
    <3>1. SUFFICES ASSUME ~astray, ~p.failed, ~(p.at >= LOG_SLOTS)
                   PROVE  Ready(log, p.at)
      OBVIOUS
    <3>3. p.at \in Nat
      BY <1>0, BlankType, PlaybackReached DEF Plays
    <3>4. p.at < LOG_SLOTS
      BY <3>1, <3>3, Sizes
    <3>5. p = Playback(Blank, log)
      OBVIOUS
    <3> HIDE DEF p
    <3> QED
      BY <1>0, <2>1, <3>1, <3>4, <3>5, BlankType, PlaybackReady
  <2> HIDE DEF p
  <2> QED
    BY <2>1, <2>2, StartSound
<1>3. CASE init_Fails
  <2>1. /\ pc = "off" /\ pc' = "idle" /\ status' = "FAILED" /\ impaired' /\ log' = log
        /\ Astray
    BY <1>3 DEF init_Fails, store
  <2> QED
    BY <1>24, <2>1, FailedSound
<1>4. ASSUME NEW n \in Slots, init_ReadFails(n)
      PROVE  Sound'
  <2> DEFINE p == Play(read_consolidated(con, sum), log, n)
  <2>1. Start(p, TRUE, FALSE) /\ (~astray => Settled(log))
    BY <1>4, <1>24 DEF init_ReadFails, Start
  <2> HIDE DEF p
  <2> QED
    BY <2>1, StartSound
<1>5. ASSUME NEW w \in Writes, write_Skipped(w)
      PROVE  Sound'
  <2>1. /\ pc = "idle" /\ pc' = "idle" /\ con' = con /\ sum' = sum /\ log' = log /\ cache' = cache
        /\ write_address' = write_address /\ impaired' = impaired /\ astray' = astray
    BY <1>5 DEF write_Skipped, store
  <2>2. Consolidation' = Consolidation
    BY <2>1 DEF Consolidation
  <2> QED
    BY <1>0, <2>1, <2>2 DEF Sound, StoreInv, CleanInv
<1>6. ASSUME NEW w \in Writes, wear_leveling_write(w)
      PROVE  Sound'
  BY <1>0, <1>6, ImageTypeNext, WriteSound
<1>7. ASSUME NEW w \in Writes, write_UnlockFails(w)
      PROVE  Sound'
  <2>1. /\ pc = "idle" /\ pc' = "idle" /\ log' = log /\ write_address' = write_address
        /\ impaired' = TRUE /\ astray' = astray
    BY <1>7 DEF write_UnlockFails, StartWrite, store
  <2> QED
    BY <1>0, <2>1 DEF Sound, StoreInv, CleanInv
<1>8. CASE append_raw
  BY <1>0, <1>8, AppendSound
<1>9. CASE append_Fails
  BY <1>0, <1>9, AppendFailsSound
<1>10. CASE consolidate_Erase
  <2>1. pc' = "unlock" /\ con' = Blank /\ \A i \in Slots : log'[i] = Erased
    BY <1>10 DEF consolidate_Erase, Erase, ErasedLog
  <2> QED
    BY <2>1 DEF Sound, StoreInv, CleanInv, ErasedFrom
<1>11. CASE consolidate_EraseFails
  <2>1. /\ pc = "erase" /\ PartlyErase /\ Astray /\ pc' \in {"idle", "lock"}
        /\ status' = "FAILED" /\ (pc' = "idle" => impaired')
    BY <1>11 DEF consolidate_EraseFails, Consolidated
  <2>2. ~astray => Settled(log')
    BY <1>0, <1>24, <2>1, PartlyEraseSettled DEF WholeErases
  <2> QED
    BY <2>1, <2>2, FailedSound
<1>12. CASE write_consolidated_Unlock \/ write_consolidated_UnlockFails
  <2>1. pc = "unlock" /\ pc' = "data" /\ con' = con /\ log' = log
    BY <1>12 DEF write_consolidated_Unlock, write_consolidated_UnlockFails, store
  <2> QED
    BY <1>0, <2>1 DEF Sound, StoreInv, CleanInv
<1>13. CASE write_consolidated_Data
  <2>1. pc = "data" /\ pc' = "sum" /\ con' = cache /\ cache' = cache /\ log' = log
    BY <1>13 DEF write_consolidated_Data
  <2> QED
    BY <1>0, <2>1 DEF Sound, StoreInv, CleanInv
<1>14. CASE write_consolidated_Sum
  <2>1. /\ pc = "sum" /\ pc' \in {"idle", "lock"} /\ con' = con /\ sum' = cache /\ log' = log
        /\ write_address' = 0 /\ cache' = cache
    BY <1>14 DEF write_consolidated_Sum, Consolidated
  <2>2. con = cache /\ ErasedFrom(log, 0)
    BY <1>0, <2>1 DEF StoreInv
  <2>3. Ready(log', write_address') /\ Settled(log')
    BY <1>0, <2>1, <2>2, ErasedReady, ReadySettled
  <2>4. Consolidation' = cache
    BY <2>1, <2>2 DEF Consolidation, read_consolidated
  <2>5. Reached(Consolidation', log', write_address', cache')
    BY <2>1, <2>4, ReachedFirst
  <2> QED
    BY <2>1, <2>3, <2>5 DEF Sound, StoreInv, CleanInv
<1>15. CASE write_consolidated_Fails
  <2>1. /\ pc \in {"data", "sum"} /\ log' = log /\ write_address' = 0
        /\ \/ pc' = "idle" /\ impaired'
           \/ pc' = "lock" /\ status' = "FAILED"
    BY <1>15 DEF write_consolidated_Fails, Consolidated, store
  <2>2. ErasedFrom(log, 0)
    BY <1>0, <2>1 DEF StoreInv
  <2>3. Ready(log', write_address') /\ Settled(log')
    BY <1>0, <2>1, <2>2, ErasedReady, ReadySettled
  <2> QED
    BY <2>1, <2>3 DEF Sound, StoreInv, CleanInv
<1>16. CASE wear_leveling_erase
  <2>1. pc = "idle" /\ pc' = "erase" /\ log' = log /\ astray' = astray
    BY <1>16 DEF wear_leveling_erase, StartErase, store
  <2> QED
    BY <1>24, <2>1 DEF Sound, StoreInv, CleanInv
<1>17. CASE erase_UnlockFails
  <2>1. /\ pc = "idle" /\ pc' = "idle" /\ log' = log /\ write_address' = write_address
        /\ impaired' = TRUE /\ astray' = astray
    BY <1>17 DEF erase_UnlockFails, StartErase, store
  <2> QED
    BY <1>0, <2>1 DEF Sound, StoreInv, CleanInv
<1>18. CASE erase_Erase
  <2>1. pc = "erase" /\ pc' = "lock" /\ cache' = Blank /\ write_address' = 0
    BY <1>18 DEF erase_Erase
  <2>2. CASE Erase
    <3>1. log' \in Logs /\ ErasedFrom(log', 0)
      BY <2>2 DEF Erase, ErasedLog, ErasedFrom, TypeInv
    <3>2. Ready(log', write_address') /\ Settled(log')
      BY <2>1, <3>1, ErasedReady, ReadySettled
    <3>3. Consolidation' = Blank
      BY <2>2 DEF Erase, Consolidation, read_consolidated
    <3>4. Reached(Consolidation', log', write_address', cache')
      BY <2>1, <3>3, ReachedFirst
    <3> QED
      BY <2>1, <3>2, <3>4 DEF Sound, StoreInv, CleanInv
  <2>3. CASE PartlyErase /\ Astray /\ status' = "FAILED"
    <3>1. ~astray => Settled(log')
      BY <1>0, <1>24, <2>1, <2>3, PartlyEraseSettled DEF WholeErases
    <3> QED
      BY <2>1, <2>3, <3>1, FailedSound
  <2> QED
    BY <1>18, <2>2, <2>3 DEF erase_Erase
<1>19. CASE lock
  <2>1. /\ pc = "lock" /\ pc' = "idle" /\ con' = con /\ sum' = sum /\ log' = log /\ cache' = cache
        /\ write_address' = write_address /\ (~impaired' => ~impaired /\ status # "FAILED")
        /\ astray' = astray
    BY <1>19 DEF lock, store
  <2>2. Consolidation' = Consolidation
    BY <2>1 DEF Consolidation
  <2> QED
    BY <1>0, <2>1, <2>2 DEF Sound, StoreInv, CleanInv
<1>20. CASE lock_Fails
  <2>1. /\ pc = "lock" /\ pc' = "idle" /\ log' = log /\ write_address' = write_address
        /\ impaired' = TRUE /\ astray' = astray
    BY <1>20 DEF lock_Fails, store
  <2> QED
    BY <1>0, <2>1 DEF Sound, StoreInv, CleanInv
<1>21. CASE PowerLoss
  <2>1. /\ pc' = "off" /\ pc # "off" /\ IF pc = "erase" THEN PartlyErase ELSE log' = log
        /\ impaired' = FALSE /\ astray' = StillAstray
    BY <1>21 DEF PowerLoss, store
  <2>2. ~astray => Settled(log')
    <3>1. CASE pc = "erase"
      BY <1>0, <1>24, <2>1, <3>1, PartlyEraseSettled DEF WholeErases
    <3>2. CASE pc \in {"idle", "lock", "append"}
      BY <1>24, <2>1, <3>2
    <3>3. CASE pc \in {"unlock", "data", "sum"}
      <4>1. ErasedFrom(log, 0)
        BY <1>0, <3>3 DEF StoreInv
      <4>2. Settled(log)
        BY <1>0, <4>1, ErasedReady, ReadySettled
      <4> QED
        BY <2>1, <3>3, <4>2
    <3> QED
      BY <1>0, <2>1, <3>1, <3>2, <3>3 DEF TypeInv
  <2>3. log' = ErasedLog => Settled(log')
    BY DEF ErasedLog, Settled, ErasedFrom
  <2>4. ~astray' => Settled(log')
    BY <2>1, <2>2, <2>3 DEF StillAstray
  <2> QED
    BY <2>1, <2>4 DEF Sound, StoreInv, CleanInv
<1>22. CASE UNCHANGED vars
  <2>1. /\ UNCHANGED <<con, sum, log, cache, write_address, pc, todo, status, impaired, astray>>
    BY <1>22 DEF vars
  <2>2. Consolidation' = Consolidation /\ Image' = Image /\ End' = End
    BY <2>1 DEF Consolidation, Image, End
  <2>3. AppendInv' = AppendInv
    BY <2>1, <2>2 DEF AppendInv
  <2> QED
    BY <1>0, <2>1, <2>2, <2>3 DEF Sound, StoreInv, CleanInv
<1> QED
  BY <1>1, <1>2, <1>3, <1>4, <1>5, <1>6, <1>7, <1>8, <1>9, <1>10, <1>11, <1>12, <1>13, <1>14,
     <1>15, <1>16, <1>17, <1>18, <1>19, <1>20, <1>21, <1>22
  DEF Next

\* It is an invariant, with whole erases (wear_leveling.c).
THEOREM SoundInvariance == ASSUME WholeErases PROVE Spec => [](Shape /\ Sound)
<1>1. Shape /\ Sound /\ [Next]_vars => (Shape /\ Sound)'
  <2> SUFFICES ASSUME Shape /\ Sound /\ [Next]_vars PROVE (Shape /\ Sound)'
    OBVIOUS
  <2>1. Shape'
    BY StepShape
  <2>2. TypeInv'
    BY <2>1 DEF Shape
  <2> QED
    BY <2>1, <2>2, StepSound
<1>2. Init => Shape /\ Sound
  BY InitShape, InitSound
<1> QED
  BY <1>1, <1>2, PTL DEF Spec

\* Between operations a power loss would lose nothing: what start-up would restore from
\* the consolidated data and the log is what reads return, unless an operation has failed
\* since power-up or a failed call has left write_address and the log out of step
\* (wear_leveling_playback_log, wear_leveling_write_raw, wear_leveling_consolidate_force).
THEOREM NothingLost == ASSUME WholeErases PROVE Spec => []ReplayMatches
<1>1. Shape /\ Sound => ReplayMatches
  <2> SUFFICES ASSUME Shape, Sound, pc = "idle", ~impaired, ~astray
               PROVE  Stored.cache = cache
    BY DEF ReplayMatches
  <2>1. /\ log \in Logs /\ Consolidation \in Blocks /\ write_address \in Nat
    BY ConsolidatedType DEF Shape, TypeInv, Consolidation
  <2>2. Ready(log, write_address) /\ Reached(Consolidation, log, write_address, cache)
    <3>1. write_address \in Slots
      BY <2>1, Sizes DEF Shape, InBounds, Slots
    <3> QED
      BY <3>1 DEF Sound, StoreInv, CleanInv
  <2>3. write_address \in Slots /\ log[write_address] = Erased
    BY <2>1, <2>2 DEF Ready, ErasedFrom
  <2>4. Playback(Consolidation, log) =
          [cache |-> cache, at |-> write_address, done |-> TRUE, failed |-> FALSE]
    BY <2>1, <2>2, <2>3, ReachedStops
  <2> QED
    BY <2>4 DEF Stored, Consolidation
<1> QED
  BY <1>1, SoundInvariance, PTL

\* Flash is programmed once between erases: a log word is written only where the log is
\* erased, and consolidated data only over erased data, unless an operation has failed
\* since power-up or a failed call has left write_address and the log out of step
\* (wear_leveling_append_raw, wear_leveling_write_consolidated).
THEOREM OnlyErasedProgrammed == ASSUME WholeErases PROVE Spec => ProgramsErased
<1> DEFINE Programmed == /\ \A i \in Slots : log'[i] # log[i] => Erased \in {log[i], log'[i]}
                         /\ con' # con => Blank \in {con, con'}
<1>1. Shape /\ Sound /\ [Next]_vars => [~impaired /\ ~astray => Programmed]_vars
  <2> SUFFICES ASSUME Shape, Sound, [Next]_vars, ~astray
               PROVE  Programmed
    OBVIOUS
  <2>1. CASE log' = log /\ con' = con
    BY <2>1
  <2>2. CASE Erase \/ PartlyErase
    <3>1. CASE UNCHANGED store
      BY <2>1, <3>1 DEF store
    <3>2. CASE Erase
      BY <3>2 DEF Erase, ErasedLog
    <3>3. CASE con' = Blank /\ log' = [i \in Slots |-> IF i < SECTOR THEN Erased ELSE log[i]]
      BY <3>3
    <3> QED
      BY <2>2, <3>1, <3>2, <3>3 DEF PartlyErase
  <2>3. CASE append_raw /\ write_address \in Slots
    <3>1. ErasedFrom(log, write_address) /\ write_address \in Nat /\ log \in Logs
      BY <2>3 DEF Shape, TypeInv, Sound, StoreInv, AppendInv, append_raw
    <3>2. log[write_address] = Erased
      BY <2>3, <3>1 DEF ErasedFrom
    <3>3. log' = [log EXCEPT ![write_address] = Head(todo)] /\ con' = con
      BY <2>3 DEF append_raw
    <3>4. ASSUME NEW i \in Slots, log'[i] # log[i]
          PROVE  log[i] = Erased
      BY <2>3, <3>1, <3>2, <3>3, <3>4 DEF Logs
    <3> QED
      BY <3>3, <3>4
  <2>8. CASE append_raw /\ write_address \notin Slots
    BY <2>1, <2>8 DEF append_raw
  <2>4. CASE write_consolidated_Data
    BY <2>4 DEF write_consolidated_Data, Sound, StoreInv
  <2>5. CASE /\ \/ wear_leveling_init \/ init_ChecksumUnread \/ init_Fails
                \/ \E n \in Slots : init_ReadFails(n)
                \/ \E w \in Writes : write_Skipped(w) \/ wear_leveling_write(w) \/ write_UnlockFails(w)
                \/ append_Fails \/ write_consolidated_Unlock \/ write_consolidated_UnlockFails
                \/ write_consolidated_Sum \/ write_consolidated_Fails
                \/ wear_leveling_erase \/ erase_UnlockFails \/ lock \/ lock_Fails
                \/ UNCHANGED vars
    <3>1. log' = log /\ con' = con
      BY <2>5 DEF wear_leveling_init, init_ChecksumUnread, init_Fails, init_ReadFails, Start,
         write_Skipped, wear_leveling_write, write_UnlockFails, StartWrite, append_Fails,
         write_consolidated_Unlock, write_consolidated_UnlockFails, write_consolidated_Sum,
         write_consolidated_Fails, wear_leveling_erase, erase_UnlockFails, StartErase, lock,
         lock_Fails, vars, store
    <3> QED
      BY <2>1, <3>1
  <2>6. CASE consolidate_Erase \/ consolidate_EraseFails \/ erase_Erase
    BY <2>2, <2>6 DEF consolidate_Erase, consolidate_EraseFails, erase_Erase
  <2>7. CASE PowerLoss
    BY <2>1, <2>2, <2>7 DEF PowerLoss, store
  <2> QED
    BY <2>3, <2>4, <2>5, <2>6, <2>7, <2>8 DEF Next
<1> QED
  BY <1>1, SoundInvariance, PTL DEF Spec, ProgramsErased

-----------------------------------------------------------------------------
(* The promise of Eeprom.                                                  *)

\* The backing store does what it is asked to, and an erase that is cut short has erased
\* nothing or everything of the log.
PlainStore == Failing = {} /\ SECTOR \in {0, LOG_SLOTS}

\* Every entry is one word: only a multibyte entry has more.
OneWordEntries ==
  \A w \in Writes : \A j \in 1 .. Len(write_raw(w)) : Type(write_raw(w)[j]) # "MULTIBYTE"

\* Two playbacks at the same place, each byte of the first as in the second or zero.
Fainter(p, q) ==
  /\ p.at = q.at /\ p.done = q.done /\ p.failed = q.failed
  /\ \A a \in Addresses : p.cache[a] \in {0, q.cache[a]}

\* An entry leaves them so.
LEMMA FainterStep ==
  ASSUME NEW l \in Logs, NEW p \in Plays, NEW q \in Plays, Fainter(p, q)
  PROVE  Fainter(PlayEntry(l, p), PlayEntry(l, q))
<1>1. AtEnd(q) = AtEnd(p) /\ q.at = p.at /\ q.done = p.done /\ q.failed = p.failed
  BY DEF Fainter, AtEnd
<1>2. CASE AtEnd(p)
  BY <1>1, <1>2, PlayStays
<1>3. CASE ~AtEnd(p) /\ l[p.at] = Erased
  <2>1. PlayEntry(l, p) = [p EXCEPT !.done = TRUE] /\ PlayEntry(l, q) = [q EXCEPT !.done = TRUE]
    BY <1>1, <1>3, PlayErased
  <2> QED
    BY <2>1 DEF Fainter, Plays
<1>4. CASE ~AtEnd(p) /\ l[p.at] # Erased /\ Bad(l, p.at)
  <2>1. /\ PlayEntry(l, p) = [cache |-> p.cache, at |-> p.at + BadWidth(l, p.at),
                              done |-> TRUE, failed |-> TRUE]
        /\ PlayEntry(l, q) = [cache |-> q.cache, at |-> p.at + BadWidth(l, p.at),
                              done |-> TRUE, failed |-> TRUE]
    BY <1>1, <1>4, PlayBad
  <2> QED
    BY <2>1 DEF Fainter
<1>5. CASE ~AtEnd(p) /\ l[p.at] # Erased /\ ~Bad(l, p.at)
  <2>1. /\ PlayEntry(l, p) = [cache |-> Put(p.cache, l, p.at), at |-> p.at + Width(l, p.at),
                              done |-> FALSE, failed |-> FALSE]
        /\ PlayEntry(l, q) = [cache |-> Put(q.cache, l, p.at), at |-> p.at + Width(l, p.at),
                              done |-> FALSE, failed |-> FALSE]
    BY <1>1, <1>5, PlayGood
  <2>2. \A a \in Addresses : Put(p.cache, l, p.at)[a] \in {0, Put(q.cache, l, p.at)[a]}
    BY DEF Put, Overlay, Fainter
  <2> QED
    BY <2>1, <2>2 DEF Fainter
<1> QED
  BY <1>2, <1>3, <1>4, <1>5

\* So playback onto erased data loses the bytes that are not in the log, no more.
LEMMA PlaybackOnBlank ==
  ASSUME NEW d \in Blocks, NEW l \in Logs
  PROVE  \A a \in Addresses : Playback(Blank, l).cache[a] \in {0, Playback(d, l).cache[a]}
<1> DEFINE S == {k \in Nat : Fainter(Play(Blank, l, k), Play(d, l, k))}
<1>1. 0 \in S
  <2>1. Fainter(Begin(Blank), Begin(d))
    BY DEF Fainter, Begin, Blank
  <2>2. Play(Blank, l, 0) = Begin(Blank) /\ Play(d, l, 0) = Begin(d)
    BY PlayUnfold
  <2> QED
    BY <2>1, <2>2
<1>2. ASSUME NEW k \in Nat, k \in S PROVE k + 1 \in S
  <2>1. Play(Blank, l, k) \in Plays /\ Play(d, l, k) \in Plays
    BY BlankType, PlayType
  <2>2. Fainter(PlayEntry(l, Play(Blank, l, k)), PlayEntry(l, Play(d, l, k)))
    BY <1>2, <2>1, FainterStep
  <2>3. Play(Blank, l, k + 1) = PlayEntry(l, Play(Blank, l, k))
    BY PlayUnfold
  <2>4. Play(d, l, k + 1) = PlayEntry(l, Play(d, l, k))
    BY PlayUnfold
  <2> QED
    BY <2>2, <2>3, <2>4
<1>3. LOG_SLOTS + 1 \in S
  <2> HIDE DEF S
  <2>1. Nat \subseteq S
    BY <1>1, <1>2, SetInduction
  <2> QED
    BY <2>1, Sizes
<1> QED
  BY <1>3 DEF Fainter, Playback

\* Where it comes to the end of the log it ends.
LEMMA ReachedEnd ==
  ASSUME NEW d \in Blocks, NEW l \in Logs, NEW n, NEW c, Reached(d, l, n, c), n >= LOG_SLOTS
  PROVE  Playback(d, l).cache = c
<1>1. PICK k \in Nat : Play(d, l, k) = [cache |-> c, at |-> n, done |-> FALSE, failed |-> FALSE]
  BY DEF Reached
<1> DEFINE p == Play(d, l, k)
           m == LOG_SLOTS + 1
           q == Play(d, l, m)
<1>2. p.at = n /\ ~p.done /\ p.cache = c
  BY <1>1
<1>3. AtEnd(p)
  <2> HIDE DEF p
  <2> QED
    BY <1>2 DEF AtEnd
<1>4. AtEnd(q)
  <2>1. m \in Nat /\ \A x \in Nat : x >= m => x >= LOG_SLOTS
    BY Sizes
  <2>2. q \in Plays /\ \/ ~q.done /\ ~q.failed /\ (q.at >= m \/ q.at >= LOG_SLOTS)
                       \/ q.done
    BY <2>1, PlayType, PlayShape
  <2> HIDE DEF q, m
  <2> QED
    BY <2>1, <2>2 DEF AtEnd, Plays
<1>5. p = q
  <2>1. k \in Nat /\ m \in Nat
    BY Sizes
  <2> HIDE DEF m
  <2>2. CASE k <= m
    <3>1. m - k \in Nat /\ k + (m - k) = m
      BY <2>1, <2>2
    <3>2. Play(d, l, k + (m - k)) = p
      BY <1>3, <3>1, PlayLater
    <3> QED
      BY <3>1, <3>2
  <2>3. CASE m <= k
    <3>1. k - m \in Nat /\ m + (k - m) = k
      BY <2>1, <2>3
    <3>2. Play(d, l, m + (k - m)) = q
      BY <1>4, <2>1, <3>1, PlayLater
    <3> QED
      BY <3>1, <3>2
  <2> QED
    BY <2>1, <2>2, <2>3
<1> HIDE DEF p
<1> QED
  BY <1>2, <1>5 DEF Playback

\* An entry of one word takes playback to the next slot, at the end of the log as well.
LEMMA OneWordReached ==
  ASSUME NEW d \in Blocks, NEW l \in Logs, NEW s \in Slots, NEW c, Reached(d, l, s, c),
         NEW e, NEW a \in Nat, NEW v \in Seq(Octets), IsEntry(e, a, v), Len(e) = 1,
         a + Len(v) <= LOGICAL_SIZE, l[s] = e[1]
  PROVE  Reached(d, l, s + 1, Overlay(c, a, v))
<1>1. s \in Nat /\ s + 1 <= LOG_SLOTS
  BY Sizes DEF Slots
<1>2. Placed(e, l, s)
  <2>1. \A j \in 1 .. 1 : j = 1 /\ s + j - 1 = s
    BY <1>1
  <2> QED
    BY <2>1 DEF Placed
<1>3. Width(l, s) = 1 /\ EntryAddress(l, s) = a /\ EntryBytes(l, s) = v
  BY <1>1, <1>2 DEF IsEntry
<1>4. l[s] # Erased /\ Type(l[s]) # "NONE"
  BY DEF IsEntry
<1>5. ~Bad(l, s)
  <2>1. ~(a + Len(v) > LOGICAL_SIZE)
    BY WearLevelingAssumption
  <2> QED
    BY <1>3, <1>4, <2>1 DEF Bad, Read
<1>6. Reached(d, l, s + Width(l, s), Put(c, l, s))
  BY <1>4, <1>5, ReachedNext
<1> QED
  BY <1>3, <1>6 DEF Put

\* A word before some others.
LEMMA OneAhead ==
  ASSUME NEW e \in Seq(Words), NEW s \in Seq(Words), Len(e) = 1
  PROVE  /\ (e \o s) # <<>> /\ Head(e \o s) = e[1] /\ Tail(e \o s) = s /\ Len(e \o s) = Len(s) + 1
<1> DEFINE t == e \o s
<1>1. /\ t \in Seq(Words) /\ Len(t) = 1 + Len(s) /\ Len(s) \in Nat
      /\ \A i \in 1 .. 1 + Len(s) : t[i] = IF i <= 1 THEN e[i] ELSE s[i - 1]
  <2>1. /\ t \in Seq(Words) /\ Len(t) = Len(e) + Len(s)
        /\ \A i \in 1 .. Len(e) + Len(s) : t[i] = IF i <= Len(e) THEN e[i] ELSE s[i - Len(e)]
    BY ConcatProperties
  <2>2. Len(s) \in Nat
    BY LenProperties
  <2> HIDE DEF t
  <2> QED
    BY <2>1, <2>2
<1> HIDE DEF t
<1>2. t # <<>> /\ Head(t) = t[1] /\ t[1] = e[1]
  BY <1>1
<1>3. /\ Tail(t) \in Seq(Words) /\ Len(Tail(t)) = Len(s)
      /\ \A i \in 1 .. Len(s) : Tail(t)[i] = t[i + 1]
  BY <1>1, <1>2, HeadTailProperties
<1>4. \A i \in 1 .. Len(s) : t[i + 1] = s[i]
  <2>1. \A i \in 1 .. Len(s) : i + 1 \in 1 .. 1 + Len(s) /\ ~(i + 1 <= 1) /\ (i + 1) - 1 = i
    BY <1>1
  <2> QED
    BY <1>1, <2>1
<1>5. Tail(t) = s
  BY <1>3, <1>4, SeqEqual
<1>6. Len(t) = Len(s) + 1
  BY <1>1
<1> QED
  BY <1>2, <1>5, <1>6 DEF t

\* Bytes from the middle of a write.
LEMMA PieceOfWrite ==
  ASSUME NEW w \in Writes, NEW i \in Nat, NEW m \in 1 .. Len(w.value) - i
  PROVE  /\ SubSeq(w.value, i + 1, i + m) \in Seq(Octets)
         /\ Len(SubSeq(w.value, i + 1, i + m)) = m
         /\ \A k \in 1 .. m : SubSeq(w.value, i + 1, i + m)[k] = w.value[i + k]
<1> DEFINE n == Len(w.value)
           v == SubSeq(w.value, i + 1, i + m)
<1>1. w.value \in Seq(Octets) /\ n \in Nat
  BY WriteTypes
<1>2. \A k \in 1 .. n : w.value[k] \in Octets
  BY <1>1, ElementOfSeq
<1>3. \A k \in i + 1 .. i + m : w.value[k] \in Octets
  BY <1>1, <1>2
<1>4. i + 1 \in Int /\ i + m \in Int /\ i + 1 <= i + m /\ i + m - (i + 1) + 1 = m
  BY <1>1
<1>5. /\ v \in Seq(Octets)
      /\ Len(v) = IF i + 1 <= i + m THEN i + m - (i + 1) + 1 ELSE 0
      /\ \A k \in 1 .. i + m - (i + 1) + 1 : v[k] = w.value[i + 1 + k - 1]
  BY <1>3, <1>4, SubSeqProperties
<1>6. \A k \in 1 .. m : i + 1 + k - 1 = i + k
  BY <1>1
<1>7. v \in Seq(Octets) /\ Len(v) = m /\ \A k \in 1 .. m : v[k] = w.value[i + k]
  <2> HIDE DEF v
  <2> QED
    BY <1>4, <1>5, <1>6
<1> QED
  BY <1>7

\* The data b with the bytes of c in the region r below address n.
Mix(b, c, r, n) == [a \in Addresses |-> IF a \in r /\ a < n THEN c[a] ELSE b[a]]

\* One more entry of a write put in.
LEMMA MixStep ==
  ASSUME NEW w \in Writes, NEW b, NEW c, c = Overlay(b, w.address, w.value),
         NEW r, r = w.address .. w.address + Len(w.value) - 1,
         NEW i \in Nat, NEW m \in 1 .. Len(w.value) - i
  PROVE  Overlay(Mix(b, c, r, w.address + i), w.address + i, SubSeq(w.value, i + 1, i + m))
         = Mix(b, c, r, w.address + (i + m))
<1> DEFINE n == Len(w.value)
           a == w.address
           v == SubSeq(w.value, i + 1, i + m)
           old == Mix(b, c, r, a + i)
<1>1. n \in Nat \ {0} /\ a \in Nat
  BY WriteTypes
<1>2. Len(v) = m /\ \A k \in 1 .. m : v[k] = w.value[i + k]
  BY PieceOfWrite
<1>3. r = a .. a + n - 1
  OBVIOUS
<1>4. ASSUME NEW x \in Addresses
      PROVE  (IF x \in a + i .. a + i + m - 1 THEN v[x - (a + i) + 1] ELSE old[x])
             = (IF x \in r /\ x < a + (i + m) THEN c[x] ELSE b[x])
  <2>1. x \in Nat
    BY WearLevelingAssumption DEF Addresses
  <2>2. c[x] = IF x \in a .. a + n - 1 THEN w.value[x - a + 1] ELSE b[x]
    BY DEF Overlay
  <2>3. old[x] = IF x \in r /\ x < a + i THEN c[x] ELSE b[x]
    BY DEF Mix
  <2> HIDE DEF old, v, n, a
  <2>4. CASE x \in a + i .. a + i + m - 1
    <3> DEFINE k == x - (a + i) + 1
    <3>1. k \in 1 .. m /\ i + k = x - a + 1
      BY <1>1, <2>1, <2>4
    <3> HIDE DEF k
    <3>2. v[k] = w.value[x - a + 1]
      BY <1>2, <3>1
    <3>3. x \in a .. a + n - 1 /\ x < a + (i + m)
      BY <1>1, <2>1, <2>4 DEF n
    <3> QED
      BY <1>3, <2>2, <2>4, <3>2, <3>3 DEF k
  <2>5. CASE x \notin a + i .. a + i + m - 1
    <3>1. x < a + i <=> x < a + (i + m)
      BY <1>1, <2>1, <2>5
    <3> QED
      BY <2>3, <2>5, <3>1
  <2> QED
    BY <2>4, <2>5
<1>5. [x \in Addresses |-> IF x \in a + i .. a + i + m - 1 THEN v[x - (a + i) + 1] ELSE old[x]]
      = [x \in Addresses |-> IF x \in r /\ x < a + (i + m) THEN c[x] ELSE b[x]]
  <2> HIDE DEF old, v, a
  <2> QED
    BY <1>4
<1> HIDE DEF old, v, a
<1>6. Overlay(old, a + i, v) = Mix(b, c, r, a + (i + m))
  BY <1>2, <1>5 DEF Overlay, Mix
<1> QED
  BY <1>6 DEF old, v, a

\* In the middle of a write: the words left are those from some byte on, and playback of
\* the log as it is leads to the data with the bytes before that one written.
WriteInv ==
  \E w \in Writes : \E i \in 0 .. Len(w.value) - 1 : \E f :
    /\ IsEncoding(f, w, 0) /\ todo = f[i]
    /\ cache = Overlay(before, w.address, w.value)
    /\ region = w.address .. w.address + Len(w.value) - 1
    /\ Reached(Consolidation, log, write_address, Mix(before, cache, region, w.address + i))

\* Each byte of d is as it was, as it shall be, or zero.
Blends(d, b, c) == \A a \in Addresses : d[a] \in {0, b[a], c[a]}

\* Nothing has failed, and what start-up would restore is what Eeprom allows.
RestoreInv ==
  /\ ~impaired /\ ~astray /\ status # "FAILED"
  /\ pc = "off" => restart = Stored.cache
  /\ pc = "append" => WriteInv /\ \A j \in 1 .. Len(todo) : Type(todo[j]) # "MULTIBYTE"
  /\ pc = "erase" => Blends(Stored.cache, before, cache)

\* The word that is next.
LEMMA AppendRestores ==
  ASSUME TypeInv, Control, InBounds, Sound, RestoreInv, append_raw
  PROVE  RestoreInv'
<1>1. /\ pc = "append" /\ log \in Logs /\ Consolidation \in Blocks /\ before \in Blocks
      /\ write_address \in Slots /\ ~impaired /\ ~astray /\ status # "FAILED"
      /\ \A j \in 1 .. Len(todo) : Type(todo[j]) # "MULTIBYTE"
  <2>1. write_address \in Slots
    BY Sizes DEF append_raw, TypeInv, InBounds, RestoreInv, Slots
  <2> QED
    BY <2>1, ConsolidatedType DEF append_raw, TypeInv, RestoreInv, Consolidation
<1>2. PICK w \in Writes : \E i \in 0 .. Len(w.value) - 1 : \E f :
        /\ IsEncoding(f, w, 0) /\ todo = f[i]
        /\ cache = Overlay(before, w.address, w.value)
        /\ region = w.address .. w.address + Len(w.value) - 1
        /\ Reached(Consolidation, log, write_address, Mix(before, cache, region, w.address + i))
  BY <1>1 DEF RestoreInv, WriteInv
<1>3. PICK i \in 0 .. Len(w.value) - 1 : \E f :
        /\ IsEncoding(f, w, 0) /\ todo = f[i]
        /\ cache = Overlay(before, w.address, w.value)
        /\ region = w.address .. w.address + Len(w.value) - 1
        /\ Reached(Consolidation, log, write_address, Mix(before, cache, region, w.address + i))
  BY <1>2
<1>4. PICK f :
        /\ IsEncoding(f, w, 0) /\ todo = f[i]
        /\ cache = Overlay(before, w.address, w.value)
        /\ region = w.address .. w.address + Len(w.value) - 1
        /\ Reached(Consolidation, log, write_address, Mix(before, cache, region, w.address + i))
  BY <1>3
<1>5. /\ w.value \in Seq(Octets) /\ Len(w.value) \in Nat \ {0} /\ w.address \in Nat
      /\ w.address + Len(w.value) <= LOGICAL_SIZE
  BY WriteTypes
<1>6. PICK m \in 1 .. Len(w.value) - i : \E e :
        /\ IsEntry(e, w.address + i, SubSeq(w.value, i + 1, i + m))
        /\ f[i] = e \o f[i + m]
  BY <1>4, EncodeEntry
<1>7. PICK e : /\ IsEntry(e, w.address + i, SubSeq(w.value, i + 1, i + m))
               /\ f[i] = e \o f[i + m]
  BY <1>6
<1> DEFINE s == f[i + m]
           v == SubSeq(w.value, i + 1, i + m)
           a == w.address + i
           old == Mix(before, cache, region, w.address + i)
           new == Mix(before, cache, region, w.address + (i + m))
<1>8. i \in Nat /\ m \in Nat /\ i + m \in 0 .. Len(w.value) /\ a \in Nat
  BY <1>5
<1>9. s \in Seq(Words) /\ (i + m < Len(w.value) => s # <<>>) /\ (i + m = Len(w.value) => s = <<>>)
  <2>1. Encodes(s, w, i + m)
    BY <1>4, <1>8, EncodingEncodes
  <2>2. f[Len(w.value)] = <<>>
    BY <1>4, EncodingEnd
  <2> QED
    BY <2>1, <2>2 DEF Encodes
<1>10. v \in Seq(Octets) /\ Len(v) = m
  BY <1>8, PieceOfWrite
<1>11. e \in Seq(Words) /\ Len(e) = 1
  <2>1. e \in Seq(Words) /\ Len(e) \in 1 .. 4
    BY <1>7 DEF IsEntry
  <2>2. /\ Len(todo) = Len(e) + Len(s) /\ Len(s) \in Nat
        /\ \A j \in 1 .. Len(e) + Len(s) : todo[j] = IF j <= Len(e) THEN e[j] ELSE s[j - Len(e)]
    BY <1>4, <1>7, <1>9, <2>1, ConcatProperties, LenProperties
  <2> HIDE DEF s
  <2> DEFINE k == Len(e)
             n == Len(s)
  <2>3. 1 \in 1 .. Len(todo) /\ todo[1] = e[1]
    <3>1. /\ k \in 1 .. 4 /\ n \in Nat /\ Len(todo) = k + n
          /\ \A j \in 1 .. k + n : todo[j] = IF j <= k THEN e[j] ELSE s[j - k]
      BY <2>1, <2>2
    <3> HIDE DEF k, n
    <3>2. 1 \in 1 .. k + n /\ 1 <= k
      BY <3>1
    <3> QED
      BY <3>1, <3>2
  <2>4. Type(e[1]) # "MULTIBYTE"
    <3>1. Type(todo[1]) # "MULTIBYTE"
      BY <1>1, <2>3
    <3> QED
      BY <2>3, <3>1
  <2>5. ~(Len(e) > 1)
    BY <1>7, <2>4, Zenon DEF IsEntry
  <2>6. k = 1
    <3>1. k \in 1 .. 4 /\ ~(k > 1)
      BY <2>1, <2>5
    <3> HIDE DEF k
    <3> QED
      BY <3>1
  <2> QED
    BY <2>1, <2>6
<1>12. Head(todo) = e[1] /\ Tail(todo) = s /\ Len(todo) = Len(s) + 1
  BY <1>4, <1>7, <1>9, <1>11, OneAhead
<1> HIDE DEF s, v, a
<1>13. /\ log' = [log EXCEPT ![write_address] = e[1]]
       /\ write_address' = write_address + 1 /\ todo' = s
       /\ UNCHANGED <<con, sum, cache, before, region, impaired, astray, status>>
       /\ pc' = IF write_address + 1 >= LOG_SLOTS THEN "erase"
                ELSE IF Len(todo) = 1 THEN "lock" ELSE "append"
  BY <1>1, <1>12 DEF append_raw, Full, history
<1>14. Consolidation' = Consolidation
  BY <1>13 DEF Consolidation
<1>15. log' \in Logs /\ log'[write_address] = e[1]
       /\ \A j \in Slots : j < write_address => log[j] = log'[j]
  <2>1. e[1] \in Words
    <3>1. 1 \in 1 .. Len(e)
      BY <1>11
    <3> QED
      BY <1>11, <3>1, ElementOfSeq, Zenon
  <2>2. \A j \in Slots : j < write_address => j # write_address
    BY <1>1 DEF Slots
  <2> QED
    BY <1>1, <1>13, <2>1, <2>2 DEF Logs
<1>16. Reached(Consolidation, log', write_address + 1, new)
  <2>1. Reached(Consolidation, log', write_address, old)
    <3>1. write_address \in Nat
      BY <1>1 DEF Slots
    <3> QED
      BY <1>1, <1>4, <1>15, <3>1, ReachedAgree
  <2>2. a + Len(v) <= LOGICAL_SIZE
    <3>1. LOGICAL_SIZE \in Nat
      BY WearLevelingAssumption
    <3> QED
      BY <1>5, <1>8, <1>10, <3>1, SMTT(30) DEF a
  <2>3. IsEntry(e, a, v)
    BY <1>7 DEF a, v
  <2>4. Reached(Consolidation, log', write_address + 1, Overlay(old, a, v))
    <3> HIDE DEF old
    <3> QED
      BY <1>1, <1>8, <1>10, <1>11, <1>15, <2>1, <2>2, <2>3, OneWordReached
  <2>5. Overlay(Mix(before, cache, region, w.address + i), w.address + i,
                SubSeq(w.value, i + 1, i + m)) = Mix(before, cache, region, w.address + (i + m))
    <3>1. i \in Nat /\ m \in 1 .. Len(w.value) - i
      BY <1>8
    <3>2. /\ cache = Overlay(before, w.address, w.value)
          /\ region = w.address .. w.address + Len(w.value) - 1
      BY <1>4
    <3>3. \A b, c, r :
            c = Overlay(b, w.address, w.value) /\ r = w.address .. w.address + Len(w.value) - 1
            => Overlay(Mix(b, c, r, w.address + i), w.address + i, SubSeq(w.value, i + 1, i + m))
               = Mix(b, c, r, w.address + (i + m))
      BY <3>1, MixStep, Zenon
    <3> QED
      BY <3>2, <3>3
  <2> QED
    BY <2>4, <2>5 DEF a, v
<1>17. CASE write_address + 1 >= LOG_SLOTS
  <2>1. Playback(Consolidation, log').cache = new
    BY <1>1, <1>15, <1>16, <1>17, ReachedEnd
  <2>2. Stored'.cache = new
    BY <1>14, <2>1 DEF Stored, Consolidation
  <2>3. Blends(new, before, cache)
    BY DEF Blends, Mix
  <2> QED
    BY <1>1, <1>13, <1>17, <2>2, <2>3 DEF RestoreInv
<1>18. CASE ~(write_address + 1 >= LOG_SLOTS) /\ Len(todo) = 1
  <2>1. pc' = "lock"
    BY <1>13, <1>18
  <2> QED
    BY <1>1, <1>13, <2>1 DEF RestoreInv
<1>19. CASE ~(write_address + 1 >= LOG_SLOTS) /\ Len(todo) # 1
  <2>1. pc' = "append"
    BY <1>13, <1>19
  <2>2. s # <<>>
    BY <1>9, <1>12, <1>19
  <2>3. i + m \in 0 .. Len(w.value) - 1
    <3>1. i + m # Len(w.value)
      BY <1>9, <2>2
    <3> QED
      BY <1>5, <1>8, <3>1, SMTT(30)
  <2>4. WriteInv'
    <3>1. /\ todo' = f[i + m]
          /\ cache' = Overlay(before', w.address, w.value)
          /\ region' = w.address .. w.address + Len(w.value) - 1
      BY <1>4, <1>13 DEF s
    <3>2. Reached(Consolidation', log', write_address',
                  Mix(before', cache', region', w.address + (i + m)))
      BY <1>13, <1>14, <1>16
    <3> QED
      BY <1>4, <2>3, <3>1, <3>2 DEF WriteInv
  <2>5. \A j \in 1 .. Len(s) : Type(s[j]) # "MULTIBYTE"
    <3>1. /\ Len(Tail(todo)) = Len(todo) - 1
          /\ \A j \in 1 .. Len(Tail(todo)) : Tail(todo)[j] = todo[j + 1]
      <4>1. todo \in Seq(Words) /\ todo # <<>>
        BY <1>1 DEF TypeInv, Control
      <4> QED
        BY <4>1, HeadTailProperties
    <3>2. Len(s) \in Nat
      BY <1>9, LenProperties
    <3>3. \A j \in 1 .. Len(s) : j + 1 \in 1 .. Len(todo) /\ s[j] = todo[j + 1]
      BY <1>12, <3>1, <3>2, SMTT(30)
    <3> QED
      BY <1>1, <3>3
  <2> QED
    BY <1>1, <1>13, <2>1, <2>4, <2>5 DEF RestoreInv
<1> QED
  BY <1>17, <1>18, <1>19

\* Between operations start-up would restore what reads return.
LEMMA StoredIsCache ==
  ASSUME TypeInv, InBounds, Sound, ~impaired, ~astray, status # "FAILED", pc \in {"idle", "lock"}
  PROVE  Stored.cache = cache
<1>1. log \in Logs /\ Consolidation \in Blocks
  BY ConsolidatedType DEF TypeInv, Consolidation
<1>2. write_address \in Slots
  BY Sizes DEF InBounds, TypeInv, Slots
<1>3. Ready(log, write_address) /\ Reached(Consolidation, log, write_address, cache)
  BY <1>2 DEF Sound, StoreInv, CleanInv
<1>4. log[write_address] = Erased
  <2>1. \A n \in Slots : n >= n
    BY DEF Slots
  <2> QED
    BY <1>2, <1>3, <2>1 DEF Ready, ErasedFrom
<1>5. Playback(Consolidation, log) =
        [cache |-> cache, at |-> write_address, done |-> TRUE, failed |-> FALSE]
  BY <1>1, <1>2, <1>4, <1>3, ReachedStops
<1> QED
  BY <1>5 DEF Stored, Consolidation

\* In the middle of a write, the data with the first bytes of it.
LEMMA StoredIsPartly ==
  ASSUME TypeInv, InBounds, Sound, RestoreInv, pc = "append"
  PROVE  \E n \in Addresses : Stored.cache = Mix(before, cache, region, n)
<1>1. log \in Logs /\ Consolidation \in Blocks
  BY ConsolidatedType DEF TypeInv, Consolidation
<1>2. write_address \in Slots /\ log[write_address] = Erased
  <2>1. \A n \in Slots : n >= n
    BY DEF Slots
  <2>2. write_address \in Slots /\ ~astray
    BY Sizes DEF InBounds, TypeInv, RestoreInv, Slots
  <2> QED
    BY <2>1, <2>2 DEF Sound, StoreInv, AppendInv, ErasedFrom
<1>3. PICK w \in Writes : \E i \in 0 .. Len(w.value) - 1 :
        Reached(Consolidation, log, write_address, Mix(before, cache, region, w.address + i))
  BY DEF RestoreInv, WriteInv
<1>4. PICK i \in 0 .. Len(w.value) - 1 :
        Reached(Consolidation, log, write_address, Mix(before, cache, region, w.address + i))
  BY <1>3
<1> DEFINE c == Mix(before, cache, region, w.address + i)
<1>5. Playback(Consolidation, log) =
        [cache |-> c, at |-> write_address, done |-> TRUE, failed |-> FALSE]
  <2>1. Reached(Consolidation, log, write_address, c)
    BY <1>4
  <2> HIDE DEF c
  <2> QED
    BY <1>1, <1>2, <2>1, ReachedStops
<1>6. Stored.cache = c
  <2> HIDE DEF c
  <2> QED
    BY <1>5 DEF Stored, Consolidation
<1>7. w.address + i \in Addresses
  <2>1. /\ Len(w.value) \in Nat \ {0} /\ w.address \in Nat
        /\ w.address + Len(w.value) <= LOGICAL_SIZE /\ LOGICAL_SIZE \in Nat
    BY WriteTypes, WearLevelingAssumption
  <2> QED
    BY <2>1 DEF Addresses
<1> QED
  BY <1>6, <1>7

\* The data behind an erased log are what has been consolidated.
LEMMA StoredIsConsolidation ==
  ASSUME NEW d \in Blocks, NEW l \in Logs, ErasedFrom(l, 0)
  PROVE  Playback(d, l).cache = d
<1>1. 0 \in Slots /\ l[0] = Erased
  BY Sizes DEF Slots, ErasedFrom
<1>2. Reached(d, l, 0, d)
  BY ReachedFirst
<1>3. Playback(d, l) = [cache |-> d, at |-> 0, done |-> TRUE, failed |-> FALSE]
  BY <1>1, <1>2, ReachedStops
<1> QED
  BY <1>3

\* While everything is rewritten, erased data or those in the cache.
LEMMA StoredWhileRewriting ==
  ASSUME TypeInv, Sound, pc \in {"unlock", "data", "sum"}
  PROVE  Blends(Stored.cache, before, cache)
<1>1. log \in Logs /\ Consolidation \in Blocks
  BY ConsolidatedType DEF TypeInv, Consolidation
<1>2. ErasedFrom(log, 0) /\ con \in {Blank, cache}
  BY DEF Sound, StoreInv
<1>3. Stored.cache = Consolidation
  BY <1>1, <1>2, StoredIsConsolidation DEF Stored, Consolidation
<1>4. Consolidation \in {Blank, cache}
  BY <1>2 DEF Consolidation, read_consolidated
<1>5. \A a \in Addresses : Blank[a] = 0
  BY DEF Blank
<1> QED
  BY <1>3, <1>4, <1>5 DEF Blends

\* An erase that is cut short leaves each byte what it was, what it should have become,
\* or zero.
LEMMA EraseBlends ==
  ASSUME TypeInv, RestoreInv, pc = "erase", PartlyErase, SECTOR \in {0, LOG_SLOTS}
  PROVE  Blends(Stored'.cache, before, cache)
<1>1. log \in Logs /\ Consolidation \in Blocks
  BY ConsolidatedType DEF TypeInv, Consolidation
<1>2. Blends(Stored.cache, before, cache)
  BY DEF RestoreInv
<1>3. Stored' = Playback(read_consolidated(con', sum'), log')
  BY DEF Stored
<1>4. CASE UNCHANGED store
  <2>1. Stored' = Stored
    BY <1>3, <1>4 DEF store, Stored
  <2> QED
    BY <1>2, <2>1
<1>5. CASE con' = Blank /\ ErasedFrom(log', 0) /\ log' \in Logs
  <2>1. Stored' = Playback(Blank, log')
    BY <1>3, <1>5 DEF read_consolidated
  <2>2. Stored'.cache = Blank
    BY <1>5, <2>1, BlankType, StoredIsConsolidation
  <2>3. \A a \in Addresses : Blank[a] = 0
    BY DEF Blank
  <2> QED
    BY <2>2, <2>3 DEF Blends
<1>6. CASE con' = Blank /\ log' = log
  <2>1. Stored' = Playback(Blank, log)
    BY <1>3, <1>6 DEF read_consolidated
  <2>2. \A a \in Addresses : Playback(Blank, log).cache[a] \in {0, Stored.cache[a]}
    BY <1>1, PlaybackOnBlank DEF Stored, Consolidation
  <2> QED
    BY <1>2, <2>1, <2>2 DEF Blends
<1>7. \/ UNCHANGED store
      \/ con' = Blank /\ ErasedFrom(log', 0) /\ log' \in Logs
      \/ con' = Blank /\ log' = log
  <2>1. log' \in Logs
    BY EraseTypes
  <2>2. CASE Erase
    BY <2>1, <2>2 DEF Erase, ErasedLog, ErasedFrom
  <2>3. CASE /\ con' = Blank
             /\ log' = [i \in Slots |-> IF i < SECTOR THEN Erased ELSE log[i]]
    <3>1. CASE SECTOR = 0
      <4>1. \A i \in Slots : ~(i < SECTOR)
        BY <3>1 DEF Slots
      <4>2. log' = log
        BY <1>1, <2>3, <4>1 DEF Logs
      <4> QED
        BY <2>3, <4>2
    <3>2. CASE SECTOR = LOG_SLOTS
      <4>1. \A i \in Slots : i < SECTOR
        BY <3>2, Sizes DEF Slots
      <4>2. ErasedFrom(log', 0)
        BY <2>3, <4>1 DEF ErasedFrom
      <4> QED
        BY <2>1, <2>3, <4>2
    <3> QED
      BY <3>1, <3>2
  <2> QED
    BY <2>2, <2>3 DEF PartlyErase
<1> QED
  BY <1>4, <1>5, <1>6, <1>7

\* A write that starts.
LEMMA WriteRestores ==
  ASSUME TypeInv, Sound, RestoreInv, OneWordEntries, NEW w \in Writes, wear_leveling_write(w)
  PROVE  RestoreInv'
<1> DEFINE r == w.address .. w.address + Len(w.value) - 1
<1>1. /\ pc = "idle" /\ pc' = "append" /\ todo' = write_raw(w) /\ before' = cache
      /\ cache' = Overlay(cache, w.address, w.value) /\ region' = r
      /\ status' = "SUCCESS" /\ ~impaired /\ impaired' = impaired /\ ~astray
      /\ UNCHANGED <<con, sum, log, astray, write_address>>
  BY DEF wear_leveling_write, StartWrite, store, RestoreInv
<1>2. Consolidation' = Consolidation /\ cache \in Blocks
  BY <1>1 DEF Consolidation, TypeInv
<1>3. Reached(Consolidation, log, write_address, cache)
  BY <1>1 DEF Sound, CleanInv
<1>4. PICK f : IsEncoding(f, w, 0) /\ write_raw(w) = f[0]
  BY EncodingIs
<1>5. Len(w.value) \in Nat \ {0} /\ w.address \in Nat
  BY WriteTypes
<1>6. Mix(cache, cache', r, w.address + 0) = cache
  <2>1. \A a \in Addresses : ~(a \in r /\ a < w.address + 0)
    BY <1>5, WearLevelingAssumption DEF Addresses
  <2> HIDE DEF r
  <2> QED
    BY <1>2, <2>1 DEF Mix, Blocks
<1>7. 0 \in 0 .. Len(w.value) - 1
  BY <1>5
<1>8. WriteInv'
  <2>1. /\ todo' = f[0] /\ cache' = Overlay(before', w.address, w.value) /\ region' = r
    BY <1>1, <1>4
  <2>2. Reached(Consolidation', log', write_address', Mix(before', cache', region', w.address + 0))
    BY <1>1, <1>2, <1>3, <1>6
  <2> QED
    BY <1>4, <1>7, <2>1, <2>2 DEF WriteInv
<1>9. \A j \in 1 .. Len(todo') : Type(todo'[j]) # "MULTIBYTE"
  BY <1>1 DEF OneWordEntries
<1> QED
  BY <1>1, <1>8, <1>9 DEF RestoreInv

\* Every step leaves the backing store with data that Eeprom allows.
LEMMA StepRestores ==
  ASSUME PlainStore, OneWordEntries, Shape, Sound, RestoreInv, [Next]_vars
  PROVE  RestoreInv'
<1>0. /\ TypeInv /\ Control /\ InBounds /\ ~impaired /\ ~astray /\ status # "FAILED" /\ Failing = {}
      /\ SECTOR \in {0, LOG_SLOTS}
  BY DEF Shape, RestoreInv, PlainStore
<1>25. ASSUME NEW call PROVE ~Fails(call)
  BY <1>0 DEF Fails
<1>1. CASE wear_leveling_init
  <2>1. /\ pc' \in {"idle", "erase"} /\ ~impaired' /\ status' = "SUCCESS"
        /\ cache' = Stored.cache /\ UNCHANGED <<con, sum, log, astray>>
    BY <1>1 DEF wear_leveling_init, Start, store
  <2>2. Stored' = Stored
    BY <2>1 DEF Stored
  <2>3. Blends(Stored'.cache, before', cache')
    BY <2>1, <2>2 DEF Blends
  <2> QED
    BY <1>0, <2>1, <2>3 DEF RestoreInv
<1>2. CASE init_ChecksumUnread \/ init_Fails \/ \E n \in Slots : init_ReadFails(n)
  BY <1>2, <1>25 DEF init_ChecksumUnread, init_Fails, init_ReadFails
<1>3. ASSUME NEW w \in Writes, write_Skipped(w)
      PROVE  RestoreInv'
  BY <1>0, <1>3 DEF write_Skipped, RestoreInv
<1>4. ASSUME NEW w \in Writes, wear_leveling_write(w)
      PROVE  RestoreInv'
  BY <1>0, <1>4, WriteRestores
<1>5. ASSUME NEW w \in Writes, write_UnlockFails(w)
      PROVE  RestoreInv'
  BY <1>5, <1>25 DEF write_UnlockFails
<1>6. CASE append_raw
  BY <1>0, <1>6, AppendRestores
<1>7. CASE \/ append_Fails \/ consolidate_EraseFails \/ write_consolidated_UnlockFails
           \/ write_consolidated_Fails \/ erase_UnlockFails \/ lock_Fails
  BY <1>7, <1>25 DEF append_Fails, consolidate_EraseFails, write_consolidated_UnlockFails,
     write_consolidated_Fails, erase_UnlockFails, lock_Fails
<1>8. CASE consolidate_Erase \/ write_consolidated_Unlock \/ write_consolidated_Data
  BY <1>0, <1>8 DEF consolidate_Erase, write_consolidated_Unlock, write_consolidated_Data, RestoreInv
<1>9. CASE write_consolidated_Sum
  BY <1>0, <1>9 DEF write_consolidated_Sum, Consolidated, RestoreInv
<1>10. CASE wear_leveling_erase
  <2>1. /\ pc = "idle" /\ pc' = "erase" /\ ~impaired' /\ status' = "SUCCESS" /\ cache' = cache
        /\ UNCHANGED <<con, sum, log, astray>>
    BY <1>0, <1>10 DEF wear_leveling_erase, StartErase, store
  <2>2. Stored' = Stored
    BY <2>1 DEF Stored
  <2>3. Stored.cache = cache
    BY <1>0, <2>1, StoredIsCache
  <2>4. Blends(Stored'.cache, before', cache')
    BY <2>1, <2>2, <2>3 DEF Blends
  <2> QED
    BY <1>0, <2>1, <2>4 DEF RestoreInv
<1>11. CASE erase_Erase
  BY <1>0, <1>11, <1>25 DEF erase_Erase, RestoreInv
<1>12. CASE lock
  BY <1>0, <1>12 DEF lock, RestoreInv
<1>13. CASE PowerLoss
  <2>1. pc' = "off" /\ ~impaired' /\ ~astray' /\ status' = "SUCCESS"
        /\ restart' = Stored'.cache
    BY <1>0, <1>13 DEF PowerLoss, StillAstray, StoredThen, Stored
  <2> QED
    BY <2>1 DEF RestoreInv
<1>14. CASE UNCHANGED vars
  <2>1. UNCHANGED <<con, sum, log, cache, write_address, pc, todo, status, impaired,
                    astray, before, region, restart>>
    BY <1>14 DEF vars
  <2>2. Consolidation' = Consolidation /\ Stored' = Stored
    BY <2>1 DEF Consolidation, Stored
  <2>3. WriteInv' = WriteInv
    BY <2>1, <2>2 DEF WriteInv
  <2> QED
    BY <2>1, <2>2, <2>3 DEF RestoreInv
<1> QED
  BY <1>1, <1>2, <1>3, <1>4, <1>5, <1>6, <1>7, <1>8, <1>9, <1>10, <1>11, <1>12, <1>13, <1>14
  DEF Next

\* The device starts as the byte array does.
LEMMA InitSimulates == Init => RestoreInv /\ EepromSpec!Init
<1> SUFFICES ASSUME Init PROVE RestoreInv /\ EepromSpec!Init
  OBVIOUS
<1>1. /\ pc = "off" /\ restart = Blank /\ ~impaired /\ ~astray /\ status = "SUCCESS" /\ before = Blank
      /\ region = {} /\ con = Blank /\ log = [i \in Slots |-> Erased]
  BY DEF Init
<1>2. log \in Logs /\ ErasedFrom(log, 0)
  BY <1>1, ErasedType DEF Logs, ErasedFrom
<1>3. Stored.cache = Blank
  BY <1>1, <1>2, BlankType, StoredIsConsolidation DEF Stored, read_consolidated
<1>4. RestoreInv
  BY <1>1, <1>3 DEF RestoreInv
<1>5. EepromSpec!Init
  BY <1>1 DEF EepromSpec!Init, EepromSpec!Blank, Blank, Phase
<1> QED
  BY <1>4, <1>5

\* Power goes.
LEMMA PowerLossSimulates ==
  ASSUME PlainStore, TypeInv, InBounds, Sound, RestoreInv, PowerLoss
  PROVE  EepromSpec!PowerLoss
<1>1. /\ pc # "off" /\ pc' = "off" /\ restart' = Stored'.cache
      /\ before' = before /\ region' = region
      /\ IF pc = "erase" THEN PartlyErase ELSE UNCHANGED <<con, sum, log>>
      /\ SECTOR \in {0, LOG_SLOTS} /\ ~impaired /\ ~astray /\ status # "FAILED"
  BY DEF PowerLoss, store, history, Stored, StoredThen, PlainStore, RestoreInv
<1>2. pc # "erase" => Stored' = Stored
  BY <1>1 DEF Stored
<1>3. Phase' = "off"
  BY <1>1 DEF Phase
<1>4. CASE pc \in {"idle", "lock"}
  <2>1. Phase = "idle"
    BY <1>4 DEF Phase
  <2>2. restart' = cache
    BY <1>1, <1>2, <1>4, StoredIsCache
  <2> QED
    BY <1>1, <1>3, <2>1, <2>2 DEF EepromSpec!PowerLoss
<1>5. CASE pc = "append"
  <2>1. Phase = "writing"
    BY <1>5 DEF Phase
  <2>2. PICK n \in Addresses : Stored.cache = Mix(before, cache, region, n)
    BY <1>5, StoredIsPartly
  <2>3. EepromSpec!Torn(n) = Mix(before, cache, region, n)
    BY <1>1 DEF EepromSpec!Torn, Mix
  <2>4. restart' = EepromSpec!Torn(n)
    BY <1>1, <1>2, <1>5, <2>2, <2>3
  <2> QED
    BY <1>1, <1>3, <2>1, <2>4 DEF EepromSpec!PowerLoss
<1>6. CASE pc \in {"erase", "unlock", "data", "sum"}
  <2>1. Phase \in {"erasing", "rewriting"}
    BY <1>6 DEF Phase
  <2>2. Blends(Stored'.cache, before, cache)
    BY <1>1, <1>2, <1>6, EraseBlends, StoredWhileRewriting
  <2>3. \A a \in Addresses : restart'[a] \in {0, before[a], cache[a]}
    BY <1>1, <2>2 DEF Blends
  <2> QED
    BY <1>1, <1>3, <2>1, <2>3 DEF EepromSpec!PowerLoss
<1> QED
  BY <1>1, <1>4, <1>5, <1>6 DEF TypeInv

\* Every step is one of the byte array or a stutter.
LEMMA StepSimulates ==
  ASSUME PlainStore, Shape, Sound, RestoreInv, [Next]_vars
  PROVE  [EepromSpec!Next]_(EepromSpec!vars)
<1>0. /\ TypeInv /\ InBounds /\ ~impaired /\ status # "FAILED" /\ Failing = {}
  BY DEF Shape, RestoreInv, PlainStore
<1>15. ASSUME NEW call PROVE ~Fails(call)
  BY <1>0 DEF Fails
<1>1. CASE wear_leveling_init
  <2>1. /\ pc = "off" /\ cache' = Stored.cache /\ before' = Stored.cache /\ region' = {}
        /\ caller' = "init" /\ pc' \in {"idle", "erase"}
    BY <1>1 DEF wear_leveling_init, Start
  <2>2. restart = Stored.cache
    BY <2>1 DEF RestoreInv
  <2>3. Phase = "off" /\ Phase' \in {"idle", "rewriting"}
    BY <2>1 DEF Phase
  <2> QED
    BY <2>1, <2>2, <2>3 DEF EepromSpec!Next, EepromSpec!Start
<1>2. CASE init_ChecksumUnread \/ init_Fails \/ \E n \in Slots : init_ReadFails(n)
  BY <1>2, <1>15 DEF init_ChecksumUnread, init_Fails, init_ReadFails
<1>3. ASSUME NEW w \in Writes, write_Skipped(w) \/ wear_leveling_write(w)
      PROVE  EepromSpec!Write
  <2> DEFINE r == w.address .. w.address + Len(w.value) - 1
  <2>1. /\ pc = "idle" /\ pc' \in {"idle", "append"} /\ before' = cache /\ region' = r
        /\ cache' = Overlay(cache, w.address, w.value)
        /\ pc' = "idle" => cache' = cache
    BY <1>3 DEF write_Skipped, Unchanged, wear_leveling_write, StartWrite
  <2>2. Phase = "idle" /\ Phase' \in {"idle", "writing"} /\ (Phase' = "idle" => pc' = "idle")
    BY <2>1 DEF Phase
  <2>3. r \in SUBSET Addresses
    BY <1>0, WriteBlock
  <2>4. ASSUME NEW a \in Addresses
        PROVE  cache'[a] \in (IF a \in r THEN Bytes ELSE {cache[a]})
    <3>1. cache'[a] = IF a \in r THEN w.value[a - w.address + 1] ELSE cache[a]
      BY <2>1 DEF Overlay
    <3>2. CASE a \in r
      <4>1. w.value \in Seq(Bytes) /\ w.address \in Nat
        BY WearLevelingAssumption, WriteTypes
      <4>2. Len(w.value) \in Nat
        BY WriteTypes
      <4>3. a - w.address + 1 \in 1 .. Len(w.value)
        BY <3>2, <4>1, <4>2
      <4>4. w.value[a - w.address + 1] \in Bytes
        BY <4>1, <4>3, ElementOfSeq
      <4> QED
        BY <3>1, <3>2, <4>4
    <3> HIDE DEF r
    <3>3. CASE a \notin r
      BY <3>1, <3>3
    <3> QED
      BY <3>2, <3>3
  <2> HIDE DEF r
  <2>5. pc' # "off"
    BY <2>1
  <2> QED
    BY <2>1, <2>2, <2>3, <2>4, <2>5 DEF EepromSpec!Write
<1>4. ASSUME NEW w \in Writes, write_UnlockFails(w)
      PROVE  FALSE
  BY <1>4, <1>15 DEF write_UnlockFails
<1>5. CASE append_raw
  <2>1. /\ pc = "append" /\ pc' \in {"append", "lock", "erase"} /\ cache' = cache
        /\ before' = before /\ region' = region /\ caller' = caller /\ caller = "write"
    BY <1>5 DEF append_raw, history, Shape, Control
  <2>2. /\ Phase = "writing"
        /\ Phase' = IF pc' = "append" THEN "writing" ELSE IF pc' = "lock" THEN "idle" ELSE "rewriting"
    BY <2>1 DEF Phase
  <2> QED
    BY <2>1, <2>2 DEF EepromSpec!Next, EepromSpec!Done, EepromSpec!Rewrite, EepromSpec!vars
<1>6. CASE \/ append_Fails \/ consolidate_EraseFails \/ write_consolidated_UnlockFails
           \/ write_consolidated_Fails \/ erase_UnlockFails \/ lock_Fails
  BY <1>6, <1>15 DEF append_Fails, consolidate_EraseFails, write_consolidated_UnlockFails,
     write_consolidated_Fails, erase_UnlockFails, lock_Fails
<1>7. CASE consolidate_Erase \/ write_consolidated_Unlock \/ write_consolidated_Data
  <2>1. /\ (pc = "erase" /\ caller # "erase") \/ pc \in {"unlock", "data"}
        /\ pc' \in {"unlock", "data", "sum"} /\ cache' = cache
        /\ before' = before /\ region' = region
    BY <1>7 DEF consolidate_Erase, write_consolidated_Unlock, write_consolidated_Data, history
  <2>2. Phase = "rewriting" /\ Phase' = "rewriting"
    BY <2>1 DEF Phase
  <2>3. pc # "off" /\ pc' # "off"
    BY <2>1
  <2> QED
    BY <2>1, <2>2, <2>3 DEF EepromSpec!vars
<1>8. CASE write_consolidated_Sum
  <2>1. /\ pc = "sum" /\ pc' \in {"idle", "lock"} /\ cache' = cache
        /\ before' = before /\ region' = region
    BY <1>8 DEF write_consolidated_Sum, Consolidated, history
  <2>2. Phase = "rewriting" /\ Phase' = "idle"
    BY <2>1 DEF Phase
  <2> QED
    BY <2>1, <2>2 DEF EepromSpec!Next, EepromSpec!Done
<1>9. CASE wear_leveling_erase
  <2>1. /\ pc = "idle" /\ pc' = "erase" /\ caller' = "erase" /\ cache' = cache
        /\ before' = cache /\ region' = Addresses
    BY <1>9 DEF wear_leveling_erase, StartErase
  <2>2. Phase = "idle" /\ Phase' = "erasing"
    BY <2>1 DEF Phase
  <2> QED
    BY <2>1, <2>2 DEF EepromSpec!Next, EepromSpec!StartErase
<1>10. CASE erase_Erase
  <2>1. /\ pc = "erase" /\ caller = "erase" /\ pc' = "lock" /\ cache' = Blank
        /\ before' = before /\ region' = region
    BY <1>10 DEF erase_Erase, history
  <2>2. Phase = "erasing" /\ Phase' = "idle"
    BY <2>1 DEF Phase
  <2> QED
    BY <2>1, <2>2 DEF EepromSpec!Next, EepromSpec!Erase, EepromSpec!Blank, Blank
<1>11. CASE lock
  <2>1. /\ pc = "lock" /\ pc' = "idle" /\ cache' = cache /\ before' = before /\ region' = region
    BY <1>11 DEF lock, history
  <2>2. Phase = "idle" /\ Phase' = "idle"
    BY <2>1 DEF Phase
  <2> QED
    BY <2>1, <2>2 DEF EepromSpec!vars
<1>12. CASE PowerLoss
  BY <1>0, <1>12, PowerLossSimulates DEF EepromSpec!Next
<1>13. CASE UNCHANGED vars
  <2>1. UNCHANGED <<pc, caller, cache, before, region, restart>>
    BY <1>13 DEF vars
  <2> QED
    BY <2>1 DEF EepromSpec!vars, Phase
<1>14. \/ Next
       \/ UNCHANGED vars
  OBVIOUS
<1> QED
  BY <1>1, <1>2, <1>3, <1>4, <1>5, <1>6, <1>7, <1>8, <1>9, <1>10, <1>11, <1>12, <1>13, <1>14
  DEF Next, EepromSpec!Next

\* wear_leveling.c keeps what Eeprom promises, for every size of the data and of the log and
\* any losses of power: reads, and what start-up restores, are those of a byte array.  The
\* hypotheses: the backing store works, an interrupted erase has erased nothing or all of
\* the log, and every log entry is one word (a torn one of several words is none, see
\* TornIsPrefix).
THEOREM Implements == ASSUME PlainStore, OneWordEntries PROVE Spec => ImplementsEeprom
<1>1. Init => RestoreInv /\ EepromSpec!Init
  BY InitSimulates
<1>2. Shape /\ Sound /\ RestoreInv /\ [Next]_vars => RestoreInv'
  BY StepRestores
<1>3. Shape /\ Sound /\ RestoreInv /\ [Next]_vars => [EepromSpec!Next]_(EepromSpec!vars)
  BY StepSimulates
<1>4. Spec => [](Shape /\ Sound)
  <2>1. WholeErases
    BY DEF PlainStore, WholeErases
  <2> QED
    BY <2>1, SoundInvariance
<1> QED
  BY <1>1, <1>2, <1>3, <1>4, PTL DEF Spec, ImplementsEeprom, EepromSpec!Spec
=============================================================================
