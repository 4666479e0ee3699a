--------------------------- MODULE AuditLogProofs ---------------------------
(***************************************************************************)
(* Theorems about AuditLog, for any number of writers and of calls and any *)
(* limit on what one read takes in: every record that returned is found    *)
(* again but for one after each torn line and what is beyond the limit, a  *)
(* file nobody touched verifies up to the limit unless two records         *)
(* overlapped, and one that was tampered with does not unless entries are  *)
(* only missing from its end.                                              *)
(***************************************************************************)
EXTENDS AuditLog, FiniteSetTheorems, SequenceTheorems, WellFoundedInduction, TLAPS

USE LineAssumption

-----------------------------------------------------------------------------
(* Least and greatest elements: the library's one theorem of this kind that *)
(* takes a set, and not an operator, is about well-founded relations.       *)

LEMMA Least ==
  ASSUME NEW S \in SUBSET Nat, S # {}
  PROVE  \E x \in S : \A y \in S : x <= y
<1>1. PICK x \in S : \A y \in S : ~ (<<y, x>> \in OpToRel(<, Nat))
  BY NatLessThanWellFounded, WFMin
<1>2. ASSUME NEW y \in S PROVE x <= y
  <2>1. y \in Nat /\ x \in Nat
    OBVIOUS
  <2>2. ~(y < x)
    BY <1>1, <2>1 DEF OpToRel
  <2>3. QED
    BY <2>1, <2>2
<1>3. QED
  BY <1>2

LEMMA Greatest ==
  ASSUME NEW n \in Nat, NEW S \in SUBSET (1..n), S # {}
  PROVE  /\ Max(S) \in S
         /\ \A y \in S : y <= Max(S)
<1> DEFINE T == {n - x : x \in S}
<1>0. \A x \in S : x \in Nat /\ n - x \in Nat
  OBVIOUS
<1>1. T \in SUBSET Nat /\ T # {}
  BY <1>0
<1>2. PICK t \in T : \A u \in T : t <= u
  BY <1>1, Least
<1>3. PICK x \in S : t = n - x
  OBVIOUS
<1>4. ASSUME NEW y \in S PROVE x >= y
  <2>1. n - y \in T
    OBVIOUS
  <2>2. n - x <= n - y /\ x \in Nat /\ y \in Nat
    BY <1>0, <1>2, <1>3, <2>1
  <2>3. QED
    BY <2>2
<1>5. QED
  BY <1>4 DEF Max

-----------------------------------------------------------------------------
(* The file. *)

Line == Record \cup {Partial, Garbage}

LEMMA EntryIsRecord ==
  ASSUME NEW id \in 1..MaxCalls, NEW outcome \in Outcome, NEW prev \in Hashes
  PROVE  /\ Entry(id, outcome, prev) \in Record
         /\ IsEntry(Entry(id, outcome, prev))
         /\ HashIsRight(Entry(id, outcome, prev))
         /\ Entry(id, outcome, prev).id = id
         /\ Entry(id, outcome, prev).prev = prev
         /\ Entry(id, outcome, prev).hash = HashOf(id, outcome, prev)
<1>1. HashOf(id, outcome, prev) \in Hashes
  <2>1. <<id, outcome>> \in Said
    BY DEF Said
  <2>2. QED
    BY <2>1, AppendProperties DEF HashOf, Hashes
<1>2. Entry(id, outcome, prev) \in Record
  BY <1>1 DEF Entry, Record
<1>3. QED
  BY <1>2 DEF Entry, IsEntry, HashIsRight

(* Of two equal hashes of entries, the calls are the same.                  *)
LEMMA HashTellsCall ==
  ASSUME NEW i \in 1..MaxCalls, NEW o \in Outcome, NEW p \in Hashes,
         NEW j \in 1..MaxCalls, NEW q \in Outcome, NEW r \in Hashes
  PROVE  /\ HashOf(i, o, p) # Genesis
         /\ HashOf(i, o, p) = HashOf(j, q, r) => i = j /\ o = q /\ p = r
<1>1. <<i, o>> \in Said /\ <<j, q>> \in Said
  BY DEF Said
<1>2. Append(p, <<i, o>>) = Append(r, <<j, q>>) => p = r /\ <<i, o>> = <<j, q>>
  BY <1>1, AppendProperties, AppendInjective DEF Hashes
<1>3. Append(p, <<i, o>>) # <<>>
  BY <1>1, AppendProperties DEF Hashes
<1>4. QED
  BY <1>2, <1>3 DEF HashOf, Genesis

LEMMA EntriesAre ==
  ASSUME NEW lines \in Seq(Line)
  PROVE  /\ Entries(lines) \in SUBSET (1..Len(lines))
         /\ \A i \in Entries(lines) : lines[i] \in Record
<1>1. DOMAIN lines = 1..Len(lines) /\ \A i \in 1..Len(lines) : lines[i] \in Line
  BY ElementOfSeq, LenProperties
<1>2. QED
  BY <1>1 DEF Entries, IsEntry, Line

LEMMA NewestHashIs ==
  ASSUME NEW lines \in Seq(Line), NEW some \in SUBSET Entries(lines)
  PROVE  /\ NewestHash(lines, some) \in Hashes
         /\ \/ some = {} /\ NewestHash(lines, some) = Genesis
            \/ \E m \in some : /\ \A j \in some : j <= m
                               /\ NewestHash(lines, some) = lines[m].hash
<1>1. CASE some = {}
  <2>1. Genesis \in Hashes
    BY DEF Genesis, Hashes
  <2>2. QED
    BY <1>1, <2>1 DEF NewestHash
<1>2. CASE some # {}
  <2>1. some \in SUBSET (1..Len(lines)) /\ Len(lines) \in Nat
    BY EntriesAre, LenProperties
  <2>2. Max(some) \in some /\ \A j \in some : j <= Max(some)
    BY <1>2, <2>1, Greatest
  <2>3. lines[Max(some)].hash \in Hashes
    BY <2>2, EntriesAre DEF Record
  <2>4. QED
    BY <1>2, <2>2, <2>3 DEF NewestHash
<1>3. QED
  BY <1>1, <1>2

(* Whose hash is the newest depends on the entries only.                    *)
LEMMA NewestHashKept ==
  ASSUME NEW lines \in Seq(Line), NEW others \in Seq(Line),
         NEW some \in SUBSET Entries(lines),
         \A i \in some : others[i] = lines[i]
  PROVE  NewestHash(others, some) = NewestHash(lines, some)
<1>1. CASE some = {}
  BY <1>1 DEF NewestHash
<1>2. CASE some # {}
  <2>1. some \in SUBSET (1..Len(lines)) /\ Len(lines) \in Nat
    BY EntriesAre, LenProperties
  <2>2. Max(some) \in some
    BY <1>2, <2>1, Greatest
  <2>3. QED
    BY <1>2, <2>2 DEF NewestHash
<1>3. QED
  BY <1>1, <1>2

(* What a write does to the file: a line of its own, or the end of one that *)
(* was cut short.                                                           *)
LEMMA AppendedIs ==
  ASSUME NEW lines \in Seq(Line), NEW line \in Record \cup {Partial}
  PROVE  /\ Appended(lines, line) \in Seq(Line)
         /\ \/ /\ Len(Appended(lines, line)) = Len(lines) + 1
               /\ \A i \in 1..Len(lines) : Appended(lines, line)[i] = lines[i]
               /\ Appended(lines, line)[Len(lines) + 1] = line
            \/ /\ Len(lines) > 0 /\ lines[Len(lines)] = Partial
               /\ Len(Appended(lines, line)) = Len(lines)
               /\ \A i \in 1..Len(lines) - 1 : Appended(lines, line)[i] = lines[i]
               /\ Appended(lines, line)[Len(lines)]
                    = IF line = Partial THEN Partial ELSE Garbage
<1>1. line \in Line /\ Len(lines) \in Nat
  BY LenProperties DEF Line
<1>2. CASE lines # <<>> /\ Last(lines) = Partial
  <2> DEFINE end == IF line = Partial THEN Partial ELSE Garbage
  <2>1. Len(lines) > 0 /\ lines[Len(lines)] = Partial
    BY <1>2, EmptySeq, LenProperties DEF Last
  <2>2. Appended(lines, line) = [lines EXCEPT ![Len(lines)] = end]
    BY <1>2 DEF Appended
  <2>3. end \in Line
    BY DEF Line
  <2> HIDE DEF end
  <2>4. /\ Appended(lines, line) \in Seq(Line)
        /\ Len(Appended(lines, line)) = Len(lines)
        /\ \A i \in 1..Len(lines) - 1 : Appended(lines, line)[i] = lines[i]
        /\ Appended(lines, line)[Len(lines)] = end
    BY <1>1, <2>1, <2>2, <2>3, ExceptSeq, LenProperties
  <2>5. QED
    BY <2>1, <2>4 DEF end
<1>3. CASE ~(lines # <<>> /\ Last(lines) = Partial)
  <2>1. Appended(lines, line) = Append(lines, line)
    BY <1>3 DEF Appended
  <2>2. QED
    BY <1>1, <2>1, AppendProperties
<1>4. QED
  BY <1>2, <1>3

-----------------------------------------------------------------------------
(* The inductive invariant. *)

Due == [id : 1..MaxCalls, outcome : Outcome]

(* The calls that nobody has yet to record. *)
Finished == {n \in 1..calls : \A w \in Writer : due[w] # NoCall => due[w].id # n}

LogTyped ==
  /\ file \in Seq(Line)
  /\ due \in [Writer -> Due \cup {NoCall}]
  /\ tail \in [Writer -> Hashes \cup {NoTail}]
  /\ calls \in 0..MaxCalls
  /\ overlapped \in BOOLEAN

(* A hash is read for a call, each writer has a call of its own, and those   *)
(* that are recorded or in the file are finished.                           *)
EachItsOwn ==
  /\ \A w \in Writer : tail[w] # NoTail => due[w] # NoCall
  /\ \A w \in Writer : due[w] # NoCall => due[w].id \in 1..calls
  /\ \A v, w \in Writer :
       v # w /\ due[v] # NoCall /\ due[w] # NoCall => due[v].id # due[w].id
  /\ recorded \subseteq Finished
  /\ \A i \in Entries(file) : file[i].id \in Finished
  /\ \A i, j \in Entries(file) : i # j => file[i].id # file[j].id

(* What is recorded and not in the file was lost to a torn line.             *)
Garbled(lines) == {i \in DOMAIN lines : lines[i] = Garbage}

Lost == recorded \ {file[i].id : i \in Entries(file)}

LossesCounted == Cardinality(Lost) <= Cardinality(Garbled(file))

(* The entries follow one another, and one writer at most is about to write  *)
(* on the last of them.                                                     *)
Chained ==
  /\ \A i \in Entries(file) : HashIsRight(file[i])
  /\ ~overlapped =>
       /\ \A i \in Entries(file) :
            file[i].prev = NewestHash(file, {j \in Entries(file) : j < i})
       /\ \A v, w \in Writer : tail[v] # NoTail /\ tail[w] # NoTail => v = w
       /\ \A w \in Writer : tail[w] # NoTail => tail[w] = LastHash(file)

LogInv == LogTyped /\ EachItsOwn /\ LossesCounted /\ Chained

(* What a write makes of entries and garbled lines.                         *)
LEMMA WhatIsAppended ==
  ASSUME NEW lines \in Seq(Line), NEW line \in Record \cup {Partial},
         NEW new, new = Appended(lines, line)
  PROVE  /\ new \in Seq(Line) /\ Len(new) <= Len(lines) + 1
         /\ \A i \in Entries(lines) : new[i] = lines[i]
         /\ \/ /\ line = Partial
               /\ Entries(new) = Entries(lines) /\ Garbled(new) = Garbled(lines)
            \/ /\ line \in Record /\ new[Len(lines) + 1] = line
               /\ Entries(new) = Entries(lines) \cup {Len(lines) + 1}
               /\ Garbled(new) = Garbled(lines)
            \/ /\ line \in Record
               /\ Entries(new) = Entries(lines)
               /\ Garbled(new) = Garbled(lines) \cup {Len(lines)}
               /\ Len(lines) \notin Garbled(lines)
<1>1. /\ new \in Seq(Line)
      /\ Len(lines) \in Nat /\ DOMAIN lines = 1..Len(lines)
      /\ Len(new) \in Nat /\ DOMAIN new = 1..Len(new)
      /\ Entries(lines) \in SUBSET (1..Len(lines))
  BY AppendedIs, LenProperties, EntriesAre
<1>2. CASE /\ Len(new) = Len(lines) + 1
           /\ \A i \in 1..Len(lines) : new[i] = lines[i]
           /\ new[Len(lines) + 1] = line
  <2>1. DOMAIN new = DOMAIN lines \cup {Len(lines) + 1}
    BY <1>1, <1>2
  <2>2. CASE line = Partial
    <3>1. Entries(new) = Entries(lines) /\ Garbled(new) = Garbled(lines)
      BY <1>1, <1>2, <2>1, <2>2 DEF Entries, Garbled, IsEntry
    <3>2. QED
      BY <1>1, <1>2, <2>2, <3>1
  <2>3. CASE line \in Record
    <3>1. /\ Entries(new) = Entries(lines) \cup {Len(lines) + 1}
          /\ Garbled(new) = Garbled(lines)
      BY <1>1, <1>2, <2>1, <2>3 DEF Entries, Garbled, IsEntry
    <3>2. QED
      BY <1>1, <1>2, <2>3, <3>1
  <2>4. QED
    BY <2>2, <2>3
<1>3. CASE /\ Len(lines) > 0 /\ lines[Len(lines)] = Partial
           /\ Len(new) = Len(lines)
           /\ \A i \in 1..Len(lines) - 1 : new[i] = lines[i]
           /\ new[Len(lines)] = IF line = Partial THEN Partial ELSE Garbage
  <2>1. /\ DOMAIN new = DOMAIN lines
        /\ \A i \in DOMAIN lines : i = Len(lines) \/ new[i] = lines[i]
    BY <1>1, <1>3
  <2>2. ~IsEntry(lines[Len(lines)]) /\ ~IsEntry(new[Len(lines)])
    BY <1>3 DEF IsEntry
  <2>3. Entries(new) = Entries(lines) /\ \A i \in Entries(lines) : new[i] = lines[i]
    BY <2>1, <2>2 DEF Entries
  <2>4. CASE line = Partial
    <3>1. Garbled(new) = Garbled(lines)
      BY <1>3, <2>1, <2>4 DEF Garbled
    <3>2. QED
      BY <1>1, <1>3, <2>3, <2>4, <3>1
  <2>5. CASE line \in Record
    <3>1. new[Len(lines)] = Garbage
      BY <1>3, <2>5
    <3>2. Garbled(new) = Garbled(lines) \cup {Len(lines)} /\ Len(lines) \notin Garbled(lines)
      BY <1>1, <1>3, <2>1, <3>1 DEF Garbled
    <3>3. QED
      BY <1>1, <1>3, <2>3, <2>5, <3>2
  <2>6. QED
    BY <2>4, <2>5
<1>4. QED
  BY <1>2, <1>3, AppendedIs

LEMMA Countable ==
  ASSUME LogTyped, EachItsOwn
  PROVE  /\ IsFiniteSet(Finished) /\ Cardinality(Finished) \in Nat
         /\ Cardinality(Finished) <= calls
         /\ IsFiniteSet(Lost) /\ Cardinality(Lost) \in Nat
         /\ IsFiniteSet(Garbled(file)) /\ Cardinality(Garbled(file)) \in Nat
<1>1. calls \in Nat /\ IsFiniteSet(1..calls) /\ Cardinality(1..calls) = calls
  BY FS_Interval DEF LogTyped
<1>2. Finished \in SUBSET (1..calls)
  BY DEF Finished
<1>3. Lost \in SUBSET (1..calls)
  BY <1>2 DEF Lost, EachItsOwn
<1>4. Len(file) \in Nat /\ IsFiniteSet(1..Len(file))
  BY LenProperties, FS_Interval DEF LogTyped
<1>5. Garbled(file) \in SUBSET (1..Len(file))
  BY LenProperties DEF Garbled, LogTyped
<1>6. QED
  BY <1>1, <1>2, <1>3, <1>4, <1>5, FS_Subset, FS_CardinalityType

-----------------------------------------------------------------------------
(* The invariant is inductive. *)

LEMMA LogInit == Init => LogInv
<1> SUFFICES ASSUME Init PROVE LogInv
  OBVIOUS
<1>1. Entries(file) = {} /\ Garbled(file) = {} /\ Len(file) = 0 /\ file \in Seq(Line)
  BY DEF Init, Entries, Garbled
<1>2. Finished = {} /\ Lost = {}
  BY DEF Init, Finished, Lost
<1>3. LogTyped
  <2>1. /\ due \in [Writer -> Due \cup {NoCall}]
        /\ tail \in [Writer -> Hashes \cup {NoTail}]
    BY DEF Init
  <2>2. calls \in 0..MaxCalls
    BY DEF Init
  <2>3. overlapped = FALSE
    BY DEF Init
  <2>4. QED
    BY <1>1, <2>1, <2>2, <2>3 DEF LogTyped
<1>4. EachItsOwn
  BY <1>1 DEF Init, EachItsOwn
<1>5. LossesCounted
  BY <1>1, <1>2, FS_EmptySet DEF LossesCounted
<1>6. Chained
  BY <1>1 DEF Init, Chained
<1>7. QED
  BY <1>3, <1>4, <1>5, <1>6 DEF LogInv

LEMMA CallEndsStep ==
  ASSUME LogInv, NEW w \in Writer, NEW outcome \in Outcome, CallEnds(w, outcome)
  PROVE  LogInv'
<1> USE DEF LogInv
<1> DEFINE new == [id |-> calls + 1, outcome |-> outcome]
<1>1. /\ calls \in Nat /\ calls < MaxCalls /\ calls' = calls + 1
      /\ due[w] = NoCall /\ due' = [due EXCEPT ![w] = new]
      /\ UNCHANGED <<file, tail, recorded, overlapped>>
  BY DEF CallEnds, LogTyped
<1>2. new \in Due /\ new # NoCall /\ new.id = calls + 1
  BY <1>1 DEF Due
<1> HIDE DEF new
<1>3. /\ due' \in [Writer -> Due \cup {NoCall}]
      /\ due'[w] = new
      /\ \A v \in Writer : v # w => due'[v] = due[v]
  BY <1>1, <1>2 DEF LogTyped
<1>4. Finished' = Finished
  <2>1. ASSUME NEW n \in 1..calls
        PROVE  (\A v \in Writer : due[v] # NoCall => due[v].id # n)
                 <=> (\A v \in Writer : due'[v] # NoCall => due'[v].id # n)
    BY <1>1, <1>2, <1>3, <2>1
  <2>2. 1..calls' = (1..calls) \cup {calls + 1}
    BY <1>1
  <2>3. calls + 1 \notin Finished'
    BY <1>2, <1>3 DEF Finished
  <2>4. QED
    BY <1>1, <2>1, <2>2, <2>3 DEF Finished
<1>5. LogTyped'
  BY <1>1, <1>3 DEF LogTyped
<1>6. EachItsOwn'
  <2>1. \A v \in Writer : due'[v] # NoCall => due'[v].id \in 1..calls'
    BY <1>1, <1>2, <1>3 DEF EachItsOwn
  <2>2. \A u, v \in Writer :
          u # v /\ due'[u] # NoCall /\ due'[v] # NoCall => due'[u].id # due'[v].id
    BY <1>1, <1>2, <1>3 DEF EachItsOwn
  <2>3. \A v \in Writer : tail'[v] # NoTail => due'[v] # NoCall
    BY <1>1, <1>2, <1>3 DEF EachItsOwn
  <2>4. QED
    BY <1>1, <1>4, <2>1, <2>2, <2>3 DEF EachItsOwn
<1>7. LossesCounted'
  BY <1>1, <1>4 DEF LossesCounted, Lost
<1>8. Chained'
  BY <1>1 DEF Chained
<1>9. QED
  BY <1>5, <1>6, <1>7, <1>8

LEMMA ReadTailStep ==
  ASSUME LogInv, NEW w \in Writer, ReadTail(w)
  PROVE  LogInv'
<1> USE DEF LogInv
<1>1. /\ due[w] # NoCall /\ tail[w] = NoTail
      /\ tail' = [tail EXCEPT ![w] = LastHash(file)]
      /\ overlapped' = (overlapped \/ \E v \in Writer : tail[v] # NoTail)
      /\ UNCHANGED <<file, due, calls, recorded>>
  BY DEF ReadTail
<1>2. LastHash(file) \in Hashes
  BY NewestHashIs DEF LastHash, LogTyped
<1>3. /\ tail' \in [Writer -> Hashes \cup {NoTail}]
      /\ tail'[w] = LastHash(file)
      /\ \A v \in Writer : v # w => tail'[v] = tail[v]
  BY <1>1, <1>2 DEF LogTyped
<1>4. Finished' = Finished
  BY <1>1 DEF Finished
<1>5. LogTyped'
  BY <1>1, <1>3 DEF LogTyped
<1>6. EachItsOwn'
  BY <1>1, <1>3, <1>4 DEF EachItsOwn
<1>7. LossesCounted'
  BY <1>1, <1>4 DEF LossesCounted, Lost
<1>8. Chained'
  <2>1. ASSUME ~overlapped'
        PROVE  ~overlapped /\ \A v \in Writer : v # w => tail'[v] = NoTail
    BY <1>1, <1>3, <2>1
  <2>2. LastHash(file)' = LastHash(file)
    BY <1>1 DEF LastHash, NewestHash, Entries
  <2>3. \A i \in Entries(file)' : HashIsRight(file[i])'
    BY <1>1 DEF Chained
  <2>4. ~overlapped' =>
          \A i \in Entries(file)' :
            file'[i].prev = NewestHash(file, {j \in Entries(file) : j < i})'
    BY <1>1, <2>1 DEF Chained
  <2>5. ~overlapped' =>
          /\ \A u, v \in Writer : tail'[u] # NoTail /\ tail'[v] # NoTail => u = v
          /\ \A v \in Writer : tail'[v] # NoTail => tail'[v] = LastHash(file)'
    BY <1>3, <2>1, <2>2
  <2>6. QED
    BY <2>3, <2>4, <2>5 DEF Chained
<1>9. QED
  BY <1>5, <1>6, <1>7, <1>8

(* A writer is done with its call.                                          *)
LEMMA DoneIs ==
  ASSUME LogTyped, EachItsOwn, NEW w \in Writer, tail[w] # NoTail, Done(w)
  PROVE  /\ calls' = calls /\ overlapped' = overlapped
         /\ due' \in [Writer -> Due \cup {NoCall}]
         /\ tail' \in [Writer -> Hashes \cup {NoTail}]
         /\ due'[w] = NoCall /\ tail'[w] = NoTail
         /\ \A v \in Writer : v # w => due'[v] = due[v] /\ tail'[v] = tail[v]
         /\ due[w] \in Due /\ tail[w] \in Hashes
         /\ due[w].id \in (1..calls) \ Finished
         /\ Finished' = Finished \cup {due[w].id}
<1>1. /\ calls' = calls /\ overlapped' = overlapped
      /\ due' = [due EXCEPT ![w] = NoCall] /\ tail' = [tail EXCEPT ![w] = NoTail]
  BY DEF Done
<1>2. /\ due' \in [Writer -> Due \cup {NoCall}]
      /\ tail' \in [Writer -> Hashes \cup {NoTail}]
      /\ due'[w] = NoCall /\ tail'[w] = NoTail
      /\ \A v \in Writer : v # w => due'[v] = due[v] /\ tail'[v] = tail[v]
  BY <1>1 DEF LogTyped
<1>3. due[w] # NoCall /\ due[w] \in Due /\ tail[w] \in Hashes
  BY DEF LogTyped, EachItsOwn
<1>4. due[w].id \in (1..calls) \ Finished
  BY <1>3 DEF EachItsOwn, Finished
<1>5. Finished' = Finished \cup {due[w].id}
  <2>1. ASSUME NEW n \in 1..calls, n # due[w].id
        PROVE  (\A v \in Writer : due'[v] # NoCall => due'[v].id # n)
                 <=> (\A v \in Writer : due[v] # NoCall => due[v].id # n)
    BY <1>2, <2>1
  <2>2. \A v \in Writer : due'[v] # NoCall => due'[v].id # due[w].id
    BY <1>2, <1>3 DEF EachItsOwn
  <2>3. QED
    BY <1>1, <1>4, <2>1, <2>2 DEF Finished
<1>6. QED
  BY <1>1, <1>2, <1>3, <1>4, <1>5

(* A line is written, in full or in part.                                   *)
LEMMA LineStep ==
  ASSUME LogInv, NEW w \in Writer, tail[w] # NoTail, Done(w), NEW line,
         \/ line = Partial /\ recorded' = recorded
         \/ /\ line = Entry(due[w].id, due[w].outcome, tail[w])
            /\ recorded' = recorded \cup {due[w].id},
         file' = Appended(file, line)
  PROVE  LogInv'
<1> USE DEF LogInv
<1> DEFINE id == due[w].id
           end == Len(file) + 1
<1>1. /\ calls' = calls /\ overlapped' = overlapped
      /\ due' \in [Writer -> Due \cup {NoCall}]
      /\ tail' \in [Writer -> Hashes \cup {NoTail}]
      /\ due'[w] = NoCall /\ tail'[w] = NoTail
      /\ \A v \in Writer : v # w => due'[v] = due[v] /\ tail'[v] = tail[v]
      /\ due[w] \in Due /\ tail[w] \in Hashes
      /\ id \in (1..calls) \ Finished
      /\ Finished' = Finished \cup {id}
  BY DoneIs
<1>2. \/ line = Partial /\ recorded' = recorded
      \/ /\ line \in Record /\ line # Partial
         /\ line.id = id /\ line.prev = tail[w] /\ HashIsRight(line)
         /\ recorded' = recorded \cup {id}
  <2>1. due[w].id \in 1..MaxCalls /\ due[w].outcome \in Outcome
    BY <1>1 DEF Due
  <2>2. CASE line = Entry(due[w].id, due[w].outcome, tail[w])
             /\ recorded' = recorded \cup {due[w].id}
    BY <1>1, <2>1, <2>2, EntryIsRecord DEF IsEntry
  <2>3. QED
    BY <2>2
<1>3. /\ file \in Seq(Line) /\ Len(file) \in Nat
      /\ Entries(file) \in SUBSET (1..Len(file))
  BY EntriesAre, LenProperties DEF LogTyped
<1> HIDE DEF id, end
<1>4. /\ file' \in Seq(Line) /\ Len(file') <= Len(file) + 1 /\ Len(file') \in Nat
      /\ \A i \in Entries(file) : file'[i] = file[i]
  <2>1. line \in Record \cup {Partial}
    BY <1>2
  <2>2. /\ Appended(file, line) \in Seq(Line)
        /\ Len(Appended(file, line)) <= Len(file) + 1
        /\ \A i \in Entries(file) : Appended(file, line)[i] = file[i]
    BY <1>3, <2>1, WhatIsAppended
  <2>3. QED
    BY <2>2, LenProperties
<1>5. \/ /\ line = Partial
         /\ Entries(file') = Entries(file) /\ Garbled(file') = Garbled(file)
      \/ /\ line \in Record /\ line # Partial
         /\ file'[end] = line
         /\ Entries(file') = Entries(file) \cup {end}
         /\ Garbled(file') = Garbled(file)
      \/ /\ line \in Record /\ line # Partial
         /\ Entries(file') = Entries(file)
         /\ Garbled(file') = Garbled(file) \cup {Len(file)}
         /\ Len(file) \notin Garbled(file)
  <2>1. line \in Record \cup {Partial}
    BY <1>2
  <2>2. \/ /\ line = Partial
           /\ Entries(Appended(file, line)) = Entries(file)
           /\ Garbled(Appended(file, line)) = Garbled(file)
        \/ /\ line \in Record
           /\ Appended(file, line)[Len(file) + 1] = line
           /\ Entries(Appended(file, line)) = Entries(file) \cup {Len(file) + 1}
           /\ Garbled(Appended(file, line)) = Garbled(file)
        \/ /\ line \in Record
           /\ Entries(Appended(file, line)) = Entries(file)
           /\ Garbled(Appended(file, line)) = Garbled(file) \cup {Len(file)}
           /\ Len(file) \notin Garbled(file)
    BY <1>3, <2>1, WhatIsAppended
  <2>3. line \in Record => line # Partial
    OBVIOUS
  <2>4. QED
    BY <2>2, <2>3 DEF end
<1>6. LogTyped'
  BY <1>1, <1>4 DEF LogTyped
<1>7. recorded' \subseteq Finished'
  BY <1>1, <1>2 DEF EachItsOwn
<1>8. EachItsOwn'
  <2>1. /\ \A v \in Writer : tail'[v] # NoTail => due'[v] # NoCall
        /\ \A v \in Writer : due'[v] # NoCall => due'[v].id \in 1..calls'
        /\ \A u, v \in Writer :
             u # v /\ due'[u] # NoCall /\ due'[v] # NoCall => due'[u].id # due'[v].id
    BY <1>1 DEF EachItsOwn
  <2>2. \A i \in Entries(file') : file'[i].id \in Finished'
    BY <1>1, <1>2, <1>4, <1>5 DEF EachItsOwn
  <2>3. \A i, j \in Entries(file') : i # j => file'[i].id # file'[j].id
    BY <1>1, <1>2, <1>4, <1>5 DEF EachItsOwn
  <2>4. QED
    BY <1>7, <2>1, <2>2, <2>3 DEF EachItsOwn
<1>9. LossesCounted'
  <2> DEFINE ids == {file[i].id : i \in Entries(file)}
             ids2 == {file'[i].id : i \in Entries(file')}
  <2>1. Lost = recorded \ ids /\ Lost' = recorded' \ ids2
    BY DEF Lost
  <2>2. /\ IsFiniteSet(Lost) /\ Cardinality(Lost) \in Nat
        /\ IsFiniteSet(Garbled(file)) /\ Cardinality(Garbled(file)) \in Nat
    BY Countable
  <2>3. CASE Lost' \in SUBSET Lost /\ Garbled(file') = Garbled(file)
    <3>1. Cardinality(Lost') <= Cardinality(Lost) /\ IsFiniteSet(Lost')
      BY <2>2, <2>3, FS_Subset
    <3>2. Cardinality(Lost') \in Nat
      BY <3>1, FS_CardinalityType
    <3>3. QED
      BY <2>2, <2>3, <3>1, <3>2 DEF LossesCounted
  <2>4. CASE /\ Lost' \in SUBSET (Lost \cup {id})
             /\ Garbled(file') = Garbled(file) \cup {Len(file)}
             /\ Len(file) \notin Garbled(file)
    <3>1. /\ IsFiniteSet(Lost \cup {id})
          /\ Cardinality(Lost \cup {id}) <= Cardinality(Lost) + 1
          /\ Cardinality(Lost \cup {id}) \in Nat
      <4>1. /\ IsFiniteSet(Lost \cup {id})
            /\ Cardinality(Lost \cup {id})
                 = IF id \in Lost THEN Cardinality(Lost) ELSE Cardinality(Lost) + 1
        BY <2>2, FS_AddElement
      <4>2. QED
        BY <2>2, <4>1
    <3>2. IsFiniteSet(Lost') /\ Cardinality(Lost') <= Cardinality(Lost \cup {id})
      BY <2>4, <3>1, FS_Subset
    <3>3. Cardinality(Lost') \in Nat
      BY <3>2, FS_CardinalityType
    <3>4. Cardinality(Garbled(file')) = Cardinality(Garbled(file)) + 1
      BY <2>2, <2>4, FS_AddElement
    <3>5. QED
      BY <2>2, <3>1, <3>2, <3>3, <3>4 DEF LossesCounted
  <2>5. CASE /\ line = Partial
             /\ Entries(file') = Entries(file) /\ Garbled(file') = Garbled(file)
    <3>1. ids2 = ids
      BY <1>4, <2>5
    <3>2. recorded' = recorded
      BY <1>2, <2>5
    <3>3. QED
      BY <2>1, <2>3, <2>5, <3>1, <3>2
  <2>6. CASE /\ line \in Record /\ line # Partial
             /\ file'[end] = line
             /\ Entries(file') = Entries(file) \cup {end}
             /\ Garbled(file') = Garbled(file)
    <3>1. ids2 = ids \cup {id}
      BY <1>2, <1>4, <2>6
    <3>2. recorded' = recorded \cup {id}
      BY <1>2, <2>6
    <3>3. QED
      BY <2>1, <2>3, <2>6, <3>1, <3>2
  <2>7. CASE /\ line \in Record /\ line # Partial
             /\ Entries(file') = Entries(file)
             /\ Garbled(file') = Garbled(file) \cup {Len(file)}
             /\ Len(file) \notin Garbled(file)
    <3>1. ids2 = ids
      BY <1>4, <2>7
    <3>2. recorded' = recorded \cup {id}
      BY <1>2, <2>7
    <3>3. QED
      BY <2>1, <2>4, <2>7, <3>1, <3>2
  <2>8. QED
    BY <1>5, <2>5, <2>6, <2>7
<1>10. Chained'
  <2>1. \A i \in Entries(file') : HashIsRight(file'[i])
    BY <1>2, <1>4, <1>5 DEF Chained
  <2>2. ASSUME ~overlapped PROVE \A v \in Writer : tail'[v] = NoTail
    BY <1>1, <2>2 DEF Chained
  <2>3. ASSUME ~overlapped, NEW i \in Entries(file)
        PROVE  file'[i].prev = NewestHash(file', {j \in Entries(file) : j < i})
    <3>1. file[i].prev = NewestHash(file, {j \in Entries(file) : j < i})
      BY <2>3 DEF Chained
    <3>2. NewestHash(file', {j \in Entries(file) : j < i})
            = NewestHash(file, {j \in Entries(file) : j < i})
      BY <1>3, <1>4, NewestHashKept
    <3>3. QED
      BY <1>4, <3>1, <3>2
  <2>4. CASE Entries(file') = Entries(file)
    BY <1>1, <2>1, <2>2, <2>3, <2>4 DEF Chained
  <2>5. CASE /\ line \in Record /\ line # Partial
             /\ file'[end] = line
             /\ Entries(file') = Entries(file) \cup {end}
    <3>1. ASSUME NEW i \in Entries(file)
          PROVE  {j \in Entries(file') : j < i} = {j \in Entries(file) : j < i}
      BY <1>3, <2>5 DEF end
    <3>2. {j \in Entries(file') : j < end} = Entries(file)
      BY <1>3, <2>5 DEF end
    <3>3. ASSUME ~overlapped
          PROVE  file'[end].prev = NewestHash(file', Entries(file))
      <4>1. file'[end].prev = LastHash(file)
        BY <1>2, <2>5, <3>3 DEF Chained
      <4>2. NewestHash(file', Entries(file)) = NewestHash(file, Entries(file))
        BY <1>3, <1>4, NewestHashKept
      <4>3. QED
        BY <4>1, <4>2 DEF LastHash
    <3>4. ~overlapped => \A i \in Entries(file') :
            file'[i].prev = NewestHash(file', {j \in Entries(file') : j < i})
      BY <2>3, <2>5, <3>1, <3>2, <3>3
    <3>5. QED
      BY <1>1, <2>1, <2>2, <3>4 DEF Chained
  <2>6. QED
    BY <1>5, <2>4, <2>5
<1>11. QED
  BY <1>6, <1>8, <1>9, <1>10

LEMMA LogStep == LogInv /\ [Next]_vars => LogInv'
<1> SUFFICES ASSUME LogInv, [Next]_vars PROVE LogInv'
  OBVIOUS
<1>1. ASSUME NEW w \in Writer, NEW outcome \in Outcome, CallEnds(w, outcome)
      PROVE  LogInv'
  BY <1>1, CallEndsStep
<1>2. ASSUME NEW w \in Writer, ReadTail(w) PROVE LogInv'
  BY <1>2, ReadTailStep
<1>3. ASSUME NEW w \in Writer, WriteEntry(w) PROVE LogInv'
  BY <1>3, LineStep DEF WriteEntry
<1>4. ASSUME NEW w \in Writer, WriteFails(w) PROVE LogInv'
  BY <1>4, LineStep DEF WriteFails
<1>5. CASE UNCHANGED vars
  <2>1. UNCHANGED <<file, due, tail, calls, recorded, overlapped>>
    BY <1>5 DEF vars
  <2>2. LogTyped' /\ Finished' = Finished
    BY <2>1 DEF LogInv, LogTyped, Finished
  <2>3. EachItsOwn'
    BY <2>1, <2>2 DEF LogInv, EachItsOwn
  <2>4. LossesCounted'
    BY <2>1, <2>2 DEF LogInv, LossesCounted, Lost
  <2>5. Chained'
    BY <2>1 DEF LogInv, Chained, LastHash
  <2>6. QED
    BY <2>2, <2>3, <2>4, <2>5 DEF LogInv
<1>6. QED
  BY <1>1, <1>2, <1>3, <1>4, <1>5 DEF Next

LEMMA LogAlways == Spec => []LogInv
BY LogInit, LogStep, PTL DEF Spec

-----------------------------------------------------------------------------
(* What follows from it. *)

LEMMA ReadIs ==
  ASSUME NEW lines \in Seq(Line)
  PROVE  /\ ReadAll(lines) \in SUBSET Entries(lines)
         /\ ReadAll(lines) \in SUBSET (1..Len(lines)) /\ Len(lines) \in Nat
         /\ \A i \in Entries(lines), j \in ReadAll(lines) : j <= i => i \in ReadAll(lines)
<1>1. Len(lines) \in Nat /\ Entries(lines) \in SUBSET (1..Len(lines))
  BY EntriesAre, LenProperties
<1>2. ReadAll(lines) \in SUBSET Entries(lines)
  BY DEF ReadAll
<1>3. \A i \in Entries(lines), j \in ReadAll(lines) : j <= i => i \in ReadAll(lines)
  BY <1>1 DEF ReadAll
<1>4. QED
  BY <1>1, <1>2, <1>3

(* Every record that returned is found again, whoever else was writing: as  *)
(* many are missing as lines were garbled or are out of reach, at most.     *)
THEOREM RecordsAreKept == Spec => []RecordsKept
<1>1. LogInv => RecordsKept
  <2> SUFFICES ASSUME LogInv PROVE RecordsKept
    OBVIOUS
  <2> DEFINE kept == {file[i].id : i \in ReadAll(file)}
             beyond == {file[i].id : i \in Unread(file)}
  <2>1. recorded \ kept \in SUBSET (Lost \cup beyond)
    BY DEF Lost, Unread
  <2>2. /\ IsFiniteSet(Lost) /\ Cardinality(Lost) \in Nat
        /\ Cardinality(Garbled(file)) \in Nat
        /\ Cardinality(Lost) <= Cardinality(Garbled(file))
    BY Countable DEF LogInv, LossesCounted
  <2>3. IsFiniteSet(Unread(file))
    <3>1. Unread(file) \in SUBSET (1..Len(file)) /\ Len(file) \in Nat
      BY EntriesAre, LenProperties DEF LogInv, LogTyped, Unread
    <3>2. IsFiniteSet(1..Len(file))
      BY <3>1, FS_Interval
    <3>3. QED
      BY <3>1, <3>2, FS_Subset
  <2>4. /\ IsFiniteSet(beyond) /\ Cardinality(beyond) <= Cardinality(Unread(file))
        /\ Cardinality(beyond) \in Nat /\ Cardinality(Unread(file)) \in Nat
    <3>1. IsFiniteSet(beyond) /\ Cardinality(beyond) <= Cardinality(Unread(file))
      <4> DEFINE id == [i \in Unread(file) |-> file[i].id]
      <4>1. id \in Surjection(Unread(file), beyond)
        BY DEF Surjection
      <4>2. QED
        BY <2>3, <4>1, FS_Surjection
    <3>2. QED
      BY <2>3, <3>1, FS_CardinalityType
  <2> HIDE DEF beyond, kept
  <2>5. /\ IsFiniteSet(Lost \cup beyond) /\ Cardinality(Lost \cup beyond) \in Nat
        /\ Cardinality(Lost \cup beyond) <= Cardinality(Lost) + Cardinality(beyond)
    <3>1. /\ IsFiniteSet(Lost \cup beyond) /\ IsFiniteSet(Lost \cap beyond)
          /\ Cardinality(Lost \cup beyond)
               = Cardinality(Lost) + Cardinality(beyond) - Cardinality(Lost \cap beyond)
      BY <2>2, <2>4, FS_Union, FS_Intersection
    <3>2. Cardinality(Lost \cap beyond) \in Nat /\ Cardinality(Lost \cup beyond) \in Nat
      BY <3>1, FS_CardinalityType
    <3>3. QED
      BY <2>2, <2>4, <3>1, <3>2
  <2>6. /\ IsFiniteSet(recorded \ kept) /\ Cardinality(recorded \ kept) \in Nat
        /\ Cardinality(recorded \ kept) <= Cardinality(Lost \cup beyond)
    BY <2>1, <2>5, FS_Subset, FS_CardinalityType
  <2>7. Cardinality(recorded \ kept)
          <= Cardinality(Garbled(file)) + Cardinality(Unread(file))
    BY <2>2, <2>4, <2>5, <2>6
  <2>8. QED
    BY <2>7 DEF RecordsKept, Garbled, kept
<1>2. QED
  BY <1>1, LogAlways, PTL

(* Of the entries in the file, each has a hash of its own.                  *)
LEMMA HashesDiffer ==
  ASSUME LogInv, NEW i \in Entries(file), NEW j \in Entries(file)
  PROVE  /\ file[i].hash # Genesis
         /\ file[i].hash = file[j].hash => i = j
<1>1. file[i] \in Record /\ file[j] \in Record
  BY EntriesAre DEF LogInv, LogTyped
<1>2. /\ file[i].hash = HashOf(file[i].id, file[i].outcome, file[i].prev)
      /\ file[j].hash = HashOf(file[j].id, file[j].outcome, file[j].prev)
  BY DEF LogInv, Chained, HashIsRight
<1>3. /\ file[i].hash # Genesis
      /\ file[i].hash = file[j].hash => file[i].id = file[j].id
  BY <1>1, <1>2, HashTellsCall DEF Record
<1>4. QED
  BY <1>3 DEF LogInv, EachItsOwn

(* verify complains of nothing in a file nobody touched, torn lines or not, *)
(* unless two records overlapped, but of the first entry it reads when      *)
(* there are others before it.                                              *)
THEOREM UntouchedFilesVerify == Spec => []NoFalseAlarm
<1>1. LogInv => NoFalseAlarm
  <2> SUFFICES ASSUME LogInv, ~overlapped, NEW i \in ReadAll(file)
               PROVE  i \in Verify(file)
                        <=> Unread(file) # {} /\ \A j \in ReadAll(file) : i <= j
    BY DEF NoFalseAlarm, Verify
  <2> DEFINE before == {j \in Entries(file) : j < i}
             read == {j \in ReadAll(file) : j < i}
  <2>1. /\ file \in Seq(Line) /\ i \in Entries(file)
        /\ Len(file) \in Nat /\ Entries(file) \in SUBSET (1..Len(file))
        /\ ReadAll(file) \in SUBSET Entries(file)
        /\ \A m \in Entries(file), j \in ReadAll(file) : j <= m => m \in ReadAll(file)
    BY ReadIs, EntriesAre DEF LogInv, LogTyped
  <2>2. i \in Verify(file) <=> NewestHash(file, before) # NewestHash(file, read)
    BY <2>1 DEF Verify, Expected, LogInv, Chained
  <2>3. read \in SUBSET before /\ before \in SUBSET Entries(file)
    BY <2>1
  <2>4. CASE read # {}
    <3>1. PICK j \in ReadAll(file) : j < i
      BY <2>4
    <3>2. ~(i <= j)
      BY <2>1, <3>1
    <3>3. Max(before) \in before /\ \A m \in before : m <= Max(before)
      BY <2>1, <2>3, <2>4, Greatest
    <3>4. Max(read) \in read /\ \A m \in read : m <= Max(read)
      BY <2>1, <2>3, <2>4, Greatest
    <3>5. Max(before) \in read
      <4>1. j \in before
        BY <2>1, <3>1
      <4>2. j <= Max(before) /\ Max(before) \in Entries(file) /\ Max(before) < i
        BY <3>3, <4>1
      <4>3. QED
        BY <2>1, <3>1, <4>2
    <3>6. Max(before) = Max(read)
      <4>1. Max(before) <= Max(read) /\ Max(read) <= Max(before)
        BY <2>3, <3>3, <3>4, <3>5
      <4>2. Max(before) \in Nat /\ Max(read) \in Nat
        BY <2>1, <3>3, <3>4
      <4>3. QED
        BY <4>1, <4>2
    <3>7. NewestHash(file, before) = NewestHash(file, read)
      BY <2>3, <2>4, <3>6 DEF NewestHash
    <3>8. QED
      BY <2>2, <3>2, <3>7
  <2>5. CASE read = {}
    <3>1. \A j \in ReadAll(file) : i <= j
      BY <2>1, <2>5
    <3>2. before = Unread(file)
      <4>1. ASSUME NEW m \in Entries(file), m \notin ReadAll(file) PROVE m < i
        BY <2>1, <4>1
      <4>2. QED
        BY <2>5, <4>1 DEF Unread
    <3>3. NewestHash(file, read) = Genesis
      BY <2>5 DEF NewestHash
    <3>4. \/ before = {} /\ NewestHash(file, before) = Genesis
          \/ \E m \in before : NewestHash(file, before) = file[m].hash
      BY <2>1, <2>3, NewestHashIs
    <3>5. \A m \in before : file[m].hash # Genesis
      BY <2>3, HashesDiffer
    <3>6. QED
      BY <2>2, <3>1, <3>2, <3>3, <3>4, <3>5
  <2>6. QED
    BY <2>4, <2>5
<1>2. QED
  BY <1>1, LogAlways, PTL

-----------------------------------------------------------------------------
(* Tampering. *)

(* A file made of nothing but entries that were in this one, and of which   *)
(* verify does not complain, has lost some at the end and no others.  If    *)
(* not, take the first entry that is not where it was: the one before it is *)
(* where it was, and its hash says which entry follows.                     *)
LEMMA VerifiedIsOffTheEnd ==
  ASSUME LogInv, ~overlapped, NEW lines \in Seq(Line),
         \A i \in ReadAll(lines) : \E k \in Entries(file) : lines[i] = file[k],
         Verify(lines) = {}
  PROVE  OffTheEnd(lines)
<1> DEFINE Before(i) == {j \in ReadAll(lines) : j < i}
           BeforeInFile(k) == {j \in Entries(file) : j < k}
           Same(i, k) == /\ lines[i] = file[k]
                         /\ {lines[j] : j \in Before(i)} = {file[j] : j \in BeforeInFile(k)}
           Moved == {i \in ReadAll(lines) : \A k \in Entries(file) : ~Same(i, k)}
<1>1. /\ file \in Seq(Line)
      /\ Len(lines) \in Nat /\ Entries(lines) \in SUBSET (1..Len(lines))
      /\ ReadAll(lines) \in SUBSET Entries(lines)
      /\ Len(file) \in Nat /\ Entries(file) \in SUBSET (1..Len(file))
  BY ReadIs, EntriesAre, LenProperties DEF LogInv, LogTyped
<1>2. /\ \A i \in ReadAll(lines) : lines[i].prev = NewestHash(lines, Before(i))
      /\ \A k \in Entries(file) : file[k].prev = NewestHash(file, BeforeInFile(k))
  BY DEF Verify, Expected, LogInv, Chained
<1>3. Moved = {}
  <2> SUFFICES ASSUME Moved # {} PROVE FALSE
    OBVIOUS
  <2>1. Moved \in SUBSET Nat
    BY <1>1
  <2>2. PICK i \in Moved : \A j \in Moved : i <= j
    BY <2>1, Least
  <2>3. i \in ReadAll(lines) /\ \A k \in Entries(file) : ~Same(i, k)
    OBVIOUS
  <2>4. PICK k \in Entries(file) : lines[i] = file[k]
    BY <2>3
  <2>5. NewestHash(lines, Before(i)) = NewestHash(file, BeforeInFile(k))
    BY <1>2, <2>3, <2>4
  <2>6. \/ Before(i) = {} /\ NewestHash(lines, Before(i)) = Genesis
        \/ \E p \in Before(i) : /\ \A j \in Before(i) : j <= p
                                /\ NewestHash(lines, Before(i)) = lines[p].hash
    <3>1. Before(i) \in SUBSET Entries(lines)
      BY <1>1
    <3>2. QED
      BY <3>1, NewestHashIs
  <2>7. \/ BeforeInFile(k) = {} /\ NewestHash(file, BeforeInFile(k)) = Genesis
        \/ \E q \in BeforeInFile(k) :
             /\ \A j \in BeforeInFile(k) : j <= q
             /\ NewestHash(file, BeforeInFile(k)) = file[q].hash
    BY <1>1, NewestHashIs
  <2>8. CASE Before(i) = {} /\ NewestHash(lines, Before(i)) = Genesis
    <3>1. \A q \in BeforeInFile(k) : file[q].hash # Genesis
      BY HashesDiffer
    <3>2. BeforeInFile(k) = {}
      BY <2>5, <2>7, <2>8, <3>1
    <3>3. Same(i, k)
      BY <2>4, <2>8, <3>2
    <3>4. QED
      BY <2>3, <3>3
  <2>9. ASSUME NEW p \in Before(i), \A j \in Before(i) : j <= p,
               NewestHash(lines, Before(i)) = lines[p].hash
        PROVE  FALSE
    <3>1. p \in ReadAll(lines) /\ p < i /\ p \in Nat /\ i \in Nat
      BY <1>1, <2>3
    <3>2. p \notin Moved
      <4> HIDE DEF Moved, Same, Before
      <4>1. p \in Moved => i <= p
        BY <2>2
      <4>2. QED
        BY <3>1, <4>1
    <3>3. PICK r \in Entries(file) : Same(p, r)
      BY <3>1, <3>2
    <3>4. NewestHash(file, BeforeInFile(k)) = file[r].hash /\ file[r].hash # Genesis
      BY <2>5, <2>9, <3>3, HashesDiffer
    <3>5. PICK q \in BeforeInFile(k) : /\ \A j \in BeforeInFile(k) : j <= q
                                       /\ file[r].hash = file[q].hash
      BY <2>7, <3>4
    <3>6. q \in Entries(file) /\ q = r
      BY <3>3, <3>5, HashesDiffer
    <3>7. Before(i) = Before(p) \cup {p}
      BY <1>1, <2>9, <3>1
    <3>8. BeforeInFile(k) = BeforeInFile(q) \cup {q}
      BY <1>1, <3>5
    <3>9. Same(i, k)
      <4>1. lines[p] = file[q]
            /\ {lines[j] : j \in Before(p)} = {file[j] : j \in BeforeInFile(q)}
        BY <3>3, <3>6
      <4>2. {lines[j] : j \in Before(p) \cup {p}}
              = {lines[j] : j \in Before(p)} \cup {lines[p]}
        OBVIOUS
      <4>3. {file[j] : j \in BeforeInFile(q) \cup {q}}
              = {file[j] : j \in BeforeInFile(q)} \cup {file[q]}
        OBVIOUS
      <4>4. QED
        BY <2>4, <3>7, <3>8, <4>1, <4>2, <4>3
    <3>10. QED
      BY <2>3, <3>9
  <2>10. QED
    BY <2>6, <2>8, <2>9
<1>4. \A i \in ReadAll(lines) : \E k \in Entries(file) : Same(i, k)
  BY <1>3
<1>5. QED
  BY <1>4 DEF OffTheEnd

(* An entry of the file that was given another outcome, and a hash of its   *)
(* own or one to match.                                                     *)
LEMMA OutcomeShows ==
  ASSUME NEW e \in Record, HashIsRight(e), NEW o \in Outcome
  PROVE  /\ [e EXCEPT !.outcome = o] \in Record
         /\ HashIsRight([e EXCEPT !.outcome = o]) => [e EXCEPT !.outcome = o] = e
         /\ Entry(e.id, o, e.prev) \in Record
         /\ Entry(e.id, o, e.prev).hash = e.hash => Entry(e.id, o, e.prev) = e
<1>1. /\ e.id \in 1..MaxCalls /\ e.outcome \in Outcome /\ e.prev \in Hashes
      /\ e.hash = HashOf(e.id, e.outcome, e.prev)
  BY DEF Record, HashIsRight
<1>2. HashOf(e.id, o, e.prev) = e.hash => o = e.outcome
  BY <1>1, HashTellsCall
<1>3. [e EXCEPT !.outcome = o] \in Record
  BY DEF Record
<1>4. HashIsRight([e EXCEPT !.outcome = o]) => [e EXCEPT !.outcome = o] = e
  <2>1. HashIsRight([e EXCEPT !.outcome = o]) => e.hash = HashOf(e.id, o, e.prev)
    BY DEF HashIsRight, Record
  <2>2. o = e.outcome => [e EXCEPT !.outcome = o] = e
    BY DEF Record
  <2>3. QED
    BY <1>2, <2>1, <2>2
<1>5. /\ Entry(e.id, o, e.prev) \in Record
      /\ Entry(e.id, o, e.prev).hash = HashOf(e.id, o, e.prev)
  BY <1>1, EntryIsRecord
<1>6. o = e.outcome => Entry(e.id, o, e.prev) = e
  BY <1>1 DEF Entry, Record
<1>7. QED
  BY <1>2, <1>3, <1>4, <1>5, <1>6

(* A file of as many lines, each of which is one of this file's.            *)
LEMMA LinesOfFile ==
  ASSUME LogInv, ~overlapped, NEW lines \in Seq(Line),
         \A i \in 1..Len(lines) : \E k \in 1..Len(file) : lines[i] = file[k]
  PROVE  Verify(lines) # {} \/ OffTheEnd(lines)
<1>1. \A i \in ReadAll(lines) : \E k \in Entries(file) : lines[i] = file[k]
  <2>1. /\ DOMAIN file = 1..Len(file)
        /\ DOMAIN lines = 1..Len(lines)
    BY LenProperties DEF LogInv, LogTyped
  <2>2. QED
    BY <2>1 DEF ReadAll, Entries
<1>2. QED
  BY <1>1, VerifiedIsOffTheEnd

(* A line that was changed out of the reader's sight is as good as the      *)
(* file's own.                                                              *)
LEMMA UnseenChange ==
  ASSUME LogInv, ~overlapped, NEW lines \in Seq(Line), Len(lines) = Len(file), NEW i,
         \A j \in 1..Len(file) : j # i => lines[j] = file[j],
         i \notin ReadAll(lines) \/ lines[i] = file[i]
  PROVE  Verify(lines) # {} \/ OffTheEnd(lines)
<1>1. ReadAll(lines) \in SUBSET (1..Len(file)) /\ ReadAll(lines) \in SUBSET Entries(lines)
  BY ReadIs
<1>2. \A j \in ReadAll(lines) : lines[j] = file[j]
  BY <1>1
<1>3. DOMAIN file = 1..Len(file) /\ DOMAIN lines = 1..Len(file)
  BY LenProperties DEF LogInv, LogTyped
<1>4. \A j \in ReadAll(lines) : j \in Entries(file)
  BY <1>1, <1>2, <1>3 DEF Entries
<1>5. QED
  BY <1>2, <1>4, VerifiedIsOffTheEnd

LEMMA EditedShows ==
  ASSUME LogInv, ~overlapped, NEW lines \in Edited(file)
  PROVE  Verify(lines) # {} \/ OffTheEnd(lines)
<1> SUFFICES ASSUME Verify(lines) = {} PROVE OffTheEnd(lines)
  OBVIOUS
<1>1. PICK i \in Entries(file), o \in Outcome : lines = [file EXCEPT ![i].outcome = o]
  BY DEF Edited
<1> DEFINE other == [file[i] EXCEPT !.outcome = o]
<1>2. /\ file \in Seq(Line) /\ Len(file) \in Nat /\ i \in 1..Len(file)
      /\ file[i] \in Record /\ HashIsRight(file[i])
  BY EntriesAre, LenProperties DEF LogInv, LogTyped, Chained
<1>3. other \in Record /\ (HashIsRight(other) => other = file[i])
  BY <1>2, OutcomeShows
<1>4. lines = [file EXCEPT ![i] = other]
  BY <1>1
<1> HIDE DEF other
<1>5. /\ lines \in Seq(Line) /\ Len(lines) = Len(file) /\ lines[i] = other
      /\ \A j \in 1..Len(file) : j # i => lines[j] = file[j]
  BY <1>2, <1>3, <1>4, ExceptSeq, LenProperties DEF Line
<1>6. i \in ReadAll(lines) => other = file[i]
  BY <1>3, <1>5 DEF Verify
<1>7. QED
  BY <1>5, <1>6, UnseenChange

LEMMA RewrittenShows ==
  ASSUME LogInv, ~overlapped, NEW lines \in Rewritten(file)
  PROVE  Verify(lines) # {} \/ OffTheEnd(lines)
<1> SUFFICES ASSUME Verify(lines) = {} PROVE OffTheEnd(lines)
  OBVIOUS
<1>1. PICK i \in {j \in Entries(file) : \E k \in Entries(file) : j < k}, o \in Outcome :
        lines = [file EXCEPT ![i] = Entry(file[i].id, o, file[i].prev)]
  BY DEF Rewritten
<1> DEFINE other == Entry(file[i].id, o, file[i].prev)
           After == {k \in Entries(file) : i < k}
<1>2. /\ file \in Seq(Line) /\ Len(file) \in Nat /\ i \in 1..Len(file)
      /\ Entries(file) \in SUBSET (1..Len(file)) /\ i \in Entries(file)
      /\ file[i] \in Record /\ HashIsRight(file[i])
  BY EntriesAre, LenProperties DEF LogInv, LogTyped, Chained
<1>3. other \in Record /\ (other.hash = file[i].hash => other = file[i])
  BY <1>2, OutcomeShows
<1>4. lines = [file EXCEPT ![i] = other]
  BY <1>1
<1> HIDE DEF other
<1>5. /\ lines \in Seq(Line) /\ Len(lines) = Len(file) /\ lines[i] = other
      /\ \A j \in 1..Len(file) : j # i => lines[j] = file[j]
  BY <1>2, <1>3, <1>4, ExceptSeq, LenProperties DEF Line
<1>6. Entries(lines) = Entries(file)
  BY <1>2, <1>3, <1>5, LenProperties DEF Entries, IsEntry
<1>7. ASSUME i \in ReadAll(lines) PROVE other = file[i]
  <2>1. PICK k \in After : \A j \in After : k <= j
    <3>1. After \in SUBSET Nat /\ After # {}
      BY <1>1, <1>2
    <3>2. QED
      BY <3>1, Least
  <2> DEFINE Before == {j \in Entries(file) : j < k}
             Read == {j \in ReadAll(lines) : j < k}
  <2>2. k \in Entries(file) /\ i < k /\ i \in Before /\ \A j \in Before : j <= i
    BY <1>2, <2>1
  <2>3. ReadAll(lines) \in SUBSET Entries(file) /\ k \in ReadAll(lines)
    BY <1>2, <1>5, <1>6, <1>7, <2>2, ReadIs
  <2>4. i \in Read /\ \A j \in Read : j <= i
    BY <1>7, <2>2, <2>3
  <2>5. lines[k].prev = NewestHash(lines, Read)
    BY <2>3 DEF Verify, Expected
  <2>6. file[k].prev = NewestHash(file, Before)
    BY <2>2 DEF LogInv, Chained
  <2>7. Read \in SUBSET (1..Len(file)) /\ Before \in SUBSET (1..Len(file))
    BY <1>2, <2>3
  <2> HIDE DEF Read, Before
  <2>8. Max(Read) = i /\ Max(Before) = i
    <3>1. /\ Max(Read) \in Read /\ \A j \in Read : j <= Max(Read)
          /\ Max(Before) \in Before /\ \A j \in Before : j <= Max(Before)
      BY <1>2, <2>2, <2>4, <2>7, Greatest
    <3>2. Max(Read) \in Nat /\ Max(Before) \in Nat /\ i \in Nat
      <4>1. Max(Read) \in 1..Len(file) /\ Max(Before) \in 1..Len(file)
        BY <2>7, <3>1
      <4>2. i \in 1..Len(file)
        BY <1>2
      <4>3. QED
        BY <4>1, <4>2
    <3>3. Max(Read) <= i /\ i <= Max(Read)
      BY <2>4, <3>1
    <3>4. Max(Before) <= i /\ i <= Max(Before)
      BY <2>2, <3>1
    <3>5. QED
      BY <3>2, <3>3, <3>4
  <2>9. NewestHash(lines, Read) = other.hash /\ NewestHash(file, Before) = file[i].hash
    BY <1>5, <2>2, <2>4, <2>8 DEF NewestHash
  <2>10. lines[k] = file[k]
    BY <1>2, <1>5, <2>2
  <2>11. QED
    BY <1>3, <2>5, <2>6, <2>9, <2>10
<1>8. QED
  BY <1>5, <1>7, UnseenChange

LEMMA ShortenedShows ==
  ASSUME LogInv, ~overlapped, NEW lines \in Shortened(file)
  PROVE  Verify(lines) # {} \/ OffTheEnd(lines)
<1>1. /\ file \in Seq(Line) /\ Len(file) \in Nat /\ DOMAIN file = 1..Len(file)
      /\ \A n \in 1..Len(file) : file[n] \in Line
  BY LenProperties, ElementOfSeq DEF LogInv, LogTyped
<1>2. PICK i \in 1..Len(file) :
        lines = SubSeq(file, 1, i - 1) \o SubSeq(file, i + 1, Len(file))
  BY <1>1 DEF Shortened, RemoveAt
<1> DEFINE head == SubSeq(file, 1, i - 1)
           rest == SubSeq(file, i + 1, Len(file))
<1>3. /\ head \in Seq(Line) /\ Len(head) = i - 1
      /\ \A j \in 1..Len(head) : head[j] = file[j]
  <2>1. \A n \in 1..i - 1 : file[n] \in Line
    BY <1>1
  <2>2. /\ head \in Seq(Line)
        /\ Len(head) = IF 1 <= i - 1 THEN i - 1 - 1 + 1 ELSE 0
        /\ \A n \in 1..(i - 1 - 1 + 1) : head[n] = file[1 + n - 1]
    BY <2>1, SubSeqProperties
  <2>3. QED
    BY <2>2
<1>4. /\ rest \in Seq(Line) /\ Len(rest) = Len(file) - i
      /\ \A j \in 1..Len(rest) : rest[j] = file[i + j]
  <2>1. \A n \in i + 1..Len(file) : file[n] \in Line
    BY <1>1
  <2>2. /\ rest \in Seq(Line)
        /\ Len(rest) = IF i + 1 <= Len(file) THEN Len(file) - (i + 1) + 1 ELSE 0
        /\ \A n \in 1..(Len(file) - (i + 1) + 1) : rest[n] = file[i + 1 + n - 1]
    BY <1>1, <2>1, SubSeqProperties
  <2> HIDE DEF rest
  <2>3. Len(rest) = Len(file) - i
    <3>1. Len(rest) = IF i + 1 <= Len(file) THEN Len(file) - (i + 1) + 1 ELSE 0
      BY <2>2
    <3>2. i \in Nat /\ i <= Len(file) /\ Len(file) \in Nat
      BY <1>1
    <3>3. QED
      BY <3>1, <3>2
  <2>4. ASSUME NEW n \in 1..Len(rest) PROVE rest[n] = file[i + n]
    <3>1. n \in 1..(Len(file) - (i + 1) + 1) /\ i + 1 + n - 1 = i + n
      BY <1>1, <2>3
    <3>2. QED
      BY <2>2, <3>1
  <2>5. QED
    BY <2>2, <2>3, <2>4
<1>5. lines = head \o rest
  BY <1>2
<1> HIDE DEF head, rest
<1>6. /\ lines \in Seq(Line) /\ Len(lines) = Len(file) - 1
      /\ \A j \in 1..Len(lines) :
           lines[j] = IF j <= Len(head) THEN head[j] ELSE rest[j - Len(head)]
  <2>1. /\ lines \in Seq(Line) /\ Len(lines) = Len(head) + Len(rest)
        /\ \A j \in 1..Len(head) + Len(rest) :
             lines[j] = IF j <= Len(head) THEN head[j] ELSE rest[j - Len(head)]
    BY <1>3, <1>4, <1>5, ConcatProperties
  <2>2. Len(head) + Len(rest) = Len(file) - 1
    BY <1>1, <1>3, <1>4
  <2>3. QED
    BY <2>1, <2>2
<1>7. ASSUME NEW j \in 1..Len(lines) PROVE \E k \in 1..Len(file) : lines[j] = file[k]
  <2>1. CASE j <= Len(head)
    BY <1>1, <1>3, <1>6, <2>1
  <2>2. CASE ~(j <= Len(head))
    <3>1. j - Len(head) \in 1..Len(rest) /\ i + (j - Len(head)) \in 1..Len(file)
      BY <1>1, <1>3, <1>4, <1>6, <2>2
    <3>2. lines[j] = file[i + (j - Len(head))]
      BY <1>4, <1>6, <2>2, <3>1
    <3>3. QED
      BY <3>1, <3>2
  <2>3. QED
    BY <2>1, <2>2
<1>8. QED
  BY <1>6, <1>7, LinesOfFile

LEMMA ReorderedShows ==
  ASSUME LogInv, ~overlapped, NEW lines \in Reordered(file)
  PROVE  Verify(lines) # {} \/ OffTheEnd(lines)
<1>1. /\ file \in Seq(Line) /\ Len(file) \in Nat /\ DOMAIN file = 1..Len(file)
      /\ \A n \in 1..Len(file) : file[n] \in Line
  BY LenProperties, ElementOfSeq DEF LogInv, LogTyped
<1>2. PICK i \in 1..Len(file), j \in 1..Len(file) :
        lines = [file EXCEPT ![i] = file[j], ![j] = file[i]]
  BY <1>1 DEF Reordered
<1> DEFINE once == [file EXCEPT ![i] = file[j]]
<1>3. /\ once \in Seq(Line) /\ Len(once) = Len(file)
      /\ \A n \in 1..Len(file) : once[n] = IF n = i THEN file[j] ELSE file[n]
  BY <1>1, ExceptSeq, LenProperties
<1>4. lines = [once EXCEPT ![j] = file[i]]
  BY <1>2
<1> HIDE DEF once
<1>5. /\ lines \in Seq(Line) /\ Len(lines) = Len(file)
      /\ \A n \in 1..Len(file) : lines[n] = IF n = j THEN file[i] ELSE once[n]
  BY <1>1, <1>3, <1>4, ExceptSeq, LenProperties
<1>6. ASSUME NEW n \in 1..Len(lines) PROVE \E k \in 1..Len(file) : lines[n] = file[k]
  <2>1. lines[n] \in {file[n], file[i], file[j]}
    BY <1>3, <1>5
  <2>2. QED
    BY <1>5, <2>1
<1>7. QED
  BY <1>5, <1>6, LinesOfFile

(* Whoever edits an entry, with or without a hash to match, drops a line or *)
(* swaps two is found out, unless all that is gone is the end of the log.   *)
THEOREM TamperingIsSeen == Spec => []TamperingShows
<1>1. LogInv => TamperingShows
  <2> SUFFICES ASSUME LogInv, ~overlapped,
                      NEW lines \in Edited(file) \cup Rewritten(file)
                                    \cup Shortened(file) \cup Reordered(file)
               PROVE  Verify(lines) # {} \/ OffTheEnd(lines)
    BY DEF TamperingShows
  <2>1. QED
    BY EditedShows, RewrittenShows, ShortenedShows, ReorderedShows
<1>2. QED
  BY <1>1, LogAlways, PTL
=============================================================================
