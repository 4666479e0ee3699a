------------------------------ MODULE AuditLog ------------------------------
(***************************************************************************)
(* The audit trail (audit/log.py): a file of entries, each carrying the    *)
(* hash of the entry before it.  Frontend tool threads and broker threads  *)
(* append to one file; record reads the last hash, then opens the file and *)
(* appends, and nothing keeps another writer out in between.               *)
(***************************************************************************)
EXTENDS Integers, SequencesExt

CONSTANTS
  Writer,      \* threads, of either process, that record
  Outcome,     \* what an entry says of its call
  MaxCalls,    \* bound on the calls that are ever made
  ReadLimit,   \* lines that fit into _MAX_READ_BYTES
  TornWrites,  \* whether a full disk may cut a line short
  NoCall,      \* a writer with nothing to record
  NoTail,      \* a writer that has not read the last hash
  Partial,     \* a line cut short: no newline ends it
  Garbage      \* a line that does not parse

(* The hash of an entry stands for the whole entry and, through prev, for   *)
(* everything before it: sha256 is taken to be injective.                   *)
Said == (1..MaxCalls) \X Outcome

Hashes == Seq(Said)

Genesis == <<>>

HashOf(id, outcome, prev) == Append(prev, <<id, outcome>>)

Entry(id, outcome, prev) ==
  [id |-> id, outcome |-> outcome, prev |-> prev,
   hash |-> HashOf(id, outcome, prev)]

Record == [id : 1..MaxCalls, outcome : Outcome, prev : Hashes, hash : Hashes]

ASSUME LineAssumption ==
  /\ MaxCalls \in Nat /\ ReadLimit \in Nat
  /\ Partial # Garbage /\ Partial \notin Record /\ Garbage \notin Record
  /\ NoTail \notin Hashes
  /\ NoCall \notin [id : 1..MaxCalls, outcome : Outcome]

IsEntry(line) == line \notin {Partial, Garbage}

VARIABLES
  file,      \* its lines
  due,       \* the call each writer has to record, or NoCall
  tail,      \* what each writer read as the last hash, or NoTail
  calls,     \* calls made so far; also the last audit_id given out
  recorded,  \* history: the audit ids whose record returned
  overlapped \* history: two records have been under way at once

vars == <<file, due, tail, calls, recorded, overlapped>>

Init ==
  /\ file = <<>>
  /\ due = [w \in Writer |-> NoCall]
  /\ tail = [w \in Writer |-> NoTail]
  /\ calls = 0
  /\ recorded = {}
  /\ overlapped = FALSE

-----------------------------------------------------------------------------
(* Reading.  Lines that do not parse are passed over, and of a file beyond  *)
(* the limit only the end is read.                                          *)
Entries(lines) == {i \in DOMAIN lines : IsEntry(lines[i])}

ReadAll(lines) == {i \in Entries(lines) : i > Len(lines) - ReadLimit}

(* What lies before that. *)
Unread(lines) == Entries(lines) \ ReadAll(lines)

(* The hash of the newest of some entries. *)
NewestHash(lines, some) == IF some = {} THEN Genesis ELSE lines[Max(some)].hash

(* Mutant: only the last line is looked at, and it may not parse. *)
LastLineHash(lines) ==
  IF lines = <<>> \/ ~IsEntry(Last(lines)) THEN Genesis ELSE Last(lines).hash

LastHash(lines) == NewestHash(lines, Entries(lines))

(* verify compares every prev_hash with the entry_hash stored before it.    *)
Expected(lines, i) == NewestHash(lines, {j \in ReadAll(lines) : j < i})

HashIsRight(entry) == entry.hash = HashOf(entry.id, entry.outcome, entry.prev)

(* Mutant: every entry is only compared with its own hash. *)
VerifyContents(lines) == {i \in ReadAll(lines) : ~HashIsRight(lines[i])}

(* The entries verify complains of. *)
Verify(lines) ==
  {i \in ReadAll(lines) :
     lines[i].prev # Expected(lines, i) \/ ~HashIsRight(lines[i])}

-----------------------------------------------------------------------------
(* Recording.                                                              *)

(* A tool body or a broker operation is over: record is called, with a      *)
(* fresh audit_id.                                                          *)
CallEnds(w, outcome) ==
  /\ due[w] = NoCall
  /\ calls < MaxCalls
  /\ calls' = calls + 1
  /\ due' = [due EXCEPT ![w] = [id |-> calls + 1, outcome |-> outcome]]
  /\ UNCHANGED <<file, tail, recorded, overlapped>>

(* _last_entry_hash(self.path) or _GENESIS_HASH *)
ReadTail(w) ==
  /\ due[w] # NoCall
  /\ tail[w] = NoTail
  /\ tail' = [tail EXCEPT ![w] = LastHash(file)]
  /\ overlapped' = (overlapped \/ \E v \in Writer : tail[v] # NoTail)
  /\ UNCHANGED <<file, due, calls, recorded>>

(* O_APPEND puts the line at the end of the file, which is in the middle of *)
(* a line when the last one was cut short.                                  *)
Appended(lines, line) ==
  IF lines # <<>> /\ Last(lines) = Partial
  THEN [lines EXCEPT ![Len(lines)] = IF line = Partial THEN Partial ELSE Garbage]
  ELSE Append(lines, line)

Done(w) ==
  /\ due' = [due EXCEPT ![w] = NoCall]
  /\ tail' = [tail EXCEPT ![w] = NoTail]
  /\ UNCHANGED <<calls, overlapped>>

(* Mutant: the line goes to where the file ended when the hash was read. *)
EndSeen(w) ==
  Max({0} \cup {i \in DOMAIN file : IsEntry(file[i]) /\ file[i].hash = tail[w]})

WriteEntryThere(w) ==
  /\ tail[w] # NoTail
  /\ file' = Append(SubSeq(file, 1, EndSeen(w)),
                    Entry(due[w].id, due[w].outcome, tail[w]))
  /\ recorded' = recorded \cup {due[w].id}
  /\ Done(w)

WriteEntry(w) ==
  /\ tail[w] # NoTail
  /\ file' = Appended(file, Entry(due[w].id, due[w].outcome, tail[w]))
  /\ recorded' = recorded \cup {due[w].id}
  /\ Done(w)

(* No space left on the device: part of the line is written, record raises. *)
WriteFails(w) ==
  /\ TornWrites
  /\ tail[w] # NoTail
  /\ file' = Appended(file, Partial)
  /\ UNCHANGED recorded
  /\ Done(w)

Next ==
  \E w \in Writer :
    \/ \E outcome \in Outcome : CallEnds(w, outcome)
    \/ ReadTail(w)
    \/ WriteEntry(w)
    \/ WriteFails(w)

Spec == Init /\ [][Next]_vars

-----------------------------------------------------------------------------
(* Properties.                                                             *)

(* verify complains of nothing in a file nobody touched (log.py 120-123) so *)
(* long as no record was read for while another was being written: torn     *)
(* lines alone, however many, never break the chain.  Only a file beyond    *)
(* the limit is always complained of, and of the first entry that is read,  *)
(* which does not follow the genesis hash (log.py 146).                     *)
NoFalseAlarm ==
  \/ overlapped
  \/ Verify(file) = {i \in ReadAll(file) :
                       Unread(file) # {} /\ \A j \in ReadAll(file) : i <= j}

(* What can be done to a file, by an accident or by hand: to change what an *)
(* entry says, or one that is not the last and with a hash to match, to     *)
(* drop a line, and to swap two.                                            *)
Edited(lines) ==
  {[lines EXCEPT ![i].outcome = o] : i \in Entries(lines), o \in Outcome}

Rewritten(lines) ==
  {[lines EXCEPT ![i] = Entry(@.id, o, @.prev)] :
     i \in {j \in Entries(lines) : \E k \in Entries(lines) : j < k}, o \in Outcome}

Shortened(lines) == {RemoveAt(lines, i) : i \in DOMAIN lines}

Reordered(lines) ==
  {[lines EXCEPT ![i] = lines[j], ![j] = lines[i]] : i, j \in DOMAIN lines}

(* All that is read of it is in the file, after the same entries. *)
OffTheEnd(lines) ==
  \A i \in ReadAll(lines) : \E k \in Entries(file) :
    /\ lines[i] = file[k]
    /\ {lines[j] : j \in {j \in ReadAll(lines) : j < i}}
         = {file[j] : j \in {j \in Entries(file) : j < k}}

(* Every such damage shows, unless all it does is to take entries off the   *)
(* end of the log: verify has nothing to hold the last entry against        *)
(* (log.py 120-124).  A chain that forked has lost this: two entries may    *)
(* then be swapped unseen.                                                  *)
TamperingShows ==
  \/ overlapped
  \/ \A lines \in Edited(file) \cup Rewritten(file) \cup Shortened(file)
                    \cup Reordered(file) :
       Verify(lines) # {} \/ OffTheEnd(lines)

(* Every call whose record returned is what audit_get finds under its id,   *)
(* however many writers there were (log.py 3: one entry per write call),    *)
(* except for one call after each line that was cut short and what the      *)
(* file holds beyond the limit.                                             *)
RecordsKept ==
  LET kept == {file[i].id : i \in ReadAll(file)}
      garbled == {i \in DOMAIN file : file[i] = Garbage}
  IN Cardinality(recorded \ kept) <= Cardinality(garbled) + Cardinality(Unread(file))

=============================================================================
