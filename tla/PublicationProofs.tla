-------------------------- MODULE PublicationProofs --------------------------
(***************************************************************************)
(* Proofs about Publication, for every set of people, processes, releases  *)
(* and drafts: it is correctly typed, a plan is published at most once, a  *)
(* draft nobody raced for is posted at most once, a release nobody raced   *)
(* for is announced once but for the lost announcements, and the record of *)
(* a delivery stands.                                                      *)
(***************************************************************************)
EXTENDS Publication, SequenceTheorems, FiniteSetTheorems, TLAPS

USE PublicationAssumption, RowAssumption, IdleAssumption

-----------------------------------------------------------------------------
(* How a call moves.                                                       *)

(* The part of TypeOK that is about the calls. *)
CallsOK ==
  /\ call \in [Process -> CallRecord \cup {Idle}]
  /\ \A x \in Process : call[x] # Idle => CallOK(x)

(* Only the call of x changes, and to a call of the right type. *)
OnlyCall(x) ==
  /\ call' \in [Process -> CallRecord \cup {Idle}]
  /\ \A y \in Process \ {x} : call'[y] = call[y]

(* Whatever x does, the other calls are as before. *)
LEMMA CallChange ==
  ASSUME CallsOK, NEW x \in Process, OnlyCall(x),
         call'[x] # Idle => CallOK(x)',
         \A d \in Draft : drafts[d] # NoRow => drafts'[d] # NoRow
  PROVE  CallsOK'
<1>1. ASSUME NEW y \in Process, y # x, call'[y] # Idle
      PROVE  CallOK(y)'
  <2>1. call'[y] = call[y] /\ CallOK(y) /\ call[y] \in CallRecord
    BY <1>1 DEF CallsOK, OnlyCall
  <2>2. QED
    BY <2>1 DEF CallOK
<1>2. QED
  BY <1>1 DEF CallsOK, OnlyCall

(* A process that is idle begins a call that names no draft. *)
LEMMA StartMoves ==
  ASSUME CallsOK, NEW x \in Process, NEW tool \in Tool, NEW p \in Person \cup {Bot},
         NEW s \in Subject, NEW stage \in Stage, Start(x, tool, p, s, stage)
  PROVE  /\ OnlyCall(x)
         /\ call'[x] \in CallRecord
         /\ call'[x].tool = tool /\ call'[x].who = p
         /\ call'[x].subject = s
         /\ call'[x].draft = NoRow
         /\ call'[x].stage = stage
BY DEF CallsOK, Start, OnlyCall, CallRecord

(* Going on to another stage keeps everything else of the call. *)
LEMMA GotoMoves ==
  ASSUME CallsOK, NEW x \in Process, NEW stage \in Stage,
         call[x] # Idle, Goto(x, stage)
  PROVE  /\ OnlyCall(x)
         /\ call'[x] \in CallRecord
         /\ call'[x].tool = call[x].tool /\ call'[x].who = call[x].who
         /\ call'[x].subject = call[x].subject
         /\ call'[x].draft = call[x].draft
         /\ call'[x].stage = stage
BY DEF CallsOK, Goto, OnlyCall, CallRecord

LEMMA LeaveMoves ==
  ASSUME CallsOK, NEW x \in Process, Leave(x)
  PROVE  OnlyCall(x) /\ call'[x] = Idle
BY DEF CallsOK, Leave, OnlyCall

(* The stages an ongoing call can go on to without more being known of it. *)
LEMMA GotoOK ==
  ASSUME CallsOK, NEW x \in Process, NEW stage \in Stage,
         call[x] # Idle, Goto(x, stage),
         stage \in {"planned", "publishing"} => call[x].tool = "publish",
         stage \in {"select", "delete"} => call[x].tool = "submit",
         stage = "delete" => drafts'[call[x].draft] # NoRow,
         stage \in {"planned", "publishing", "look", "record"} =>
           call[x].subject \in Release
  PROVE  OnlyCall(x) /\ CallOK(x)'
BY GotoMoves DEF CallOK, CallsOK

-----------------------------------------------------------------------------
(* Type correctness.                                                       *)

(* The part of TypeOK that is about everything else. *)
StoresOK ==
  /\ brokered \in BOOLEAN
  /\ plan \in [Release -> [who : Person, at : Process] \cup {NoRow, Gone}]
  /\ ticket \in [Release -> TicketRow \cup {NoRow}]
  /\ atRoot = {r \in Release : ticket[r] # NoRow /\ ticket[r].flying}
  /\ published \in [Release -> Nat]
  /\ delivered \in [Release -> 0..Len(posts)]
  /\ drafts \in [Draft -> DraftRow \cup {NoRow}]
  /\ posts \in Seq(Release)
  /\ lost \in [Release -> Nat]
  /\ used \in [Draft -> Nat]
  /\ raced \subseteq Release \cup Draft

LEMMA TypeParts ==
  (TypeOK <=> StoresOK /\ CallsOK) /\ (TypeOK' <=> StoresOK' /\ CallsOK')
BY DEF TypeOK, StoresOK, CallsOK

(* A call that begins is one. *)
LEMMA StartOK ==
  ASSUME CallsOK, NEW x \in Process, NEW tool \in Tool, NEW p \in Person \cup {Bot},
         NEW s \in Subject, NEW stage \in {"planned", "look", "prepare"},
         Start(x, tool, p, s, stage), tool # "submit",
         stage = "planned" => tool = "publish",
         tool \in {"publish", "draft"} => p \in Person,
         stage \in {"planned", "look"} => s \in Release,
         \A d \in Draft : drafts[d] # NoRow => drafts'[d] # NoRow
  PROVE  CallsOK'
<1>1. stage \in Stage
  BY DEF Stage
<1>2. /\ OnlyCall(x)
      /\ call'[x].tool = tool /\ call'[x].who = p
      /\ call'[x].subject = s
      /\ call'[x].draft = NoRow
      /\ call'[x].stage = stage
  BY <1>1, StartMoves
<1>3. CallOK(x)'
  BY <1>2 DEF CallOK
<1>4. QED
  BY <1>2, <1>3, CallChange

(* The owner's approval comes and goes; a ticket in flight stays.           *)
LEMMA ConfirmType ==
  ASSUME TypeOK, NEW p \in Person, NEW r \in Release, Confirm(p, r)
  PROVE  TypeOK'
<1>1. ticket' \in [Release -> TicketRow \cup {NoRow}]
  <2>1. [who |-> p, flying |-> FALSE] \in TicketRow
    BY DEF TicketRow
  <2>2. ticket \in [Release -> TicketRow \cup {NoRow}]
    BY DEF TypeOK
  <2>3. QED
    BY <2>1, <2>2 DEF Confirm
<1>2. \A s \in Release : ticket'[s] # ticket[s] =>
        /\ ticket[s] = NoRow \/ ~ticket[s].flying
        /\ ticket'[s] = NoRow \/ ~ticket'[s].flying
  <2>1. ticket \in [Release -> TicketRow \cup {NoRow}]
    BY DEF TypeOK
  <2>2. CASE ticket[r] = NoRow /\ ticket' = [ticket EXCEPT ![r] = [who |-> p, flying |-> FALSE]]
    BY <2>1, <2>2
  <2>3. CASE Approved(p, r) /\ ticket' = [ticket EXCEPT ![r] = NoRow]
    <3>1. ~ticket[r].flying
      BY <2>3 DEF Approved
    <3>2. QED
      BY <2>1, <2>3, <3>1
  <2>4. QED
    BY <2>2, <2>3 DEF Confirm
<1>3. {s \in Release : ticket'[s] # NoRow /\ ticket'[s].flying} = atRoot
  BY <1>2 DEF TypeOK
<1>4. StoresOK'
  BY <1>1, <1>3 DEF Confirm, TypeOK, StoresOK, relays
<1>5. CallsOK'
  BY DEF Confirm, TypeOK, CallsOK, CallOK
<1>6. QED
  BY <1>4, <1>5, TypeParts

(* Naming a plan uses it up and, without a broker, its ticket.              *)
LEMMA BeginPublishType ==
  ASSUME TypeOK, NEW x \in Process, NEW p \in Person, NEW r \in Release,
         BeginPublish(x, p, r)
  PROVE  TypeOK'
<1>1. ticket' \in [Release -> TicketRow \cup {NoRow}]
  BY DEF BeginPublish, TakeTicket, TypeOK
<1>2. \A s \in Release : ticket'[s] # ticket[s] =>
        ticket'[s] = NoRow /\ ~ticket[s].flying
  BY DEF BeginPublish, TakeTicket, TypeOK, Approved
<1>3. {s \in Release : ticket'[s] # NoRow /\ ticket'[s].flying} = atRoot
  BY <1>2 DEF TypeOK
<1>4. StoresOK'
  BY <1>1, <1>3 DEF BeginPublish, TypeOK, StoresOK, relays
<1>5. CASE Start(x, "publish", p, r, "planned")
  BY <1>4, <1>5, StartOK, TypeParts DEF BeginPublish, Tool, Subject
<1>6. CASE UNCHANGED call
  BY <1>4, <1>6, TypeParts DEF BeginPublish, CallsOK, CallOK
<1>7. QED
  BY <1>5, <1>6 DEF BeginPublish

LEMMA CallType ==
  ASSUME TypeOK, NEW x \in Process, Call(x)
  PROVE  TypeOK'
<1> USE TypeParts
<1>1. CASE JoinByBot(x)
  BY <1>1, StartOK DEF JoinByBot, StoresOK, catalogue, relays, Tool, Subject
<1>2. ASSUME NEW r \in Release, Announce(x, r) PROVE TypeOK'
  BY <1>2, StartOK DEF Announce, StoresOK, catalogue, relays, Tool, Subject
<1>3. ASSUME NEW p \in Person, NEW s \in Subject, AskDraft(x, p, s) PROVE TypeOK'
  <2>1. CASE s = Join
    BY <1>3, <2>1, StartOK DEF AskDraft, StoresOK, catalogue, relays, Tool, Subject
  <2>2. CASE s # Join
    BY <1>3, <2>2, StartOK DEF AskDraft, StoresOK, catalogue, relays, Tool, Subject
  <2>3. QED
    BY <2>1, <2>2
<1>4. ASSUME NEW p \in Person, NEW s \in Subject, NEW d \in Draft, Submit(x, p, s, d)
      PROVE  TypeOK'
  <2>1. OnlyCall(x) /\ call'[x].tool = "submit" /\ call'[x].draft = d
                    /\ call'[x].stage = "select"
    BY <1>4 DEF Submit, CallsOK, OnlyCall, CallRecord, Tool, Stage
  <2>2. CallOK(x)'
    BY <2>1 DEF CallOK
  <2>3. CallsOK'
    BY <1>4, <2>1, <2>2, CallChange DEF Submit
  <2>4. QED
    BY <1>4, <2>3 DEF Submit, StoresOK, catalogue, relays
<1>5. ASSUME NEW p \in Person, NEW r \in Release, MakePlan(x, p, r) PROVE TypeOK'
  <2>1. plan' \in [Release -> [who : Person, at : Process] \cup {NoRow, Gone}]
    BY <1>5 DEF MakePlan, StoresOK
  <2>2. QED
    BY <1>5, <2>1 DEF MakePlan, StoresOK, CallsOK, CallOK, relays
<1>6. QED
  BY <1>1, <1>2, <1>3, <1>4, <1>5, ConfirmType, BeginPublishType DEF Call

(* Root takes the ticket, or the call is over. *)
LEMMA ForwardType ==
  ASSUME TypeOK, NEW x \in Process, Forward(x)
  PROVE  TypeOK'
<1> DEFINE r == call[x].subject
<1> USE TypeParts
<1>1. /\ call[x] # Idle /\ call[x].tool = "publish" /\ r \in Release
      /\ call[x] \in CallRecord /\ call[x].who \in Person
  BY DEF Forward, At, CallsOK, CallOK
<1>2. CASE Approved(call[x].who, r)
  <2>1. ticket' = [ticket EXCEPT ![r].flying = TRUE] /\ atRoot' = atRoot \cup {r}
    BY <1>2 DEF Forward
  <2>2. ticket[r] = [who |-> call[x].who, flying |-> FALSE]
    BY <1>2 DEF Approved
  <2>3. CASE ticket[r] = NoRow
    <3>1. [who |-> call[x].who, flying |-> FALSE] \in TicketRow
      BY <1>1 DEF TicketRow
    <3>2. QED
      BY <2>2, <2>3, <3>1
  <2>4. CASE ticket[r] # NoRow
    <3>1. ticket[r] \in TicketRow
      BY <1>1, <2>4 DEF StoresOK
    <3>2. [ticket[r] EXCEPT !.flying = TRUE] \in TicketRow
      BY <3>1 DEF TicketRow
    <3>3. /\ ticket' \in [Release -> TicketRow \cup {NoRow}]
          /\ ticket'[r] # NoRow /\ ticket'[r].flying
          /\ \A s \in Release \ {r} : ticket'[s] = ticket[s]
      BY <1>1, <2>1, <3>1, <3>2 DEF StoresOK, TicketRow
    <3>4. atRoot' = {s \in Release : ticket'[s] # NoRow /\ ticket'[s].flying}
      BY <1>1, <2>1, <3>3 DEF StoresOK
    <3>5. StoresOK'
      BY <3>3, <3>4 DEF Forward, StoresOK, relays
    <3>6. CallsOK'
      BY <1>1, <1>2, GotoOK, CallChange DEF Forward, Stage
    <3>7. QED
      BY <3>5, <3>6
  <2>5. QED
    BY <2>3, <2>4
<1>3. CASE ~Approved(call[x].who, r)
  BY <1>3, LeaveMoves, CallChange DEF Forward, StoresOK, relays
<1>4. QED
  BY <1>2, <1>3

(* An answer ends the call or sends it on to the announcement. *)
LEMMA AnswerOK ==
  ASSUME CallsOK, NEW x \in Process, NEW ok \in BOOLEAN,
         At(x, "planned") \/ At(x, "publishing"), Answer(x, ok), drafts' = drafts
  PROVE  CallsOK' /\ OnlyCall(x) /\ (call'[x] = Idle \/ call'[x].stage = "look")
<1>1. CASE Leave(x)
  BY <1>1, LeaveMoves, CallChange
<1>2. CASE Goto(x, "look")
  <2>1. call[x] # Idle /\ call[x].subject \in Release
    BY DEF CallsOK, CallOK, At
  <2>2. "look" \in Stage
    BY DEF Stage
  <2>3. QED
    BY <1>2, <2>1, <2>2, GotoOK, GotoMoves, CallChange
<1>3. QED
  BY <1>1, <1>2 DEF Answer

LEMMA PublishHereType ==
  ASSUME TypeOK, NEW x \in Process, PublishHere(x)
  PROVE  TypeOK'
<1>1. call[x].subject \in Release
  BY DEF PublishHere, At, TypeOK, CallOK
<1>2. published' \in [Release -> Nat]
  BY <1>1 DEF PublishHere, TypeOK
<1>3. StoresOK'
  BY <1>2 DEF PublishHere, TypeOK, StoresOK, relays
<1>4. CallsOK'
  BY TypeParts, AnswerOK DEF PublishHere
<1>5. QED
  BY <1>3, <1>4, TypeParts

(* Root is done: the ticket is burnt or lands again. *)
LEMMA PublishAtRootType ==
  ASSUME TypeOK, NEW r \in Release, PublishAtRoot(r)
  PROVE  TypeOK'
<1> USE TypeParts
<1>1. ticket[r] \in TicketRow
  BY DEF PublishAtRoot, StoresOK
<1>2. PICK out \in BOOLEAN, ok \in BOOLEAN :
        /\ published' = [published EXCEPT ![r] = @ + (IF out THEN 1 ELSE 0)]
        /\ ticket' = IF out /\ ok THEN [ticket EXCEPT ![r] = NoRow]
                     ELSE [ticket EXCEPT ![r].flying = FALSE]
        /\ IF \E x \in Process : Publishing(x, r)
             THEN \E x \in Process : Publishing(x, r) /\ Answer(x, out /\ ok)
             ELSE UNCHANGED call
  BY DEF PublishAtRoot
<1>3. /\ ticket' \in [Release -> TicketRow \cup {NoRow}]
      /\ ticket'[r] = NoRow \/ ~ticket'[r].flying
      /\ \A s \in Release \ {r} : ticket'[s] = ticket[s]
  <2>1. [ticket[r] EXCEPT !.flying = FALSE] \in TicketRow
    BY <1>1 DEF TicketRow
  <2>2. QED
    BY <1>1, <1>2, <2>1 DEF StoresOK, TicketRow
<1>4. atRoot' = {s \in Release : ticket'[s] # NoRow /\ ticket'[s].flying}
  BY <1>3 DEF PublishAtRoot, StoresOK
<1>5. published' \in [Release -> Nat]
  BY <1>2 DEF StoresOK
<1>6. StoresOK'
  BY <1>3, <1>4, <1>5 DEF PublishAtRoot, StoresOK, relays
<1>7. drafts' = drafts
  BY DEF PublishAtRoot
<1>8. CallsOK'
  <2>1. CASE UNCHANGED call
    BY <1>7, <2>1 DEF CallsOK, CallOK
  <2>2. CASE \E x \in Process : Publishing(x, r) /\ Answer(x, out /\ ok)
    BY <1>7, <2>2, AnswerOK DEF Publishing
  <2>3. QED
    BY <1>2, <2>1, <2>2
<1>9. QED
  BY <1>6, <1>8

(* SELECT and DELETE: the row stays what it is but for its life. *)
LEMMA SelectType ==
  ASSUME TypeOK, NEW x \in Process, Select(x)
  PROVE  TypeOK'
<1> USE TypeParts
<1>1. call[x] # Idle /\ call[x].tool = "submit" /\ call[x].draft \in Draft
  BY DEF Select, At, CallsOK, CallOK
<1>2. StoresOK'
  BY <1>1 DEF Select, StoresOK, catalogue, relays
<1>3. CallsOK'
  <2>1. CASE Leave(x)
    BY <2>1, LeaveMoves, CallChange DEF Select
  <2>2. CASE drafts[call[x].draft] # NoRow /\ Goto(x, "delete")
    <3>1. "delete" \in Stage
      BY DEF Stage
    <3>2. QED
      BY <1>1, <2>2, <3>1, GotoOK, CallChange DEF Select
  <2>3. QED
    BY <2>1, <2>2 DEF Select
<1>4. QED
  BY <1>2, <1>3

(* Which row the deletion kills. *)
LEMMA RemoveUpdate ==
  ASSUME TypeOK, NEW x \in Process, At(x, "delete"), Remove(x)
  PROVE  /\ call[x].draft \in Draft
         /\ drafts[call[x].draft] \in DraftRow
         /\ drafts' \in [Draft -> DraftRow \cup {NoRow}]
         /\ drafts'[call[x].draft] \in DraftRow
         /\ ~drafts'[call[x].draft].live
         /\ \A d \in Draft \ {call[x].draft} : drafts'[d] = drafts[d]
<1>1. call[x].draft \in Draft /\ drafts[call[x].draft] # NoRow
  BY DEF At, TypeOK, CallOK
<1>2. drafts[call[x].draft] \in DraftRow
  BY <1>1 DEF TypeOK
<1>3. [drafts[call[x].draft] EXCEPT !.live = FALSE] \in DraftRow
  BY <1>2 DEF DraftRow
<1>4. QED
  BY <1>1, <1>2, <1>3 DEF Remove, TypeOK, DraftRow

(* What a submit goes on with is the subject that was drafted. *)
LEMMA DeleteMoves ==
  ASSUME TypeOK, NEW x \in Process, Delete(x)
  PROVE  /\ OnlyCall(x)
         /\ \/ call'[x] = Idle
            \/ /\ call'[x] \in CallRecord
               /\ call'[x].tool = call[x].tool
               /\ call'[x].draft = call[x].draft
               /\ call'[x].stage \in {"send", "look"}
               /\ call'[x].stage = "look" => call'[x].subject \in Release
<1> DEFINE row == drafts[call[x].draft]
<1>1. CASE Leave(x)
  BY <1>1, LeaveMoves, TypeParts
<1>2. CASE call' = [call EXCEPT ![x].stage = AfterDraft(row.subject),
                                ![x].subject = row.subject]
  <2>1. call[x] # Idle /\ call[x] \in CallRecord
    BY DEF Delete, At, TypeOK
  <2>2. row.subject \in Subject
    BY RemoveUpdate DEF Delete, DraftRow
  <2>3. /\ AfterDraft(row.subject) \in {"send", "look"}
        /\ AfterDraft(row.subject) = "look" => row.subject \in Release
    BY <2>2 DEF AfterDraft, Subject
  <2>4. AfterDraft(row.subject) \in Stage
    BY <2>3 DEF Stage
  <2>5. QED
    BY <1>2, <2>1, <2>2, <2>3, <2>4 DEF TypeOK, OnlyCall, CallRecord
<1>3. QED
  BY <1>1, <1>2 DEF Delete

LEMMA DeleteType ==
  ASSUME TypeOK, NEW x \in Process, Delete(x)
  PROVE  TypeOK'
<1>1. At(x, "delete") /\ Remove(x)
  BY DEF Delete
<1>2. StoresOK'
  BY <1>1, RemoveUpdate DEF Delete, TypeOK, StoresOK, catalogue, relays
<1>3. \A d \in Draft : drafts[d] # NoRow => drafts'[d] # NoRow
  BY <1>1, RemoveUpdate
<1>4. call'[x] # Idle => CallOK(x)'
  BY <1>1, DeleteMoves DEF At, TypeOK, CallOK
<1>5. QED
  BY <1>2, <1>3, <1>4, DeleteMoves, CallChange, TypeParts

LEMMA LookType ==
  ASSUME TypeOK, NEW x \in Process, Look(x)
  PROVE  TypeOK'
<1> USE TypeParts
<1>1. call[x] # Idle /\ call[x].subject \in Release
  BY DEF Look, At, CallsOK, CallOK
<1>2. StoresOK'
  BY <1>1 DEF Look, StoresOK, catalogue, relays
<1>3. CallsOK'
  <2>1. CASE Leave(x)
    BY <2>1, LeaveMoves, CallChange DEF Look
  <2>2. ASSUME NEW stage \in {"send", "prepare"}, Goto(x, stage)
        PROVE  CallsOK'
    <3>1. stage \in Stage
      BY DEF Stage
    <3>2. QED
      BY <1>1, <2>2, <3>1, GotoOK, CallChange DEF Look
  <2>3. QED
    BY <2>1, <2>2 DEF Look
<1>4. QED
  BY <1>2, <1>3

LEMMA PrepareType ==
  ASSUME TypeOK, NEW x \in Process, Prepare(x)
  PROVE  TypeOK'
<1>1. StoresOK'
  BY TypeParts DEF Prepare, StoresOK, catalogue, relays
<1>2. CASE Goto(x, "send")
  <2>1. call[x] # Idle
    BY DEF Prepare, At
  <2>2. "send" \in Stage
    BY DEF Stage
  <2>3. QED
    BY <1>1, <1>2, <2>1, <2>2, GotoOK, CallChange, TypeParts DEF Prepare
<1>3. CASE Leave(x)
  BY <1>1, <1>3, LeaveMoves, CallChange, TypeParts DEF Prepare
<1>4. QED
  BY <1>2, <1>3 DEF Prepare

LEMMA PrepareDraftType ==
  ASSUME TypeOK, NEW x \in Process, NEW d \in Draft, PrepareDraft(x, d)
  PROVE  TypeOK'
<1> DEFINE row == [who |-> call[x].who, subject |-> call[x].subject, live |-> TRUE]
<1>1. call[x] \in CallRecord /\ call[x].tool = "draft" /\ call[x].who \in Person
  BY DEF PrepareDraft, At, TypeOK, CallOK
<1>2. row \in DraftRow
  BY <1>1 DEF DraftRow, CallRecord
<1>3. /\ drafts' \in [Draft -> DraftRow \cup {NoRow}]
      /\ \A e \in Draft : drafts[e] # NoRow => drafts'[e] # NoRow
  <2>1. drafts \in [Draft -> DraftRow \cup {NoRow}]
    BY DEF TypeOK
  <2>2. drafts' = drafts \/ drafts' = [drafts EXCEPT ![d] = row]
    BY DEF PrepareDraft
  <2>3. QED
    BY <1>2, <2>1, <2>2
<1>4. StoresOK'
  BY <1>3 DEF PrepareDraft, TypeOK, StoresOK, catalogue, relays
<1>5. QED
  BY <1>3, <1>4, LeaveMoves, CallChange, TypeParts DEF PrepareDraft

(* What a post does to the relays and to the call that sent it. *)
LEMMA SendMoves ==
  ASSUME TypeOK, NEW x \in Process, Send(x)
  PROVE  /\ OnlyCall(x)
         /\ UNCHANGED used \/ CountUse(x)
         /\ \/ posts' = posts
            \/ /\ call[x].subject \in Release
               /\ posts' = Append(posts, call[x].subject)
         /\ \/ call'[x] = Idle
            \/ /\ call[x].subject \in Release
               /\ posts' = Append(posts, call[x].subject)
               /\ call'[x] \in CallRecord
               /\ call'[x].tool = call[x].tool
               /\ call'[x].who = call[x].who
               /\ call'[x].subject = call[x].subject
               /\ call'[x].draft = call[x].draft
               /\ call'[x].stage = "record"
               /\ call'[x].event = Len(posts')
<1>1. call[x] # Idle /\ call[x] \in CallRecord
  BY DEF Send, At, TypeOK
<1>2. CASE Leave(x) /\ (UNCHANGED posts \/ posts' = Append(posts, call[x].subject))
           /\ (UNCHANGED used \/ CountUse(x))
           /\ (UNCHANGED posts \/ call[x].subject # Join)
  BY <1>1, <1>2, LeaveMoves, TypeParts DEF Subject, CallRecord
<1>3. CASE /\ call[x].subject # Join
           /\ posts' = Append(posts, call[x].subject)
           /\ CountUse(x) /\ AfterPost(x)
  <2>1. call[x].subject \in Release
    BY <1>1, <1>3 DEF CallRecord, Subject
  <2>2. Len(posts') \in Nat
    BY <1>3, <2>1 DEF TypeOK
  <2>3. call' = [call EXCEPT ![x].stage = "record", ![x].event = Len(posts')]
    BY <1>3 DEF AfterPost, ToRecord
  <2>4. QED
    BY <1>1, <1>3, <2>1, <2>2, <2>3 DEF TypeOK, OnlyCall, CallRecord, Stage
<1>4. QED
  BY <1>2, <1>3 DEF Send, relays

LEMMA SendType ==
  ASSUME TypeOK, NEW x \in Process, Send(x)
  PROVE  TypeOK'
<1>1. call[x] # Idle /\ call[x] \in CallRecord /\ CallOK(x)
  BY DEF Send, At, TypeOK
<1>2. /\ posts' \in Seq(Release) /\ Len(posts) <= Len(posts')
      /\ Len(posts) \in Nat /\ Len(posts') \in Nat
  <2>1. posts \in Seq(Release)
    BY DEF TypeOK
  <2>2. \/ posts' = posts
        \/ call[x].subject \in Release /\ posts' = Append(posts, call[x].subject)
    BY SendMoves
  <2>3. CASE posts' = posts
    BY <2>1, <2>3
  <2>4. CASE call[x].subject \in Release /\ posts' = Append(posts, call[x].subject)
    <3>1. posts' \in Seq(Release) /\ Len(posts') = Len(posts) + 1
      BY <2>1, <2>4, AppendProperties
    <3>2. QED
      BY <2>1, <3>1
  <2>5. QED
    BY <2>2, <2>3, <2>4
<1>3. delivered' \in [Release -> 0..Len(posts')]
  <2>1. delivered \in [Release -> 0..Len(posts)] /\ delivered' = delivered
    BY DEF Send, TypeOK
  <2>2. QED
    BY <1>2, <2>1
<1>4. used' \in [Draft -> Nat]
  <2>1. used \in [Draft -> Nat]
    BY DEF TypeOK
  <2>2. used' = used \/ used' = [used EXCEPT ![call[x].draft] = @ + 1]
    BY SendMoves DEF CountUse
  <2>3. QED
    BY <2>1, <2>2
<1>5. lost' \in [Release -> Nat]
  <2>1. lost \in [Release -> Nat]
    BY DEF TypeOK
  <2>2. lost' = lost \/ lost' = [lost EXCEPT ![call[x].subject] = @ + 1]
    BY DEF Send, relays
  <2>3. QED
    BY <2>1, <2>2
<1>6. StoresOK'
  BY <1>2, <1>3, <1>4, <1>5 DEF Send, TypeOK, StoresOK, catalogue
<1>7. call'[x] # Idle => CallOK(x)'
  BY <1>1, SendMoves DEF CallOK
<1>8. QED
  BY <1>6, <1>7, SendMoves, CallChange, TypeParts DEF Send

LEMMA RecordType ==
  ASSUME TypeOK, RecordsAreTrue, NEW x \in Process, Record(x)
  PROVE  TypeOK'
<1>1. call[x].subject \in Release /\ call[x].event \in 1..Len(posts)
  BY DEF Record, At, TypeOK, CallOK, RecordsAreTrue
<1>2. delivered' \in [Release -> 0..Len(posts)]
  <2>1. delivered \in [Release -> 0..Len(posts)]
    BY DEF TypeOK
  <2>2. QED
    BY <1>1, <2>1 DEF Record, InsertOrIgnore
<1>3. StoresOK'
  BY <1>2 DEF Record, TypeOK, StoresOK, catalogue, relays
<1>4. QED
  BY <1>3, LeaveMoves, CallChange, TypeParts DEF Record

LEMMA GiveUpType ==
  ASSUME TypeOK, NEW x \in Process, GiveUp(x)
  PROVE  TypeOK'
BY LeaveMoves, CallChange, TypeParts DEF GiveUp, StoresOK, catalogue, relays

LEMMA CrashType ==
  ASSUME TypeOK, NEW x \in Process, Crash(x)
  PROVE  TypeOK'
<1>1. plan' \in [Release -> [who : Person, at : Process] \cup {NoRow, Gone}]
  BY DEF Crash, TypeOK, Pending
<1>2. lost' \in [Release -> Nat]
  BY DEF Crash, TypeOK
<1>3. StoresOK'
  BY <1>1, <1>2 DEF Crash, TypeOK, StoresOK
<1>4. QED
  BY <1>3, LeaveMoves, CallChange, TypeParts DEF Crash, Leave

LEMMA PlanLapsesType ==
  ASSUME TypeOK, NEW r \in Release, PlanLapses(r)
  PROVE  TypeOK'
<1>1. plan' \in [Release -> [who : Person, at : Process] \cup {NoRow, Gone}]
  BY DEF PlanLapses, TypeOK
<1>2. QED
  BY <1>1, TypeParts DEF PlanLapses, StoresOK, CallsOK, CallOK, relays

LEMMA NextType == ASSUME TypeOK, RecordsAreTrue, [Next]_vars PROVE TypeOK'
<1>1. ASSUME NEW x \in Process, Serve(x) PROVE TypeOK'
  BY <1>1, ForwardType, PublishHereType, GiveUpType, SelectType, DeleteType,
     LookType, PrepareType, SendType, RecordType, PrepareDraftType DEF Serve
<1>2. CASE UNCHANGED vars
  BY <1>2, TypeParts DEF vars, catalogue, relays, StoresOK, CallsOK, CallOK
<1>3. QED
  BY <1>1, <1>2, CallType, CrashType, PlanLapsesType, PublishAtRootType DEF Next

LEMMA InitType == Init => TypeOK
<1>1. Init => StoresOK
  BY DEF Init, StoresOK
<1>2. Init => CallsOK
  BY DEF Init, CallsOK
<1>3. QED
  BY <1>1, <1>2, TypeParts

-----------------------------------------------------------------------------
(* The record of a delivery.                                               *)

(* Events are only appended, so that what has been said of one stays true. *)
LEMMA PostsGrow ==
  ASSUME TypeOK, [Next]_vars
  PROVE  /\ Len(posts) \in Nat /\ Len(posts') \in Nat /\ Len(posts) <= Len(posts')
         /\ \A e \in 1..Len(posts) : posts'[e] = posts[e]
<1>1. posts' = posts \/ \E x \in Process : Send(x)
  <2>1. ASSUME NEW x \in Process, Call(x) PROVE posts' = posts
    BY <2>1 DEF Call, JoinByBot, Announce, MakePlan, Confirm, BeginPublish, AskDraft,
       Submit, relays
  <2>2. ASSUME NEW x \in Process, Serve(x), ~Send(x) PROVE posts' = posts
    BY <2>2 DEF Serve, Forward, PublishHere, GiveUp, Select, Delete, Look, Prepare,
       Record, PrepareDraft, relays
  <2>3. QED
    BY <2>1, <2>2 DEF Next, Crash, PlanLapses, PublishAtRoot, relays, vars
<1>2. posts \in Seq(Release)
  BY DEF TypeOK
<1>3. CASE posts' = posts
  BY <1>2, <1>3
<1>4. ASSUME NEW s \in Release, posts' = Append(posts, s)
      PROVE  /\ Len(posts) \in Nat /\ Len(posts') \in Nat /\ Len(posts) <= Len(posts')
             /\ \A e \in 1..Len(posts) : posts'[e] = posts[e]
  BY <1>2, <1>4, AppendProperties
<1>5. QED
  BY <1>1, <1>3, <1>4, SendMoves

(* A call comes to the record only by sending, and is over after it.        *)
LEMMA RecordComesFromSend ==
  ASSUME TypeOK, [Next]_vars, NEW x \in Process, At(x, "record")'
  PROVE  call'[x] = call[x] \/ Send(x)
<1>1. ASSUME NEW y \in Process, OnlyCall(y),
             call'[y] = Idle \/ call'[y].stage # "record"
      PROVE  call'[x] = call[x]
  BY <1>1 DEF OnlyCall, At
<1> USE TypeParts
<1>2. ASSUME NEW y \in Process, Call(y) PROVE call'[x] = call[x]
  <2>1. CASE UNCHANGED call
    BY <2>1
  <2>2. ASSUME NEW tool \in Tool, NEW p \in Person \cup {Bot}, NEW s \in Subject,
               NEW stage \in Stage \ {"record"}, Start(y, tool, p, s, stage)
        PROVE  call'[x] = call[x]
    BY <1>1, <2>2, StartMoves
  <2>3. ASSUME NEW p \in Person, NEW s \in Subject, NEW d \in Draft, Submit(y, p, s, d)
        PROVE  call'[x] = call[x]
    BY <1>1, <2>3 DEF Submit, CallsOK, OnlyCall, CallRecord, Tool, Stage
  <2>4. QED
    BY <1>2, <2>1, <2>2, <2>3 DEF Call, JoinByBot, Announce, MakePlan, Confirm,
       BeginPublish, AskDraft, Tool, Stage, Subject
<1>3. ASSUME NEW y \in Process, Leave(y) PROVE call'[x] = call[x]
  BY <1>1, <1>3, LeaveMoves
<1>4. ASSUME NEW y \in Process, NEW stage \in Stage \ {"record"}, call[y] # Idle,
             Goto(y, stage)
      PROVE  call'[x] = call[x]
  BY <1>1, <1>4, GotoMoves
<1>5. ASSUME NEW y \in Process, Serve(y) PROVE call'[x] = call[x] \/ Send(x)
  <2>1. CASE Forward(y) \/ PublishHere(y) \/ GiveUp(y) \/ Select(y) \/ Look(y)
             \/ Prepare(y) \/ Record(y) \/ \E d \in Draft : PrepareDraft(y, d)
    BY <1>3, <1>4, <2>1 DEF Forward, PublishHere, GiveUp, Select, Look, Prepare,
       Record, PrepareDraft, Answer, At, Stage
  <2>2. CASE Delete(y)
    BY <1>1, <2>2, DeleteMoves
  <2>3. CASE Send(y)
    BY <2>3, SendMoves DEF OnlyCall
  <2>4. QED
    BY <1>5, <2>1, <2>2, <2>3 DEF Serve
<1>6. ASSUME NEW y \in Process, Crash(y) PROVE call'[x] = call[x]
  BY <1>3, <1>6 DEF Crash, Leave
<1>7. ASSUME NEW r \in Release, PublishAtRoot(r) PROVE call'[x] = call[x]
  BY <1>3, <1>4, <1>7 DEF PublishAtRoot, Publishing, Answer, At, Stage
<1>8. ASSUME NEW r \in Release, PlanLapses(r) PROVE call'[x] = call[x]
  BY <1>8 DEF PlanLapses
<1>9. QED
  BY <1>2, <1>5, <1>6, <1>7, <1>8 DEF Next, vars

(* Only the record of an event writes, and only where there was none. *)
LEMMA DeliveredChange ==
  ASSUME TypeOK, [Next]_vars
  PROVE  \/ delivered' = delivered
         \/ \E x \in Process :
              /\ At(x, "record") /\ call[x].subject \in Release
              /\ delivered' = [delivered EXCEPT ![call[x].subject] =
                                 IF @ = 0 THEN call[x].event ELSE @]
<1>1. delivered' = delivered \/ \E x \in Process : Record(x)
  BY DEF Next, Call, Serve, JoinByBot, Announce, MakePlan, Confirm, BeginPublish,
     AskDraft, Submit, Forward, PublishHere, GiveUp, Select, Delete, Look, Prepare,
     Send, PrepareDraft, Crash, PlanLapses, PublishAtRoot, vars
<1>2. ASSUME NEW x \in Process, Record(x)
      PROVE  /\ At(x, "record") /\ call[x].subject \in Release
             /\ delivered' = [delivered EXCEPT ![call[x].subject] =
                                IF @ = 0 THEN call[x].event ELSE @]
  BY <1>2 DEF Record, InsertOrIgnore, At, TypeOK, CallOK
<1>3. QED
  BY <1>1, <1>2

Stands ==
  \A r \in Release :
    /\ delivered[r] # 0 => delivered'[r] = delivered[r]
    /\ delivered'[r] # 0 => posts[delivered'[r]] = r

LEMMA RecordsStep ==
  ASSUME TypeOK, RecordsAreTrue, [Next]_vars
  PROVE  RecordsAreTrue' /\ Stands
<1>1. /\ Len(posts) \in Nat /\ Len(posts') \in Nat /\ Len(posts) <= Len(posts')
      /\ \A e \in 1..Len(posts) : posts'[e] = posts[e]
  BY PostsGrow
<1>2. \A r \in Release : delivered[r] \in 0..Len(posts)
  BY DEF TypeOK
<1>3. \A r \in Release :
        /\ \/ delivered'[r] = delivered[r]
           \/ delivered[r] = 0 /\ delivered'[r] \in 1..Len(posts)
        /\ delivered'[r] # 0 => posts[delivered'[r]] = r
  <2>1. CASE delivered' = delivered
    BY <2>1 DEF RecordsAreTrue
  <2>2. ASSUME NEW x \in Process, At(x, "record"), call[x].subject \in Release,
               delivered' = [delivered EXCEPT ![call[x].subject] =
                               IF @ = 0 THEN call[x].event ELSE @],
               NEW r \in Release
        PROVE  /\ \/ delivered'[r] = delivered[r]
                  \/ delivered[r] = 0 /\ delivered'[r] \in 1..Len(posts)
               /\ delivered'[r] # 0 => posts[delivered'[r]] = r
    <3>1. call[x].event \in 1..Len(posts) /\ posts[call[x].event] = call[x].subject
      BY <2>2 DEF RecordsAreTrue
    <3>2. delivered'[r] = IF r = call[x].subject /\ delivered[r] = 0
                          THEN call[x].event ELSE delivered[r]
      BY <2>2 DEF TypeOK
    <3>3. delivered[r] # 0 => posts[delivered[r]] = r
      BY <2>2 DEF RecordsAreTrue
    <3>4. QED
      BY <3>1, <3>2, <3>3
  <2>3. QED
    <3>1. CASE delivered' = delivered
      BY <2>1, <3>1
    <3>2. CASE \E x \in Process :
                 /\ At(x, "record") /\ call[x].subject \in Release
                 /\ delivered' = [delivered EXCEPT ![call[x].subject] =
                                    IF @ = 0 THEN call[x].event ELSE @]
      BY <2>2, <3>2
    <3>3. QED
      BY <3>1, <3>2, DeliveredChange
<1>4. Stands
  BY <1>3 DEF Stands
<1>5. \A r \in Release : delivered'[r] # 0 => posts'[delivered'[r]] = r
  BY <1>1, <1>2, <1>3
<1>6. ASSUME NEW x \in Process, At(x, "record")'
      PROVE  call'[x].event \in 1..Len(posts') /\ posts'[call'[x].event] = call'[x].subject
  <2>1. CASE call'[x] = call[x]
    <3>1. call[x].event \in 1..Len(posts) /\ posts[call[x].event] = call[x].subject
      BY <1>6, <2>1 DEF RecordsAreTrue, At
    <3>2. QED
      BY <1>1, <2>1, <3>1
  <2>2. CASE Send(x)
    <3>1. /\ call[x].subject \in Release
          /\ posts' = Append(posts, call[x].subject)
          /\ call'[x].subject = call[x].subject
          /\ call'[x].event = Len(posts')
      BY <1>6, <2>2, SendMoves DEF At
    <3>2. posts \in Seq(Release)
      BY DEF TypeOK
    <3>3. /\ Len(posts') = Len(posts) + 1 /\ Len(posts) \in Nat
          /\ posts'[Len(posts) + 1] = call[x].subject
      BY <3>1, <3>2, AppendProperties
    <3>4. QED
      BY <3>1, <3>3
  <2>3. QED
    BY <1>6, <2>1, <2>2, RecordComesFromSend
<1>7. QED
  BY <1>4, <1>5, <1>6 DEF RecordsAreTrue

(* The published, announced and recorded state is well formed. *)
THEOREM TypeCorrect == Spec => [](TypeOK /\ RecordsAreTrue)
<1>1. Init => TypeOK /\ RecordsAreTrue
  BY InitType DEF Init, RecordsAreTrue, At
<1>2. TypeOK /\ RecordsAreTrue /\ [Next]_vars => (TypeOK /\ RecordsAreTrue)'
  BY NextType, RecordsStep
<1>3. QED
  BY <1>1, <1>2, PTL DEF Spec

(* The record of a delivery names the event first recorded, and one that    *)
(* announces that release (concord_delivery.py:42), through crashes and     *)
(* however many processes announce it at once.                              *)
THEOREM RecordsStand == Spec => RecordStands
<1>1. TypeOK /\ RecordsAreTrue /\ [Next]_vars => [Stands]_vars
  BY RecordsStep
<1>2. QED
  BY <1>1, TypeCorrect, PTL DEF Spec, RecordStands, Stands

-----------------------------------------------------------------------------
(* A plan is published at most once.                                       *)

(* A plan that is used up stays so, and the calls at a plan do not become   *)
(* more: then every plan is as fresh as before.                             *)
LEMMA PlansUntouched ==
  ASSUME PlansAreFresh,
         \A r \in Release : plan[r] = Gone => plan'[r] = Gone,
         UNCHANGED <<atRoot, published>>,
         \A x \in Process, r \in Release : Planned(x, r)' => Planned(x, r)
  PROVE  PlansAreFresh'
BY DEF PlansAreFresh

(* Nor do they when a call goes anywhere but to "planned". *)
LEMMA NotPlanned ==
  ASSUME NEW x \in Process, OnlyCall(x),
         call'[x] = Idle \/ call'[x].stage # "planned"
  PROVE  /\ \A r \in Release : ~Planned(x, r)'
         /\ \A y \in Process, r \in Release : Planned(y, r)' => Planned(y, r)
BY DEF OnlyCall, Planned, At

LEMMA BeginPublishFresh ==
  ASSUME TypeOK, PlansAreFresh, NEW x \in Process, NEW p \in Person, NEW r \in Release,
         BeginPublish(x, p, r)
  PROVE  PlansAreFresh'
<1> USE TypeParts
<1>1. /\ plan[r] # Gone /\ plan'[r] = Gone
      /\ \A s \in Release \ {r} : plan'[s] = plan[s]
      /\ UNCHANGED <<atRoot, published>>
  BY DEF BeginPublish, Pending, StoresOK
<1>2. CASE UNCHANGED call
  BY <1>1, <1>2, PlansUntouched DEF Planned, At
<1>3. CASE Start(x, "publish", p, r, "planned")
  <2>1. OnlyCall(x) /\ call'[x].subject = r /\ call'[x].stage = "planned"
    BY <1>3, StartMoves DEF Tool, Stage, Subject
  <2>2. \A y \in Process, s \in Release :
          Planned(y, s)' => Planned(y, s) \/ (y = x /\ s = r)
    BY <2>1 DEF OnlyCall, Planned, At
  <2>3. published[r] = 0 /\ r \notin atRoot /\ \A y \in Process : ~Planned(y, r)
    BY <1>1 DEF PlansAreFresh
  <2>4. ASSUME NEW s \in Release, s # r
        PROVE  /\ plan'[s] = plan[s]
               /\ \A y \in Process : Planned(y, s)' => Planned(y, s)
    BY <1>1, <2>2, <2>4
  <2>5. ASSUME NEW y \in Process, Planned(y, r)' PROVE y = x
    BY <2>2, <2>3, <2>5
  <2>6. QED
    BY <1>1, <2>3, <2>4, <2>5 DEF PlansAreFresh
<1>4. QED
  BY <1>2, <1>3 DEF BeginPublish

(* The call hands its plan over to root. *)
LEMMA ForwardFresh ==
  ASSUME TypeOK, PlansAreFresh, NEW x \in Process, Forward(x)
  PROVE  PlansAreFresh'
<1>0. PICK r \in Release : call[x].subject = r
  BY DEF Forward, At, TypeOK, CallOK
<1>1. Planned(x, r) /\ call[x] # Idle
  BY <1>0 DEF Forward, Planned, At
<1>2. UNCHANGED <<plan, published>>
  BY DEF Forward
<1>3. CASE Leave(x) /\ UNCHANGED atRoot
  BY <1>2, <1>3, LeaveMoves, NotPlanned, PlansUntouched, TypeParts
<1>4. CASE atRoot' = atRoot \cup {r} /\ Goto(x, "publishing")
  <2>1. OnlyCall(x) /\ call'[x].stage = "publishing"
    BY <1>1, <1>4, GotoMoves, TypeParts DEF Stage
  <2>2. /\ \A s \in Release : ~Planned(x, s)'
        /\ \A y \in Process, s \in Release : Planned(y, s)' => Planned(y, s)
    BY <2>1, NotPlanned
  <2>3. /\ published[r] = 0 /\ plan[r] = Gone
        /\ \A y \in Process : Planned(y, r) => y = x
    BY <1>1 DEF PlansAreFresh
  <2>4. \A y \in Process : ~Planned(y, r)'
    BY <2>2, <2>3
  <2>5. QED
    BY <1>2, <1>4, <2>2, <2>3, <2>4 DEF PlansAreFresh
<1>5. QED
  BY <1>0, <1>3, <1>4 DEF Forward

(* Who publishes is the last to be at that plan. *)
LEMMA PublishHereFresh ==
  ASSUME TypeOK, PlansAreFresh, PublishedOnce, NEW x \in Process, PublishHere(x)
  PROVE  PlansAreFresh' /\ PublishedOnce'
<1>0. PICK r \in Release : call[x].subject = r
  BY DEF PublishHere, At, TypeOK, CallOK
<1>1. Planned(x, r)
  BY <1>0 DEF PublishHere, Planned, At
<1>2. UNCHANGED <<plan, atRoot>>
  BY DEF PublishHere
<1>3. /\ published'[r] \in {published[r], published[r] + 1}
      /\ \A s \in Release \ {r} : published'[s] = published[s]
  BY <1>0 DEF PublishHere, TypeOK
<1>4. /\ published[r] = 0 /\ plan[r] = Gone /\ r \notin atRoot
      /\ \A y \in Process : Planned(y, r) => y = x
  BY <1>1 DEF PlansAreFresh
<1>5. OnlyCall(x) /\ (call'[x] = Idle \/ call'[x].stage = "look")
  BY AnswerOK, TypeParts DEF PublishHere
<1>6. /\ \A s \in Release : ~Planned(x, s)'
      /\ \A y \in Process, s \in Release : Planned(y, s)' => Planned(y, s)
  BY <1>5, NotPlanned
<1>7. \A y \in Process : ~Planned(y, r)'
  BY <1>4, <1>6
<1>8. PlansAreFresh'
  BY <1>2, <1>3, <1>4, <1>6, <1>7 DEF PlansAreFresh
<1>9. QED
  BY <1>3, <1>4, <1>8 DEF PublishedOnce

LEMMA PublishAtRootFresh ==
  ASSUME TypeOK, PlansAreFresh, PublishedOnce, NEW r \in Release, PublishAtRoot(r)
  PROVE  PlansAreFresh' /\ PublishedOnce'
<1>1. /\ r \in atRoot /\ atRoot' = atRoot \ {r} /\ UNCHANGED <<plan, drafts>>
  BY DEF PublishAtRoot
<1>2. /\ published'[r] \in {published[r], published[r] + 1}
      /\ \A s \in Release \ {r} : published'[s] = published[s]
  BY DEF PublishAtRoot, TypeOK
<1>3. published[r] = 0 /\ plan[r] = Gone /\ \A y \in Process : ~Planned(y, r)
  BY <1>1 DEF PlansAreFresh
<1>4. \A y \in Process, s \in Release : Planned(y, s)' => Planned(y, s)
  <2>1. CASE UNCHANGED call
    BY <2>1 DEF Planned, At
  <2>2. ASSUME NEW x \in Process, NEW ok \in BOOLEAN, Publishing(x, r), Answer(x, ok)
        PROVE  \A y \in Process, s \in Release : Planned(y, s)' => Planned(y, s)
    <3>1. OnlyCall(x) /\ (call'[x] = Idle \/ call'[x].stage = "look")
      BY <1>1, <2>2, AnswerOK, TypeParts DEF Publishing
    <3>2. QED
      BY <3>1, NotPlanned
  <2>3. UNCHANGED call \/ \E x \in Process, ok \in BOOLEAN : Publishing(x, r) /\ Answer(x, ok)
    BY DEF PublishAtRoot
  <2>4. QED
    BY <2>1, <2>2, <2>3
<1>5. PlansAreFresh'
  BY <1>1, <1>2, <1>3, <1>4 DEF PlansAreFresh
<1>6. QED
  BY <1>2, <1>3, <1>5 DEF PublishedOnce

LEMMA PlansStep ==
  ASSUME TypeOK, PlansAreFresh, PublishedOnce, [Next]_vars
  PROVE  PlansAreFresh' /\ PublishedOnce'
<1> USE TypeParts
<1>0. ASSUME \A r \in Release : plan[r] = Gone => plan'[r] = Gone,
             UNCHANGED <<atRoot, published>>,
             \/ UNCHANGED call
             \/ \E x \in Process :
                  OnlyCall(x) /\ (call'[x] = Idle \/ call'[x].stage # "planned")
      PROVE  PlansAreFresh' /\ PublishedOnce'
  <2>1. \A y \in Process, r \in Release : Planned(y, r)' => Planned(y, r)
    <3>1. CASE UNCHANGED call
      BY <3>1 DEF Planned, At
    <3>2. CASE \E x \in Process :
                 OnlyCall(x) /\ (call'[x] = Idle \/ call'[x].stage # "planned")
      BY <3>2, NotPlanned
    <3>3. QED
      BY <1>0, <3>1, <3>2
  <2>2. QED
    BY <1>0, <2>1, PlansUntouched DEF PublishedOnce
<1>1. ASSUME NEW x \in Process, Call(x) PROVE PlansAreFresh' /\ PublishedOnce'
  <2>1. ASSUME NEW p \in Person, NEW r \in Release, BeginPublish(x, p, r)
        PROVE  PlansAreFresh' /\ PublishedOnce'
    BY <2>1, BeginPublishFresh DEF BeginPublish, PublishedOnce
  <2>2. ASSUME NEW p \in Person, NEW r \in Release, MakePlan(x, p, r) \/ Confirm(p, r)
        PROVE  PlansAreFresh' /\ PublishedOnce'
    BY <1>0, <2>2 DEF MakePlan, Confirm, StoresOK
  <2>3. ASSUME NEW tool \in Tool, NEW p \in Person \cup {Bot}, NEW s \in Subject,
               NEW stage \in Stage \ {"planned"}, Start(x, tool, p, s, stage),
               UNCHANGED <<plan, atRoot, published>>
        PROVE  PlansAreFresh' /\ PublishedOnce'
    BY <1>0, <2>3, StartMoves
  <2>4. ASSUME NEW p \in Person, NEW s \in Subject, NEW d \in Draft, Submit(x, p, s, d)
        PROVE  PlansAreFresh' /\ PublishedOnce'
    <3>1. OnlyCall(x) /\ call'[x].stage # "planned"
      BY <2>4 DEF Submit, CallsOK, OnlyCall, CallRecord, Tool, Stage
    <3>2. QED
      BY <1>0, <2>4, <3>1 DEF Submit, catalogue
  <2>5. QED
    BY <1>1, <2>1, <2>2, <2>3, <2>4 DEF Call, JoinByBot, Announce, AskDraft,
       Tool, Stage, Subject, catalogue
<1>2. ASSUME NEW x \in Process, Leave(x), UNCHANGED <<plan, atRoot, published>>
      PROVE  PlansAreFresh' /\ PublishedOnce'
  BY <1>0, <1>2, LeaveMoves
<1>3. ASSUME NEW x \in Process, NEW stage \in Stage \ {"planned"}, call[x] # Idle,
             Goto(x, stage), UNCHANGED <<plan, atRoot, published>>
      PROVE  PlansAreFresh' /\ PublishedOnce'
  BY <1>0, <1>3, GotoMoves
<1>4. ASSUME NEW x \in Process, Serve(x) PROVE PlansAreFresh' /\ PublishedOnce'
  <2>1. CASE Forward(x)
    BY <2>1, ForwardFresh DEF Forward, PublishedOnce
  <2>2. CASE PublishHere(x)
    BY <2>2, PublishHereFresh
  <2>3. CASE GiveUp(x) \/ Select(x) \/ Look(x) \/ Prepare(x) \/ Record(x)
             \/ \E d \in Draft : PrepareDraft(x, d)
    BY <1>2, <1>3, <2>3 DEF GiveUp, Select, Look, Prepare, Record, PrepareDraft,
       At, Stage, catalogue
  <2>4. CASE Delete(x) \/ Send(x)
    <3>1. OnlyCall(x) /\ (call'[x] = Idle \/ call'[x].stage # "planned")
      BY <2>4, DeleteMoves, SendMoves
    <3>2. QED
      BY <1>0, <2>4, <3>1 DEF Delete, Send, catalogue
  <2>5. QED
    BY <1>4, <2>1, <2>2, <2>3, <2>4 DEF Serve
<1>5. ASSUME NEW x \in Process, Crash(x) PROVE PlansAreFresh' /\ PublishedOnce'
  <2>1. OnlyCall(x) /\ call'[x] = Idle
    BY <1>5, LeaveMoves DEF Crash, Leave
  <2>2. \A r \in Release : plan[r] = Gone => plan'[r] = Gone
    BY <1>5 DEF Crash
  <2>3. QED
    BY <1>0, <1>5, <2>1, <2>2 DEF Crash
<1>6. ASSUME NEW r \in Release, PlanLapses(r) PROVE PlansAreFresh' /\ PublishedOnce'
  <2>1. \A s \in Release : plan[s] = Gone => plan'[s] = Gone
    BY <1>6 DEF PlanLapses, StoresOK
  <2>2. QED
    BY <1>0, <1>6, <2>1 DEF PlanLapses
<1>7. CASE UNCHANGED vars
  BY <1>0, <1>7 DEF vars, catalogue
<1>8. QED
  BY <1>1, <1>4, <1>5, <1>6, <1>7, PublishAtRootFresh DEF Next

(* A catalogue plan is published at most once (server.py:2951), by any      *)
(* number of processes, with the broker or without it, though a client may  *)
(* give up on root and a failure leaves the owner's approval valid.         *)
THEOREM PlansPublishOnce == Spec => []PublishedOnce
<1>1. Init => PlansAreFresh /\ PublishedOnce
  BY DEF Init, PlansAreFresh, PublishedOnce, Planned, At
<1>2. TypeOK /\ PlansAreFresh /\ PublishedOnce /\ [Next]_vars
        => (PlansAreFresh /\ PublishedOnce)'
  BY PlansStep
<1>3. QED
  BY <1>1, <1>2, TypeCorrect, PTL DEF Spec

-----------------------------------------------------------------------------
(* A draft nobody raced for is posted at most once.                        *)

(* Nobody has taken the draft out of the table. *)
InTable(d) == drafts[d] = NoRow \/ drafts[d].live

(* No draft comes back into the table and nobody new holds one. *)
LEMMA DraftsUntouched ==
  ASSUME DraftsAreFresh, UNCHANGED used, raced \subseteq raced',
         \A d \in Draft : InTable(d)' => InTable(d),
         \A x \in Process, d \in Draft :
           Holding(x, d)' => Holding(x, d) /\ (At(x, "delete") => At(x, "delete")')
  PROVE  DraftsAreFresh'
BY DEF DraftsAreFresh, InTable

(* A call that ends, names no draft, leaves the stages at which one is      *)
(* held, or has left the first of them, holds nothing it did not hold.      *)
LEMMA HoldingKept ==
  ASSUME NEW x \in Process, OnlyCall(x),
         \/ call'[x] = Idle
         \/ call'[x].draft \notin Draft
         \/ call'[x].stage \notin {"delete", "look", "prepare", "send"}
         \/ /\ call[x] # Idle
            /\ call'[x].draft = call[x].draft
            /\ call[x].stage \in {"look", "prepare", "send"}
  PROVE  \A y \in Process, d \in Draft :
           Holding(y, d)' => Holding(y, d) /\ (At(y, "delete") => At(y, "delete")')
BY DEF OnlyCall, Holding, At

(* A second submit that selects a row before the first has deleted it makes *)
(* it a race.                                                               *)
LEMMA SelectFresh ==
  ASSUME TypeOK, DraftsAreFresh, NEW x \in Process, Select(x)
  PROVE  DraftsAreFresh'
<1>0. PICK d \in Draft : call[x].draft = d
  BY DEF Select, At, TypeOK, CallOK
<1>1. call[x] # Idle /\ UNCHANGED <<drafts, used>>
  BY DEF Select, At, relays
<1>2. CASE Leave(x) /\ UNCHANGED raced
  BY <1>1, <1>2, LeaveMoves, HoldingKept, DraftsUntouched, TypeParts DEF InTable
<1>3. CASE /\ drafts[d] # NoRow /\ drafts[d].live
           /\ Goto(x, "delete")
           /\ raced' = raced \cup {s \in {d} : \E y \in Process \ {x} :
                                        At(y, "delete") /\ call[y].draft = d}
  <2>1. OnlyCall(x) /\ call'[x].draft = d /\ call'[x].stage = "delete"
    BY <1>0, <1>1, <1>3, GotoMoves, TypeParts DEF Stage
  <2>2. \A y \in Process, e \in Draft : y # x \/ e # d =>
          /\ Holding(y, e)' => Holding(y, e)
          /\ Holding(y, e)' /\ At(y, "delete") => At(y, "delete")'
    BY <2>1 DEF OnlyCall, Holding, At
  <2>3. ASSUME d \notin raced', NEW y \in Process, y # x
        PROVE  ~Holding(y, d)'
    BY <1>3, <2>2, <2>3 DEF DraftsAreFresh, Holding
  <2>4. d \notin raced' => used[d] = 0
    BY <1>3 DEF DraftsAreFresh
  <2>5. At(x, "delete")' \/ call'[x] = Idle
    BY <2>1 DEF At
  <2>6. Holding(x, d)' => At(x, "delete")'
    BY <2>5 DEF Holding
  <2>7. QED
    BY <1>1, <1>3, <2>2, <2>3, <2>4, <2>6 DEF DraftsAreFresh
<1>4. QED
  BY <1>0, <1>2, <1>3 DEF Select

(* Whoever deletes a row held it, and nobody selects it again. *)
LEMMA DeleteFresh ==
  ASSUME TypeOK, DraftsAreFresh, NEW x \in Process, Delete(x)
  PROVE  DraftsAreFresh'
<1>0. PICK d \in Draft : call[x].draft = d
  BY DEF Delete, At, TypeOK, CallOK
<1>1. call[x] # Idle /\ call[x].stage = "delete" /\ UNCHANGED <<used, raced>>
  BY DEF Delete, At, relays
<1>2. ~InTable(d)' /\ \A e \in Draft : InTable(e)' => InTable(e)
  <2>1. /\ drafts'[d] \in DraftRow /\ ~drafts'[d].live
        /\ \A e \in Draft \ {d} : drafts'[e] = drafts[e]
    BY <1>0, RemoveUpdate DEF Delete
  <2>2. QED
    BY <2>1 DEF InTable
<1>3. OnlyCall(x) /\ (call'[x] = Idle \/ call'[x].draft = d)
  BY <1>0, DeleteMoves
<1>4. \A y \in Process, e \in Draft :
        /\ Holding(y, e)' => Holding(y, e)
        /\ e # d /\ Holding(y, e)' /\ At(y, "delete") => At(y, "delete")'
  BY <1>0, <1>1, <1>3 DEF OnlyCall, Holding, At
<1>5. QED
  BY <1>1, <1>2, <1>4 DEF DraftsAreFresh, InTable

(* Whoever posts a draft is the last to hold it. *)
LEMMA SendFresh ==
  ASSUME TypeOK, DraftsAreFresh, DraftOnce, NEW x \in Process, Send(x)
  PROVE  DraftsAreFresh' /\ DraftOnce'
<1>1. call[x] # Idle /\ call[x].stage = "send" /\ UNCHANGED <<drafts, raced>>
  BY DEF Send, At
<1>2. OnlyCall(x) /\ (call'[x] = Idle \/ call'[x].stage = "record")
  BY SendMoves
<1>3. \A y \in Process, e \in Draft :
        /\ Holding(y, e)' => Holding(y, e) /\ y # x
        /\ Holding(y, e)' /\ At(y, "delete") => At(y, "delete")'
  BY <1>2 DEF OnlyCall, Holding, At
<1>4. CASE UNCHANGED used
  BY <1>1, <1>3, <1>4, DraftsUntouched DEF InTable, DraftOnce
<1>5. CASE used' # used
  <2>1. PICK d \in Draft : call[x].draft = d /\ used' = [used EXCEPT ![d] = @ + 1]
    BY <1>1, <1>5, SendMoves DEF CountUse, TypeOK, CallRecord
  <2>2. used'[d] = used[d] + 1 /\ \A e \in Draft \ {d} : used'[e] = used[e]
    BY <2>1 DEF TypeOK
  <2>3. Holding(x, d) /\ ~At(x, "delete")
    BY <1>1, <2>1 DEF Holding, At
  <2>4. ASSUME d \notin raced
        PROVE  /\ used[d] = 0 /\ ~InTable(d)
               /\ \A y \in Process : Holding(y, d) => y = x
    BY <2>3, <2>4 DEF DraftsAreFresh, InTable
  <2>5. DraftOnce'
    BY <1>1, <2>2, <2>4 DEF DraftOnce
  <2>6. ASSUME NEW e \in Draft \ raced'
        PROVE  /\ \A y, z \in Process : Holding(y, e)' /\ Holding(z, e)' => y = z
               /\ (\E y \in Process : Holding(y, e)') => used'[e] = 0
               /\ InTable(e)' =>
                    /\ used'[e] = 0
                    /\ \A y \in Process : Holding(y, e)' => At(y, "delete")'
    <3>1. CASE e = d
      BY <1>1, <1>3, <2>4, <2>6, <3>1 DEF InTable
    <3>2. CASE e # d
      BY <1>1, <1>3, <2>2, <2>6, <3>2 DEF DraftsAreFresh, InTable
    <3>3. QED
      BY <3>1, <3>2
  <2>7. QED
    BY <2>5, <2>6 DEF DraftsAreFresh, InTable
<1>6. QED
  BY <1>4, <1>5

LEMMA DraftsStep ==
  ASSUME TypeOK, DraftsAreFresh, DraftOnce, [Next]_vars
  PROVE  DraftsAreFresh' /\ DraftOnce'
<1> USE TypeParts
<1>0. ASSUME UNCHANGED used, raced \subseteq raced',
             \A d \in Draft : InTable(d)' => InTable(d),
             \/ UNCHANGED call
             \/ \E x \in Process :
                  /\ OnlyCall(x)
                  /\ \/ call'[x] = Idle
                     \/ call'[x].draft \notin Draft
                     \/ call'[x].stage \notin {"delete", "look", "prepare", "send"}
                     \/ /\ call[x] # Idle
                        /\ call'[x].draft = call[x].draft
                        /\ call[x].stage \in {"look", "prepare", "send"}
      PROVE  DraftsAreFresh' /\ DraftOnce'
  <2>1. \A y \in Process, d \in Draft :
          Holding(y, d)' => Holding(y, d) /\ (At(y, "delete") => At(y, "delete")')
    <3>1. CASE UNCHANGED call
      BY <3>1 DEF Holding, At
    <3>2. QED
      BY <1>0, <3>1, HoldingKept
  <2>2. QED
    BY <1>0, <2>1, DraftsUntouched DEF DraftOnce
<1>1. ASSUME NEW x \in Process, Leave(x), UNCHANGED <<used, drafts>>, raced \subseteq raced'
      PROVE  DraftsAreFresh' /\ DraftOnce'
  BY <1>0, <1>1, LeaveMoves DEF InTable
<1>2. ASSUME NEW x \in Process, NEW stage \in Stage, call[x] # Idle, Goto(x, stage),
             \/ call[x].stage \in {"look", "prepare", "send"}
             \/ call[x].draft \notin Draft,
             UNCHANGED <<used, drafts>>, raced \subseteq raced'
      PROVE  DraftsAreFresh' /\ DraftOnce'
  BY <1>0, <1>2, GotoMoves DEF InTable
<1>3. ASSUME NEW x \in Process, Call(x) PROVE DraftsAreFresh' /\ DraftOnce'
  <2>1. UNCHANGED <<used, drafts, raced>>
    BY <1>3 DEF Call, JoinByBot, Announce, MakePlan, Confirm, BeginPublish, AskDraft,
       Submit, relays
  <2>2. CASE UNCHANGED call
    BY <1>0, <2>1, <2>2 DEF InTable
  <2>3. ASSUME NEW tool \in Tool, NEW p \in Person \cup {Bot}, NEW s \in Subject,
               NEW stage \in Stage, Start(x, tool, p, s, stage)
        PROVE  DraftsAreFresh' /\ DraftOnce'
    BY <1>0, <2>1, <2>3, StartMoves DEF InTable
  <2>4. ASSUME NEW p \in Person, NEW s \in Subject, NEW d \in Draft, Submit(x, p, s, d)
        PROVE  DraftsAreFresh' /\ DraftOnce'
    <3>1. OnlyCall(x) /\ call'[x].stage = "select"
      BY <2>4 DEF Submit, CallsOK, OnlyCall, CallRecord, Tool, Stage
    <3>2. QED
      BY <1>0, <2>1, <3>1 DEF InTable
  <2>5. QED
    BY <1>3, <2>2, <2>3, <2>4 DEF Call, JoinByBot, Announce, MakePlan, Confirm,
       BeginPublish, AskDraft, Tool, Stage, Subject
<1>4. ASSUME NEW x \in Process, NEW ok \in BOOLEAN, Answer(x, ok),
             At(x, "planned") \/ At(x, "publishing"), UNCHANGED <<used, drafts, raced>>
      PROVE  DraftsAreFresh' /\ DraftOnce'
  <2>1. call[x] # Idle /\ call[x].draft \notin Draft
    BY <1>4 DEF At, CallsOK, CallOK
  <2>2. QED
    BY <1>1, <1>2, <1>4, <2>1 DEF Answer, Stage
<1>5. ASSUME NEW x \in Process, Serve(x) PROVE DraftsAreFresh' /\ DraftOnce'
  <2>1. CASE Forward(x)
    <3>1. call[x] # Idle /\ call[x].draft \notin Draft
      BY <2>1 DEF Forward, At, CallsOK, CallOK
    <3>2. QED
      BY <1>1, <1>2, <2>1, <3>1 DEF Forward, Stage, relays
  <2>2. CASE PublishHere(x)
    BY <1>4, <2>2 DEF PublishHere, relays
  <2>3. CASE GiveUp(x) \/ Record(x)
    BY <1>1, <2>3 DEF GiveUp, Record, relays
  <2>4. CASE Select(x)
    BY <2>4, SelectFresh DEF Select, relays, DraftOnce
  <2>5. CASE Delete(x)
    BY <2>5, DeleteFresh DEF Delete, relays, DraftOnce
  <2>6. CASE Look(x) \/ Prepare(x)
    BY <1>1, <1>2, <2>6 DEF Look, Prepare, At, Stage, relays
  <2>7. CASE Send(x)
    BY <2>7, SendFresh
  <2>8. ASSUME NEW d \in Draft, PrepareDraft(x, d) PROVE DraftsAreFresh' /\ DraftOnce'
    <3>1. \A e \in Draft : InTable(e)' => InTable(e)
      BY <2>8 DEF PrepareDraft, InTable, StoresOK
    <3>2. QED
      BY <1>0, <2>8, <3>1, LeaveMoves DEF PrepareDraft, relays
  <2>9. QED
    BY <1>5, <2>1, <2>2, <2>3, <2>4, <2>5, <2>6, <2>7, <2>8 DEF Serve
<1>6. ASSUME NEW x \in Process, Crash(x) PROVE DraftsAreFresh' /\ DraftOnce'
  BY <1>1, <1>6 DEF Crash, Leave
<1>7. ASSUME NEW r \in Release, PlanLapses(r) \/ PublishAtRoot(r)
      PROVE  DraftsAreFresh' /\ DraftOnce'
  <2>1. UNCHANGED <<used, drafts, raced>>
    BY <1>7 DEF PlanLapses, PublishAtRoot, relays
  <2>2. CASE UNCHANGED call
    BY <1>0, <2>1, <2>2 DEF InTable
  <2>3. CASE \E x \in Process, ok \in BOOLEAN : At(x, "publishing") /\ Answer(x, ok)
    BY <1>4, <2>1, <2>3
  <2>4. QED
    BY <1>7, <2>2, <2>3 DEF PlanLapses, PublishAtRoot, Publishing
<1>8. CASE UNCHANGED vars
  BY <1>0, <1>8 DEF vars, relays, InTable
<1>9. QED
  BY <1>3, <1>5, <1>6, <1>7, <1>8 DEF Next

(* A draft is posted at most once (concord_pending_signature.py:121), by    *)
(* any number of processes, unless two had selected it before either        *)
(* deleted it.                                                              *)
THEOREM DraftsPostOnce == Spec => []DraftOnce
<1>1. Init => DraftsAreFresh /\ DraftOnce
  BY DEF Init, DraftsAreFresh, DraftOnce, Holding
<1>2. TypeOK /\ DraftsAreFresh /\ DraftOnce /\ [Next]_vars
        => (DraftsAreFresh /\ DraftOnce)'
  BY DraftsStep
<1>3. QED
  BY <1>1, <1>2, TypeCorrect, PTL DEF Spec

-----------------------------------------------------------------------------
(* A release nobody raced for is announced once.                           *)

LEMMA CountType ==
  ASSUME TypeOK, NEW r \in Release
  PROVE  /\ IsFiniteSet(Announcements(r))
         /\ Cardinality(Announcements(r)) \in Nat
<1>1. Announcements(r) \subseteq 1..Len(posts) /\ Len(posts) \in Nat
  BY DEF TypeOK, Announcements
<1>2. IsFiniteSet(1..Len(posts))
  BY <1>1, FS_Interval
<1>3. IsFiniteSet(Announcements(r))
  BY <1>1, <1>2, FS_Subset
<1>4. QED
  BY <1>3, FS_CardinalityType

(* One more post is one more announcement of its release. *)
LEMMA CountGrows ==
  ASSUME TypeOK, NEW s \in Release, posts' = Append(posts, s), NEW r \in Release
  PROVE  Cardinality(Announcements(r)') =
           Cardinality(Announcements(r)) + (IF r = s THEN 1 ELSE 0)
<1>1. /\ posts \in Seq(Release)
      /\ Len(posts) \in Nat
      /\ DOMAIN posts = 1..Len(posts)
      /\ DOMAIN posts' = 1..(Len(posts) + 1)
      /\ posts'[Len(posts) + 1] = s
      /\ \A e \in 1..Len(posts) : posts'[e] = posts[e]
  BY DEF TypeOK
<1>2. Announcements(r)' = IF r = s THEN Announcements(r) \cup {Len(posts) + 1}
                          ELSE Announcements(r)
  BY <1>1 DEF Announcements
<1>3. Len(posts) + 1 \notin Announcements(r)
  BY <1>1 DEF Announcements
<1>4. IsFiniteSet(Announcements(r)) /\ Cardinality(Announcements(r)) \in Nat
  BY CountType
<1>5. CASE r = s
  <2>1. Announcements(r)' = Announcements(r) \cup {Len(posts) + 1}
    BY <1>2, <1>5
  <2>2. Cardinality(Announcements(r) \cup {Len(posts) + 1})
          = Cardinality(Announcements(r)) + 1
    BY <1>3, <1>4, FS_AddElement
  <2>3. QED
    BY <1>5, <2>1, <2>2
<1>6. CASE r # s
  BY <1>2, <1>4, <1>6
<1>7. QED
  BY <1>5, <1>6

(* A step that posts nothing, forgets no loss and no event that is known,   *)
(* and lets nobody in.                                                      *)
LEMMA PostsUntouched ==
  ASSUME TypeOK, TypeOK', PostsAreKnown, UNCHANGED <<posts, delivered>>,
         raced \subseteq raced',
         \A r \in Release : lost'[r] >= lost[r],
         \A x \in Process, r \in Release : Inside(x, r)' => Inside(x, r),
         \A x \in Process, r \in Release :
           Recording(x, r) => Recording(x, r)' \/ lost'[r] >= lost[r] + 1
  PROVE  PostsAreKnown'
<1> SUFFICES ASSUME NEW r \in Release, r \notin raced'
             PROVE  /\ \A x, y \in Process : Inside(x, r)' /\ Inside(y, r)' => x = y
                    /\ (\E x \in Process : Inside(x, r)') => delivered'[r] = 0
                    /\ Cardinality(Announcements(r)')
                         <= lost'[r] + (IF Known(r)' THEN 1 ELSE 0)
  BY DEF PostsAreKnown
<1>1. /\ \A x, y \in Process : Inside(x, r) /\ Inside(y, r) => x = y
      /\ (\E x \in Process : Inside(x, r)) => delivered[r] = 0
      /\ Cardinality(Announcements(r)) <= lost[r] + (IF Known(r) THEN 1 ELSE 0)
  BY DEF PostsAreKnown
<1>2. Announcements(r)' = Announcements(r)
  BY DEF Announcements
<1>3. lost[r] \in Nat /\ lost'[r] \in Nat /\ Cardinality(Announcements(r)) \in Nat
  BY CountType DEF TypeOK
<1>4. Known(r) => Known(r)' \/ lost'[r] >= lost[r] + 1
  BY DEF Known
<1>5. QED
  BY <1>1, <1>2, <1>3, <1>4

(* A call lets nobody in when it ends or is not where posters are, and      *)
(* forgets no event when it was not about to record one.                    *)
LEMMA InsideKept ==
  ASSUME TypeOK, NEW x \in Process, OnlyCall(x), ~At(x, "record"),
         \/ call'[x] = Idle
         \/ call'[x].stage \notin {"prepare", "send", "record"}
         \/ call'[x].subject \notin Release
         \/ call'[x].tool = "draft"
         \/ /\ call'[x].subject = call[x].subject
            /\ call'[x].tool = call[x].tool
            /\ At(x, "prepare")
  PROVE  /\ \A y \in Process, r \in Release : Inside(y, r)' => Inside(y, r)
         /\ \A y \in Process, r \in Release : Recording(y, r) => Recording(y, r)'
BY DEF OnlyCall, Inside, Recording, At

(* Such a step keeps what is said of the releases. *)
LEMMA MoveKnown ==
  ASSUME TypeOK, TypeOK', PostsAreKnown, NEW x \in Process, OnlyCall(x),
         ~At(x, "record"), UNCHANGED <<posts, delivered, lost>>,
         raced \subseteq raced',
         \/ call'[x] = Idle
         \/ call'[x].stage \notin {"prepare", "send", "record"}
         \/ call'[x].subject \notin Release
         \/ call'[x].tool = "draft"
         \/ /\ call'[x].subject = call[x].subject
            /\ call'[x].tool = call[x].tool
            /\ At(x, "prepare")
  PROVE  PostsAreKnown'
<1>1. /\ \A y \in Process, r \in Release : Inside(y, r)' => Inside(y, r)
      /\ \A y \in Process, r \in Release : Recording(y, r) => Recording(y, r)'
  BY InsideKept
<1>2. \A r \in Release : lost'[r] >= lost[r]
  BY DEF TypeOK
<1>3. QED
  BY <1>1, <1>2, PostsUntouched

LEMMA LeaveKnown ==
  ASSUME TypeOK, TypeOK', PostsAreKnown, NEW x \in Process, Leave(x),
         ~At(x, "record"), UNCHANGED <<posts, delivered, lost>>,
         raced \subseteq raced'
  PROVE  PostsAreKnown'
BY LeaveMoves, MoveKnown, TypeParts

(* A draft of a join is sent at once; one of an announcement is looked up.  *)
LEMMA DeleteSendsJoins ==
  ASSUME TypeOK, NEW x \in Process, Delete(x), call'[x] # Idle,
         call'[x].stage # "look"
  PROVE  call'[x].subject \notin Release
<1> DEFINE row == drafts[call[x].draft]
<1>1. call' = [call EXCEPT ![x].stage = AfterDraft(row.subject),
                           ![x].subject = row.subject]
  BY LeaveMoves, TypeParts DEF Delete
<1>2. call[x] # Idle /\ call[x] \in CallRecord
  BY DEF Delete, At, TypeOK
<1>3. call'[x].stage = AfterDraft(row.subject) /\ call'[x].subject = row.subject
  BY <1>1, <1>2 DEF TypeOK, CallRecord
<1>4. QED
  BY <1>3 DEF AfterDraft

(* Whoever finds no record and somebody else inside makes it a race.        *)
LEMMA LookKnown ==
  ASSUME TypeOK, TypeOK', PostsAreKnown, NEW x \in Process, Look(x)
  PROVE  PostsAreKnown'
<1> DEFINE s == call[x].subject
<1>1. /\ call[x] # Idle /\ call[x].stage = "look" /\ s \in Release
      /\ UNCHANGED <<posts, delivered, lost>>
      /\ raced \subseteq raced'
  BY DEF Look, At, TypeOK, CallOK, relays
<1>2. CASE Leave(x)
  BY <1>1, <1>2, LeaveKnown DEF At
<1>3. CASE /\ delivered[s] = 0
           /\ \E stage \in {"send", "prepare"} : Goto(x, stage)
           /\ raced' = raced \cup {k \in {s} : call[x].tool # "draft"
                                      /\ \E y \in Process \ {x} : Inside(y, s)}
  <2>1. /\ OnlyCall(x) /\ call'[x].subject = s /\ call'[x].tool = call[x].tool
        /\ call'[x].stage \in {"send", "prepare"}
    BY <1>1, <1>3, GotoMoves, TypeParts DEF Stage
  <2>2. \A y \in Process, r \in Release :
          /\ Inside(y, r)' => Inside(y, r) \/ (y = x /\ r = s /\ call[x].tool # "draft")
          /\ Recording(y, r) <=> Recording(y, r)'
    BY <1>1, <2>1 DEF OnlyCall, Inside, Recording, At
  <2>3. \A r \in Release : Known(r)' <=> Known(r)
    BY <1>1, <2>2 DEF Known
  <2>4. ASSUME NEW r \in Release, r \notin raced'
        PROVE  /\ \A y, z \in Process : Inside(y, r)' /\ Inside(z, r)' => y = z
               /\ (\E y \in Process : Inside(y, r)') => delivered'[r] = 0
               /\ Cardinality(Announcements(r)')
                    <= lost'[r] + (IF Known(r)' THEN 1 ELSE 0)
    <3>1. r \notin raced
      BY <1>1, <2>4
    <3>2. Cardinality(Announcements(r)') <= lost'[r] + (IF Known(r)' THEN 1 ELSE 0)
      BY <1>1, <2>3, <3>1 DEF PostsAreKnown, Announcements
    <3>3. CASE r = s /\ call[x].tool # "draft"
      <4>1. \A y \in Process \ {x} : ~Inside(y, r)
        BY <1>3, <2>4, <3>3
      <4>2. QED
        BY <1>1, <1>3, <2>2, <3>2, <3>3, <4>1
    <3>4. CASE ~(r = s /\ call[x].tool # "draft")
      BY <1>1, <2>2, <3>1, <3>2, <3>4 DEF PostsAreKnown
    <3>5. QED
      BY <3>3, <3>4
  <2>5. QED
    BY <2>4 DEF PostsAreKnown
<1>4. QED
  BY <1>2, <1>3 DEF Look

(* Whoever posts is the only one inside and has found no record, so that    *)
(* its announcement is the one to be recorded, or is lost.                  *)
LEMMA SendKnown ==
  ASSUME TypeOK, TypeOK', PostsAreKnown, DraftersPrepare, NEW x \in Process,
         Send(x)
  PROVE  PostsAreKnown'
<1>1. /\ call[x] # Idle /\ call[x].stage = "send" /\ call[x] \in CallRecord
      /\ UNCHANGED <<delivered, raced>>
  BY DEF Send, At, TypeOK
<1>2. CASE Leave(x) /\ UNCHANGED <<posts, lost>>
  BY <1>1, <1>2, LeaveKnown DEF At
<1>3. CASE /\ call[x].subject # Join
           /\ posts' = Append(posts, call[x].subject)
           /\ \/ AfterPost(x) /\ UNCHANGED lost
              \/ Leave(x) /\ lost' = [lost EXCEPT ![call[x].subject] = @ + 1]
  <2>1. PICK s \in Release : call[x].subject = s
    BY <1>1, <1>3 DEF CallRecord, Subject
  <2>2. /\ OnlyCall(x)
        /\ \/ call'[x] = Idle
           \/ /\ call'[x].stage = "record" /\ call'[x].subject = s
              /\ call'[x].tool = call[x].tool
    BY <2>1, SendMoves
  <2>3. call[x].tool # "draft" => Inside(x, s)
    BY <1>1, <2>1 DEF Inside
  <2>4. \A y \in Process, r \in Release :
          /\ Inside(y, r)' => Inside(y, r)
          /\ Recording(y, r) => Recording(y, r)'
    BY <1>1, <2>1, <2>2 DEF OnlyCall, Inside, Recording, At
  <2>5. \/ Recording(x, s)' /\ lost'[s] = lost[s]
        \/ lost'[s] = lost[s] + 1
    <3>1. CASE AfterPost(x) /\ UNCHANGED lost
      <4>1. call'[x] # Idle /\ call'[x].stage = "record" /\ call'[x].subject = s
        <5>1. call' = [call EXCEPT ![x].stage = "record", ![x].event = Len(posts')]
          BY <3>1 DEF AfterPost, ToRecord
        <5>2. call'[x] = [call[x] EXCEPT !.stage = "record", !.event = Len(posts')]
          BY <5>1 DEF TypeOK
        <5>3. Len(posts') \in Nat /\ "record" \in Stage
          BY DEF TypeOK, Stage
        <5>4. call'[x] \in CallRecord /\ call'[x].stage = "record" /\ call'[x].subject = s
          BY <1>1, <2>1, <5>2, <5>3 DEF CallRecord
        <5>5. QED
          BY <5>4
      <4>2. QED
        BY <3>1, <4>1 DEF Recording, At
    <3>2. CASE lost' = [lost EXCEPT ![s] = @ + 1]
      BY <2>1, <3>2 DEF TypeOK
    <3>3. QED
      BY <1>3, <2>1, <3>1, <3>2
  <2>6. \A r \in Release \ {s} : lost'[r] = lost[r]
    BY <1>3, <2>1 DEF TypeOK
  <2>7. ASSUME NEW r \in Release, r \notin raced'
        PROVE  Cardinality(Announcements(r)')
                 <= lost'[r] + (IF Known(r)' THEN 1 ELSE 0)
    <3>0. /\ Cardinality(Announcements(r)) \in Nat
          /\ lost[r] \in Nat
          /\ Cardinality(Announcements(r)) <= lost[r] + (IF Known(r) THEN 1 ELSE 0)
      BY <1>1, <2>7, CountType DEF TypeOK, PostsAreKnown
    <3>1. CASE r # s
      <4>1. Cardinality(Announcements(r)') = Cardinality(Announcements(r))
        BY <1>3, <2>1, <3>0, <3>1, CountGrows
      <4>2. Known(r) => Known(r)'
        BY <1>1, <2>4 DEF Known
      <4>3. QED
        BY <2>6, <3>0, <3>1, <4>1, <4>2
    <3>2. CASE r = s
      <4>1. Cardinality(Announcements(r)') = Cardinality(Announcements(r)) + 1
        BY <1>3, <2>1, <3>0, <3>2, CountGrows
      <4>2. ~Known(r)
        <5>1. call[x].tool # "draft"
          BY <1>1 DEF DraftersPrepare
        <5>2. delivered[r] = 0 /\ \A y \in Process : Inside(y, r) => y = x
          BY <1>1, <2>3, <2>7, <3>2, <5>1 DEF PostsAreKnown
        <5>3. ASSUME NEW y \in Process, Recording(y, r) PROVE FALSE
          <6>1. Inside(y, r)
            BY <5>3 DEF Recording, Inside, At, DraftersPrepare
          <6>2. y = x
            BY <5>2, <6>1
          <6>3. QED
            BY <1>1, <5>3, <6>2 DEF Recording, At
        <5>4. QED
          BY <5>2, <5>3 DEF Known
      <4>3. lost'[r] = lost[r] + 1 \/ (lost'[r] = lost[r] /\ Known(r)')
        BY <2>5, <3>2 DEF Known
      <4>4. QED
        BY <3>0, <4>1, <4>2, <4>3
    <3>3. QED
      BY <3>1, <3>2
  <2>8. QED
    BY <1>1, <2>4, <2>7 DEF PostsAreKnown
<1>4. QED
  BY <1>2, <1>3 DEF Send, relays

(* A poster leaves its record where there was none. *)
LEMMA RecordKnown ==
  ASSUME TypeOK, TypeOK', PostsAreKnown, DraftersPrepare, RecordsAreTrue,
         NEW x \in Process, Record(x)
  PROVE  PostsAreKnown'
<1> DEFINE s == call[x].subject
<1>1. /\ call[x] # Idle /\ call[x].stage = "record" /\ s \in Release
      /\ call[x].event # 0
      /\ UNCHANGED <<posts, lost, raced>>
      /\ OnlyCall(x) /\ call'[x] = Idle
  <2>1. call[x] # Idle /\ call[x].stage = "record" /\ s \in Release
    BY DEF Record, At, TypeOK, CallOK
  <2>2. call[x].event # 0
    BY <2>1 DEF At, RecordsAreTrue, TypeOK
  <2>3. UNCHANGED <<posts, lost, raced>> /\ Leave(x)
    BY DEF Record, relays
  <2>4. QED
    BY <2>1, <2>2, <2>3, LeaveMoves, TypeParts
<1>2. /\ delivered'[s] # 0
      /\ \A r \in Release \ {s} : delivered'[r] = delivered[r]
  BY <1>1 DEF Record, InsertOrIgnore, TypeOK
<1>3. Inside(x, s)
  BY <1>1 DEF Inside, DraftersPrepare
<1>4. \A y \in Process, r \in Release :
        /\ Inside(y, r)' => Inside(y, r) /\ y # x
        /\ r # s /\ Recording(y, r) => Recording(y, r)'
  BY <1>1 DEF OnlyCall, Inside, Recording, At
<1>5. ASSUME NEW r \in Release, r \notin raced'
      PROVE  /\ \A y, z \in Process : Inside(y, r)' /\ Inside(z, r)' => y = z
             /\ (\E y \in Process : Inside(y, r)') => delivered'[r] = 0
             /\ Cardinality(Announcements(r)')
                  <= lost'[r] + (IF Known(r)' THEN 1 ELSE 0)
  <2>1. /\ \A y, z \in Process : Inside(y, r) /\ Inside(z, r) => y = z
        /\ (\E y \in Process : Inside(y, r)) => delivered[r] = 0
        /\ Cardinality(Announcements(r)) <= lost[r] + (IF Known(r) THEN 1 ELSE 0)
    BY <1>1, <1>5 DEF PostsAreKnown
  <2>2. /\ Announcements(r)' = Announcements(r)
        /\ Cardinality(Announcements(r)) \in Nat
        /\ lost[r] \in Nat /\ lost'[r] = lost[r]
    BY <1>1, CountType DEF Announcements, TypeOK
  <2>3. Known(r) => Known(r)'
    BY <1>2, <1>4 DEF Known
  <2>4. CASE r = s
    BY <1>3, <1>4, <2>1, <2>2, <2>3, <2>4
  <2>5. CASE r # s
    BY <1>2, <1>4, <2>1, <2>2, <2>3, <2>5
  <2>6. QED
    BY <2>4, <2>5
<1>6. QED
  BY <1>5 DEF PostsAreKnown

(* A process that dies before its record loses the announcement. *)
LEMMA CrashKnown ==
  ASSUME TypeOK, TypeOK', PostsAreKnown, NEW x \in Process, Crash(x)
  PROVE  PostsAreKnown'
<1>1. OnlyCall(x) /\ call'[x] = Idle
  BY LeaveMoves, TypeParts DEF Crash, Leave
<1>2. UNCHANGED <<posts, delivered, raced>>
  BY DEF Crash
<1>3. \A r \in Release :
        /\ lost'[r] >= lost[r]
        /\ Recording(x, r) => lost'[r] >= lost[r] + 1
  BY DEF Crash, TypeOK, Recording
<1>4. \A y \in Process, r \in Release :
        /\ Inside(y, r)' => Inside(y, r)
        /\ y # x /\ Recording(y, r) => Recording(y, r)'
  BY <1>1 DEF OnlyCall, Inside, Recording, At
<1>5. QED
  BY <1>2, <1>3, <1>4, PostsUntouched

LEMMA StartKnown ==
  ASSUME TypeOK, TypeOK', PostsAreKnown, NEW x \in Process, NEW tool \in Tool,
         NEW p \in Person \cup {Bot}, NEW s \in Subject, NEW stage \in Stage,
         Start(x, tool, p, s, stage), UNCHANGED <<posts, delivered, lost, raced>>,
         stage \in {"planned", "look"} \/ tool = "draft" \/ s = Join
  PROVE  PostsAreKnown'
<1>1. /\ OnlyCall(x)
      /\ call'[x].tool = tool /\ call'[x].subject = s /\ call'[x].stage = stage
  BY StartMoves, TypeParts
<1>2. ~At(x, "record")
  BY DEF Start, At
<1>3. QED
  BY <1>1, <1>2, MoveKnown

LEMMA GotoKnown ==
  ASSUME TypeOK, TypeOK', PostsAreKnown, NEW x \in Process, NEW stage \in Stage,
         call[x] # Idle, ~At(x, "record"), Goto(x, stage),
         stage \notin {"prepare", "send", "record"} \/ At(x, "prepare"),
         UNCHANGED <<posts, delivered, lost>>, raced \subseteq raced'
  PROVE  PostsAreKnown'
<1>1. /\ OnlyCall(x)
      /\ call'[x].tool = call[x].tool /\ call'[x].subject = call[x].subject
      /\ call'[x].stage = stage
  BY GotoMoves, TypeParts
<1>2. QED
  BY <1>1, MoveKnown

LEMMA PostsStep ==
  ASSUME TypeOK, TypeOK', RecordsAreTrue, DraftersPrepare, PostsAreKnown, [Next]_vars
  PROVE  PostsAreKnown'
<1>1. CASE UNCHANGED <<call, posts, delivered, lost, raced>>
  <2>1. \A r \in Release : lost'[r] >= lost[r]
    BY <1>1 DEF TypeOK
  <2>2. QED
    BY <1>1, <2>1, PostsUntouched DEF Inside, Recording, At
<1>2. ASSUME NEW x \in Process, Call(x) PROVE PostsAreKnown'
  <2>1. UNCHANGED <<posts, delivered, lost, raced>>
    BY <1>2 DEF Call, JoinByBot, Announce, MakePlan, Confirm, BeginPublish, AskDraft,
       Submit, relays
  <2>2. ASSUME NEW p \in Person, NEW s \in Subject, NEW d \in Draft, Submit(x, p, s, d)
        PROVE  PostsAreKnown'
    <3>1. OnlyCall(x) /\ call'[x].stage = "select" /\ ~At(x, "record")
      BY <2>2 DEF Submit, TypeOK, OnlyCall, CallRecord, Tool, Stage, At
    <3>2. QED
      BY <2>1, <3>1, MoveKnown
  <2>3. ASSUME NEW p \in Person, NEW s \in Subject, AskDraft(x, p, s)
        PROVE  PostsAreKnown'
    BY <2>1, <2>3, StartKnown DEF AskDraft, Tool, Stage
  <2>4. ASSUME NEW p \in Person, NEW r \in Release, BeginPublish(x, p, r)
        PROVE  PostsAreKnown'
    BY <1>1, <2>1, <2>4, StartKnown DEF BeginPublish, Tool, Stage, Subject
  <2>5. CASE JoinByBot(x) \/ \E r \in Release : Announce(x, r)
    BY <2>1, <2>5, StartKnown DEF JoinByBot, Announce, Tool, Stage, Subject
  <2>6. QED
    BY <1>1, <1>2, <2>1, <2>2, <2>3, <2>4, <2>5 DEF Call, MakePlan, Confirm
<1>3. ASSUME NEW x \in Process, NEW ok \in BOOLEAN, Answer(x, ok),
             At(x, "planned") \/ At(x, "publishing"),
             UNCHANGED <<posts, delivered, lost, raced>>
      PROVE  PostsAreKnown'
  <2>1. call[x] # Idle /\ ~At(x, "record") /\ "look" \in Stage
    BY <1>3 DEF At, Stage
  <2>2. CASE Leave(x)
    BY <1>3, <2>1, <2>2, LeaveKnown
  <2>3. CASE Goto(x, "look")
    BY <1>3, <2>1, <2>3, GotoKnown
  <2>4. QED
    BY <1>3, <2>2, <2>3 DEF Answer
<1>4. ASSUME NEW x \in Process, Serve(x) PROVE PostsAreKnown'
  <2>1. CASE Forward(x)
    BY <2>1, LeaveKnown, GotoKnown DEF Forward, At, Stage, relays
  <2>2. CASE PublishHere(x)
    BY <1>3, <2>2 DEF PublishHere, relays
  <2>3. CASE GiveUp(x) \/ \E d \in Draft : PrepareDraft(x, d)
    BY <2>3, LeaveKnown DEF GiveUp, PrepareDraft, At, relays
  <2>4. CASE Select(x)
    BY <2>4, LeaveKnown, GotoKnown DEF Select, At, Stage, relays
  <2>5. CASE Delete(x)
    <3>1. /\ ~At(x, "record")
          /\ UNCHANGED <<posts, delivered, lost, raced>>
      BY <2>5 DEF Delete, At, relays
    <3>2. /\ OnlyCall(x)
          /\ \/ call'[x] = Idle
             \/ call'[x].stage = "look"
             \/ call'[x].subject \notin Release
      BY <2>5, DeleteMoves, DeleteSendsJoins
    <3>3. QED
      BY <3>1, <3>2, MoveKnown
  <2>6. CASE Look(x)
    BY <2>6, LookKnown
  <2>7. CASE Prepare(x)
    BY <2>7, LeaveKnown, GotoKnown DEF Prepare, At, Stage, relays
  <2>8. CASE Send(x)
    BY <2>8, SendKnown
  <2>9. CASE Record(x)
    BY <2>9, RecordKnown
  <2>10. QED
    BY <1>4, <2>1, <2>2, <2>3, <2>4, <2>5, <2>6, <2>7, <2>8, <2>9 DEF Serve
<1>5. ASSUME NEW r \in Release, PlanLapses(r) \/ PublishAtRoot(r)
      PROVE  PostsAreKnown'
  <2>1. UNCHANGED <<posts, delivered, lost, raced>>
    BY <1>5 DEF PlanLapses, PublishAtRoot, relays
  <2>2. UNCHANGED call \/ \E x \in Process, ok \in BOOLEAN :
                            At(x, "publishing") /\ Answer(x, ok)
    BY <1>5 DEF PlanLapses, PublishAtRoot, Publishing
  <2>3. QED
    BY <1>1, <1>3, <2>1, <2>2
<1>6. CASE UNCHANGED vars
  BY <1>1, <1>6 DEF vars, relays
<1>7. QED
  BY <1>2, <1>4, <1>5, <1>6, CrashKnown DEF Next

(* Only PrepareDraft ends the stage a drafting call prepares in.            *)
LEMMA DraftersStep == TypeOK /\ DraftersPrepare /\ [Next]_vars => DraftersPrepare'
<1> SUFFICES ASSUME TypeOK, DraftersPrepare, [Next]_vars PROVE DraftersPrepare'
  OBVIOUS
<1> USE TypeParts
<1>1. CASE UNCHANGED call
  BY <1>1 DEF DraftersPrepare
<1>2. ASSUME NEW x \in Process, OnlyCall(x),
             \/ call'[x] = Idle
             \/ call'[x].tool # "draft"
             \/ call'[x].stage \in {"look", "prepare"}
      PROVE  DraftersPrepare'
  BY <1>2 DEF DraftersPrepare, OnlyCall
<1>3. ASSUME NEW x \in Process, Leave(x) PROVE DraftersPrepare'
  BY <1>2, <1>3, LeaveMoves
<1>4. ASSUME NEW x \in Process, NEW stage \in Stage, call[x] # Idle, Goto(x, stage),
             call[x].tool # "draft" \/ stage \in {"look", "prepare"}
      PROVE  DraftersPrepare'
  BY <1>2, <1>4, GotoMoves
<1>5. ASSUME NEW x \in Process, Call(x) PROVE DraftersPrepare'
  <2>1. ASSUME NEW p \in Person, NEW s \in Subject, NEW d \in Draft, Submit(x, p, s, d)
        PROVE  DraftersPrepare'
    <3>1. OnlyCall(x) /\ call'[x].tool = "submit"
      BY <2>1 DEF Submit, CallsOK, OnlyCall, CallRecord, Tool, Stage
    <3>2. QED
      BY <1>2, <3>1
  <2>2. ASSUME NEW tool \in Tool, NEW p \in Person \cup {Bot}, NEW s \in Subject,
               NEW stage \in Stage, Start(x, tool, p, s, stage),
               tool # "draft" \/ stage \in {"look", "prepare"}
        PROVE  DraftersPrepare'
    BY <1>2, <2>2, StartMoves
  <2>3. QED
    BY <1>1, <1>5, <2>1, <2>2 DEF Call, JoinByBot, Announce, MakePlan, Confirm,
       BeginPublish, AskDraft, Tool, Stage, Subject
<1>6. ASSUME NEW x \in Process, NEW ok \in BOOLEAN, Answer(x, ok),
             At(x, "planned") \/ At(x, "publishing")
      PROVE  DraftersPrepare'
  BY <1>3, <1>4, <1>6 DEF Answer, At, Stage
<1>7. ASSUME NEW x \in Process, Serve(x) PROVE DraftersPrepare'
  <2>1. CASE Forward(x)
    <3>1. call[x] # Idle /\ call[x].tool # "draft"
      BY <2>1 DEF Forward, At, CallsOK, CallOK
    <3>2. QED
      BY <1>3, <1>4, <2>1, <3>1 DEF Forward, Stage
  <2>2. CASE PublishHere(x)
    BY <1>6, <2>2 DEF PublishHere
  <2>3. CASE GiveUp(x) \/ Record(x) \/ \E d \in Draft : PrepareDraft(x, d)
    BY <1>3, <2>3 DEF GiveUp, Record, PrepareDraft
  <2>4. CASE Select(x)
    <3>1. call[x] # Idle /\ call[x].tool # "draft"
      BY <2>4 DEF Select, At, CallsOK, CallOK
    <3>2. QED
      BY <1>3, <1>4, <2>4, <3>1 DEF Select, Stage
  <2>5. CASE Delete(x)
    <3>1. call[x].tool # "draft"
      BY <2>5 DEF Delete, At, CallsOK, CallOK
    <3>2. QED
      BY <1>2, <2>5, <3>1, DeleteMoves
  <2>6. CASE Look(x)
    BY <1>3, <1>4, <2>6 DEF Look, At, Stage
  <2>7. CASE Prepare(x)
    BY <1>3, <1>4, <2>7 DEF Prepare, At, Stage
  <2>8. CASE Send(x)
    <3>1. call[x].tool # "draft"
      BY <2>8 DEF Send, At, DraftersPrepare
    <3>2. QED
      BY <1>2, <2>8, <3>1, SendMoves
  <2>9. QED
    BY <1>7, <2>1, <2>2, <2>3, <2>4, <2>5, <2>6, <2>7, <2>8 DEF Serve
<1>8. ASSUME NEW x \in Process, Crash(x) PROVE DraftersPrepare'
  BY <1>3, <1>8 DEF Crash, Leave
<1>9. ASSUME NEW r \in Release, PlanLapses(r) \/ PublishAtRoot(r)
      PROVE  DraftersPrepare'
  BY <1>1, <1>6, <1>9 DEF PlanLapses, PublishAtRoot, Publishing
<1>10. CASE UNCHANGED vars
  BY <1>1, <1>10 DEF vars
<1>11. QED
  BY <1>5, <1>7, <1>8, <1>9, <1>10 DEF Next

(* A release is announced at most once (server.py:3019), whoever asks and   *)
(* by which tool, by any number of processes, but for the announcements     *)
(* whose sender never learnt that they arrived, or died before recording    *)
(* them, and for two processes that announced it at the same time.          *)
THEOREM ReleasesAnnouncedOnce == Spec => []AnnouncedOnce
<1>1. Init => DraftersPrepare /\ PostsAreKnown
  <2>1. ASSUME Init, NEW r \in Release PROVE Announcements(r) = {}
    BY <2>1 DEF Init, Announcements
  <2>2. ASSUME Init, NEW r \in Release
        PROVE  /\ \A x \in Process : ~Inside(x, r)
               /\ Cardinality(Announcements(r)) <= lost[r] + (IF Known(r) THEN 1 ELSE 0)
    <3>1. Cardinality(Announcements(r)) = 0 /\ lost[r] = 0
      BY <2>1, <2>2, FS_EmptySet DEF Init
    <3>2. QED
      BY <2>2, <3>1 DEF Init, Inside
  <2>3. QED
    BY <2>2 DEF Init, DraftersPrepare, PostsAreKnown
<1>2. /\ TypeOK /\ TypeOK' /\ RecordsAreTrue /\ DraftersPrepare /\ PostsAreKnown
      /\ [Next]_vars
      => (DraftersPrepare /\ PostsAreKnown)'
  BY DraftersStep, PostsStep
<1>3. TypeOK /\ PostsAreKnown => AnnouncedOnce
  <2>1. ASSUME TypeOK, PostsAreKnown, NEW r \in Release, r \notin raced
        PROVE  Cardinality(Announcements(r)) <= 1 + lost[r]
    <3>1. /\ Cardinality(Announcements(r)) \in Nat
          /\ lost[r] \in Nat
          /\ Cardinality(Announcements(r)) <= lost[r] + (IF Known(r) THEN 1 ELSE 0)
      BY <2>1, CountType DEF TypeOK, PostsAreKnown
    <3>2. QED
      BY <3>1
  <2>2. QED
    BY <2>1 DEF AnnouncedOnce, Announcements
<1>4. QED
  BY <1>1, <1>2, <1>3, TypeCorrect, PTL DEF Spec
=============================================================================
