---------------------------- MODULE Publication ----------------------------
(***************************************************************************)
(* What leaves the host: a catalogue declaration published from its plan,  *)
(* and the announcement of it in an Armada community, signed by the        *)
(* server's bot key or, drafted first, by the caller.  The server runs in  *)
(* several processes (HTTP and stdio); each has a write lock and plans of  *)
(* its own, the records of deliveries and the drafts are in SQLite files   *)
(* they share.                                                             *)
(***************************************************************************)
EXTENDS Integers, FiniteSets, Sequences

CONSTANTS
  Person, Process,
  Release,              \* what is published; also the key of its announcement
  Join,                 \* what armada_join posts instead of an announcement
  Draft,
  Bot,                  \* the author of what the server signs itself
  MaxPosts,             \* bound: the announcements that reach the relays
  NoRow, Gone, Idle

ASSUME PublicationAssumption ==
  /\ Join \notin Release /\ Bot \notin Person
  /\ MaxPosts \in Nat
  /\ NoRow # Gone /\ NoRow \notin Draft

VARIABLES
  brokered,    \* settings.broker_socket_path is set
  plan,        \* catalog_plan_store of each process, as [who, at]
  ticket,      \* the confirmation bound to the plan's id, once approved,
               \* as [who, flying]
  atRoot,      \* the releases a thread of the broker is publishing
  published,   \* how often each was published
  delivered,   \* concord_deliveries: the event recorded, 0 for none
  drafts,      \* pending_signatures, as [who, subject, live]
  call,        \* what the holder of each process's write lock does
  posts,       \* the releases announced, in the order the relays had them
  lost,        \* those that arrived though their sender did not learn it
  used,        \* how often a draft was sent
  raced        \* keys and drafts two processes have been at at once

relays == <<posts, lost, used>>
catalogue == <<plan, ticket, atRoot, published>>
vars == <<brokered, catalogue, delivered, drafts, call, relays, raced>>

Subject == Release \cup {Join}

TicketRow == [who : Person, flying : BOOLEAN]

DraftRow == [who : Person, subject : Subject, live : BOOLEAN]

ASSUME RowAssumption == NoRow \notin TicketRow /\ NoRow \notin DraftRow

Init ==
  /\ brokered \in BOOLEAN
  /\ plan = [r \in Release |-> NoRow]
  /\ ticket = [r \in Release |-> NoRow]
  /\ atRoot = {}
  /\ published = [r \in Release |-> 0]
  /\ delivered = [r \in Release |-> 0]
  /\ drafts = [d \in Draft |-> NoRow]
  /\ call = [x \in Process |-> Idle]
  /\ posts = <<>>
  /\ lost = [r \in Release |-> 0]
  /\ used = [d \in Draft |-> 0]
  /\ raced = {}

At(x, stage) == call[x] # Idle /\ call[x].stage = stage

Start(x, tool, p, s, stage) ==
  /\ call[x] = Idle
  /\ call' = [call EXCEPT ![x] =
       [tool |-> tool, who |-> p, subject |-> s, want |-> s, draft |-> NoRow,
        event |-> 0, stage |-> stage]]

Goto(x, stage) == call' = [call EXCEPT ![x].stage = stage]

Leave(x) == call' = [call EXCEPT ![x] = Idle]

-----------------------------------------------------------------------------
(* Publication.                                                            *)

MakePlan(x, p, r) ==
  /\ plan[r] = NoRow
  /\ plan' = [plan EXCEPT ![r] = [who |-> p, at |-> x]]
  /\ UNCHANGED <<brokered, ticket, atRoot, published, delivered, drafts, call>>
  /\ UNCHANGED <<relays, raced>>

Pending(r) == plan[r] \notin {NoRow, Gone}

Approved(p, r) == ticket[r] = [who |-> p, flying |-> FALSE]

(* Asked for by p and approved by the owner, who must sign; or it lapses.   *)
Confirm(p, r) ==
  /\ \/ ticket[r] = NoRow /\ ticket' = [ticket EXCEPT ![r] = [who |-> p, flying |-> FALSE]]
     \/ Approved(p, r) /\ ticket' = [ticket EXCEPT ![r] = NoRow]
  /\ UNCHANGED <<brokered, plan, atRoot, published, delivered, drafts, call>>
  /\ UNCHANGED <<relays, raced>>

(* The ticket is taken at once without the broker; with it, root takes it. *)
TakeTicket(p, r) ==
  /\ Approved(p, r)
  /\ ticket' = IF brokered THEN ticket ELSE [ticket EXCEPT ![r] = NoRow]

(* Mutant: the plan is looked at, and used up when it has been published. *)
BeginPublishOnLook(x, p, r) ==
  /\ Pending(r) /\ plan[r].at = x /\ plan[r].who = p
  /\ TakeTicket(p, r)
  /\ Start(x, "publish", p, r, "planned")
  /\ UNCHANGED <<brokered, plan, atRoot, published, delivered, drafts>>
  /\ UNCHANGED <<relays, raced>>

(* catalog_publish: naming a plan uses it up, whoever does. *)
BeginPublish(x, p, r) ==
  /\ Pending(r) /\ plan[r].at = x
  /\ call[x] = Idle
  /\ TakeTicket(p, r)
  /\ plan' = [plan EXCEPT ![r] = Gone]
  /\ IF plan[r].who = p THEN Start(x, "publish", p, r, "planned") ELSE UNCHANGED call
  /\ UNCHANGED <<brokered, atRoot, published, delivered, drafts, relays, raced>>

PlanLapses(r) ==
  /\ Pending(r)
  /\ plan' = [plan EXCEPT ![r] = Gone]
  /\ UNCHANGED <<brokered, ticket, atRoot, published, delivered, drafts, call>>
  /\ UNCHANGED <<relays, raced>>

(* Root takes the ticket itself, in flight, or refuses. *)
Forward(x) ==
  /\ brokered /\ At(x, "planned")
  /\ LET r == call[x].subject IN
     IF Approved(call[x].who, r)
       THEN /\ ticket' = [ticket EXCEPT ![r].flying = TRUE]
            /\ atRoot' = atRoot \cup {r}
            /\ Goto(x, "publishing")
       ELSE Leave(x) /\ UNCHANGED <<ticket, atRoot>>
  /\ UNCHANGED <<brokered, plan, published, delivered, drafts, relays, raced>>

Publishing(x, r) == At(x, "publishing") /\ call[x].subject = r

(* The declaration is published, or not, or is and the attestation that     *)
(* goes with it is not.  After success it is announced, if that is on.      *)
Answer(x, ok) ==
  \/ ok /\ Goto(x, "look")
  \/ Leave(x)

PublishHere(x) ==
  /\ ~brokered /\ At(x, "planned")
  /\ \E out, ok \in BOOLEAN :
       /\ published' = [published EXCEPT ![call[x].subject] = @ + (IF out THEN 1 ELSE 0)]
       /\ Answer(x, out /\ ok)
  /\ UNCHANGED <<brokered, plan, ticket, atRoot, delivered, drafts, relays, raced>>

(* The same at root, where a failed publication gives the ticket back and   *)
(* the client may have given up.                                            *)
PublishAtRoot(r) ==
  /\ r \in atRoot
  /\ atRoot' = atRoot \ {r}
  /\ \E out, ok \in BOOLEAN :
       /\ published' = [published EXCEPT ![r] = @ + (IF out THEN 1 ELSE 0)]
       /\ ticket' = IF out /\ ok THEN [ticket EXCEPT ![r] = NoRow]
                    ELSE [ticket EXCEPT ![r].flying = FALSE]
       /\ IF \E x \in Process : Publishing(x, r)
            THEN \E x \in Process : Publishing(x, r) /\ Answer(x, out /\ ok)
            ELSE UNCHANGED call
  /\ UNCHANGED <<brokered, plan, delivered, drafts, relays, raced>>

(* The broker's client gives up; root does not. *)
GiveUp(x) ==
  /\ At(x, "publishing")
  /\ Leave(x)
  /\ UNCHANGED <<brokered, catalogue, delivered, drafts, relays, raced>>

-----------------------------------------------------------------------------
(* Announcements and joins.                                                *)

(* catalog_announce, armada_join and the two that draft.  The publication   *)
(* a caller wants announced is as the caller says: it is not looked up.     *)
(* Who asks for what the server signs itself is left out.                   *)
Announce(x, r) ==
  /\ Start(x, "announce", Bot, r, "look")
  /\ UNCHANGED <<brokered, catalogue, delivered, drafts, relays, raced>>

JoinByBot(x) ==
  /\ Start(x, "announce", Bot, Join, "prepare")
  /\ UNCHANGED <<brokered, catalogue, delivered, drafts, relays, raced>>

AskDraft(x, p, s) ==
  /\ Start(x, "draft", p, s, IF s = Join THEN "prepare" ELSE "look")
  /\ UNCHANGED <<brokered, catalogue, delivered, drafts, relays, raced>>

(* The two submits; want is what the tool submits. *)
Submit(x, p, want, d) ==
  /\ call[x] = Idle
  /\ call' = [call EXCEPT ![x] =
       [tool |-> "submit", who |-> p, subject |-> want, want |-> want, draft |-> d,
        event |-> 0, stage |-> "select"]]
  /\ UNCHANGED <<brokered, catalogue, delivered, drafts, relays, raced>>

(* SELECT, then DELETE, each a transaction of its own. *)
Select(x) ==
  /\ At(x, "select")
  /\ LET d == call[x].draft IN
     IF drafts[d] # NoRow /\ drafts[d].live
       THEN /\ Goto(x, "delete")
            /\ raced' = raced \cup {s \in {d} : \E y \in Process \ {x} :
                                        At(y, "delete") /\ call[y].draft = d}
       ELSE Leave(x) /\ UNCHANGED raced
  /\ UNCHANGED <<brokered, catalogue, delivered, drafts, relays>>

SameKind(s, t) == (s = Join) <=> (t = Join)

(* Whether it is the caller's, and of the kind the tool submits. *)
Accepts(x, row) == row.who = call[x].who /\ SameKind(call[x].want, row.subject)

(* Mutant: the delivery was looked up when it was drafted. *)
AfterDraftUnchecked(s) == "send"

AfterDraft(s) == IF s = Join THEN "send" ELSE "look"

(* Mutant: only what is refused is deleted. *)
RemoveRefused(x) ==
  drafts' = IF Accepts(x, drafts[call[x].draft]) THEN drafts
            ELSE [drafts EXCEPT ![call[x].draft].live = FALSE]

Remove(x) == drafts' = [drafts EXCEPT ![call[x].draft].live = FALSE]

(* The row as it was selected, gone before it is checked; it may also have  *)
(* expired.                                                                 *)
Delete(x) ==
  /\ At(x, "delete")
  /\ LET row == drafts[call[x].draft] IN
     /\ Remove(x)
     /\ \/ /\ Accepts(x, row)
           /\ call' = [call EXCEPT ![x].stage = AfterDraft(row.subject),
                                   ![x].subject = row.subject]
        \/ Leave(x)
  /\ UNCHANGED <<brokered, catalogue, delivered, relays, raced>>

(* Between the look and the record, for one that posts. *)
Inside(y, s) ==
  /\ call[y] # Idle /\ call[y].subject = s /\ call[y].tool # "draft"
  /\ call[y].stage \in {"prepare", "send", "record"}

(* ConcordDeliveryStore.get.  What is submitted has been prepared before. *)
Look(x) ==
  /\ At(x, "look")
  /\ LET s == call[x].subject IN
     IF delivered[s] # 0
       THEN Leave(x) /\ UNCHANGED raced
       ELSE /\ Goto(x, IF call[x].tool = "submit" THEN "send" ELSE "prepare")
            /\ raced' = raced \cup {k \in {s} : call[x].tool # "draft"
                                        /\ \E y \in Process \ {x} : Inside(y, s)}
  /\ UNCHANGED <<brokered, catalogue, delivered, drafts, relays>>

(* Credentials, the invite and the control plane are read and a channel is  *)
(* found, or not.                                                           *)
Prepare(x) ==
  /\ At(x, "prepare") /\ call[x].tool # "draft"
  /\ Goto(x, "send") \/ Leave(x)
  /\ UNCHANGED <<brokered, catalogue, delivered, drafts, relays, raced>>

PrepareDraft(x, d) ==
  /\ At(x, "prepare") /\ call[x].tool = "draft"
  /\ \/ /\ drafts[d] = NoRow
        /\ drafts' = [drafts EXCEPT ![d] =
             [who |-> call[x].who, subject |-> call[x].subject, live |-> TRUE]]
     \/ UNCHANGED drafts
  /\ Leave(x)
  /\ UNCHANGED <<brokered, catalogue, delivered, relays, raced>>

CountUse(x) ==
  used' = IF call[x].draft = NoRow THEN used ELSE [used EXCEPT ![call[x].draft] = @ + 1]

ToRecord(x) == call' = [call EXCEPT ![x].stage = "record", ![x].event = Len(posts')]

AfterPost(x) == ToRecord(x)

(* publish_signed_event: the relays have the event, or the deadline passes  *)
(* before, or after, it got there; a draft's signature may not be right.    *)
(* After a join nothing is recorded.                                        *)
Send(x) ==
  /\ At(x, "send")
  /\ \/ /\ call[x].subject = Join
        /\ CountUse(x) /\ Leave(x) /\ UNCHANGED <<posts, lost>>
     \/ /\ call[x].subject # Join /\ Len(posts) < MaxPosts
        /\ posts' = Append(posts, call[x].subject)
        /\ CountUse(x)
        /\ \/ AfterPost(x) /\ UNCHANGED lost
           \/ Leave(x) /\ lost' = [lost EXCEPT ![call[x].subject] = @ + 1]
     \/ Leave(x) /\ UNCHANGED relays
  /\ UNCHANGED <<brokered, catalogue, delivered, drafts, raced>>

(* Mutant: INSERT OR REPLACE. *)
InsertOrReplace(k, e) == delivered' = [delivered EXCEPT ![k] = e]

InsertOrIgnore(k, e) == delivered' = [delivered EXCEPT ![k] = IF @ = 0 THEN e ELSE @]

Record(x) ==
  /\ At(x, "record")
  /\ InsertOrIgnore(call[x].subject, call[x].event)
  /\ Leave(x)
  /\ UNCHANGED <<brokered, catalogue, drafts, relays, raced>>

-----------------------------------------------------------------------------
(* A process dies, with its plans, and with an event it has sent and not    *)
(* recorded.                                                                *)
Crash(x) ==
  /\ call[x] # Idle \/ \E r \in Release : Pending(r) /\ plan[r].at = x
  /\ plan' = [r \in Release |-> IF Pending(r) /\ plan[r].at = x THEN Gone ELSE plan[r]]
  /\ lost' = [r \in Release |->
       lost[r] + IF At(x, "record") /\ call[x].subject = r THEN 1 ELSE 0]
  /\ call' = [call EXCEPT ![x] = Idle]
  /\ UNCHANGED <<brokered, ticket, atRoot, published, delivered, drafts>>
  /\ UNCHANGED <<posts, used, raced>>

Serve(x) ==
  \/ Forward(x) \/ PublishHere(x) \/ GiveUp(x)
  \/ Select(x) \/ Delete(x) \/ Look(x) \/ Prepare(x) \/ Send(x) \/ Record(x)
  \/ \E d \in Draft : PrepareDraft(x, d)

Call(x) ==
  \/ JoinByBot(x) \/ \E r \in Release : Announce(x, r)
  \/ \E p \in Person :
       \/ \E r \in Release : MakePlan(x, p, r) \/ Confirm(p, r) \/ BeginPublish(x, p, r)
       \/ \E s \in Subject : AskDraft(x, p, s)
       \/ \E s \in Subject, d \in Draft : Submit(x, p, s, d)

Next ==
  \/ \E x \in Process : Call(x) \/ Serve(x) \/ Crash(x)
  \/ \E r \in Release : PlanLapses(r) \/ PublishAtRoot(r)

Spec == Init /\ [][Next]_vars

-----------------------------------------------------------------------------
(* Properties.                                                             *)

Tool == {"publish", "announce", "draft", "submit"}

Stage == {"planned", "publishing", "select", "delete", "look", "prepare", "send", "record"}

CallRecord ==
  [tool : Tool, who : Person \cup {Bot}, subject : Subject, want : Subject,
   draft : Draft \cup {NoRow}, event : Nat, stage : Stage]

ASSUME IdleAssumption == Idle \notin CallRecord

CallOK(x) ==
  /\ call[x].tool = "submit" <=> call[x].draft \in Draft
  /\ call[x].stage \in {"planned", "publishing"} => call[x].tool = "publish"
  /\ call[x].tool \in {"publish", "draft"} => call[x].who \in Person
  /\ call[x].stage \in {"select", "delete"} => call[x].tool = "submit"
  /\ call[x].stage = "delete" => drafts[call[x].draft] # NoRow
  /\ call[x].stage \in {"planned", "publishing", "look", "record"} =>
       call[x].subject \in Release

(* Every variable holds what the code can put in it; a draft a call is      *)
(* about to delete is there, and a flying ticket has a thread at root.      *)
TypeOK ==
  /\ brokered \in BOOLEAN
  /\ plan \in [Release -> [who : Person, at : Process] \cup {NoRow, Gone}]
  /\ ticket \in [Release -> TicketRow \cup {NoRow}]
  /\ atRoot = {r \in Release : ticket[r] # NoRow /\ ticket[r].flying}
  /\ published \in [Release -> Nat]
  /\ delivered \in [Release -> 0..Len(posts)]
  /\ drafts \in [Draft -> DraftRow \cup {NoRow}]
  /\ posts \in Seq(Release)
  /\ lost \in [Release -> Nat]
  /\ used \in [Draft -> Nat]
  /\ raced \subseteq Release \cup Draft
  /\ call \in [Process -> CallRecord \cup {Idle}]
  /\ \A x \in Process : call[x] # Idle => CallOK(x)

(* A plan is published at most once (server.py:2951), though root's failure *)
(* after the relays have it leaves the owner's approval valid.              *)
PublishedOnce == \A r \in Release : published[r] <= 1

(* A release is announced once (server.py:3019), whoever asks and by which  *)
(* tool, but for the posts whose sender never learnt that they arrived and  *)
(* two processes that announced it at the same time.                        *)
AnnouncedOnce ==
  \A r \in Release \ raced :
    Cardinality({e \in DOMAIN posts : posts[e] = r}) <= 1 + lost[r]

(* A draft is posted once (concord_pending_signature.py:121), unless two    *)
(* processes had selected it before either deleted it.                      *)
DraftOnce == \A d \in Draft \ raced : used[d] <= 1

(* The record of a delivery names the event first recorded, and one that    *)
(* announces that release (concord_delivery.py:42).                         *)
RecordStands ==
  [][\A r \in Release :
       /\ delivered[r] # 0 => delivered'[r] = delivered[r]
       /\ delivered'[r] # 0 => posts[delivered'[r]] = r]_vars

-----------------------------------------------------------------------------
(* The strengthening under which all four are inductive.                   *)

(* A plan that is still there has never been published and nobody is at it; *)
(* neither has one root is publishing, nor one a call has used up and not   *)
(* yet published, which is the only call at it.                             *)
Planned(x, r) == At(x, "planned") /\ call[x].subject = r

PlansAreFresh ==
  \A r \in Release :
    /\ plan[r] # Gone \/ r \in atRoot \/ (\E x \in Process : Planned(x, r))
         => published[r] = 0
    /\ plan[r] # Gone => r \notin atRoot /\ \A x \in Process : ~Planned(x, r)
    /\ r \in atRoot => \A x \in Process : ~Planned(x, r)
    /\ \A x, y \in Process : Planned(x, r) /\ Planned(y, r) => x = y

(* A draft that two processes did not race for is in the hands of at most   *)
(* one submit, which has not posted it; one that nobody has taken out of    *)
(* the table has not been posted.                                           *)
Holding(x, d) ==
  /\ call[x] # Idle /\ call[x].draft = d
  /\ call[x].stage \in {"delete", "look", "prepare", "send"}

DraftsAreFresh ==
  \A d \in Draft \ raced :
    /\ \A x, y \in Process : Holding(x, d) /\ Holding(y, d) => x = y
    /\ (\E x \in Process : Holding(x, d)) => used[d] = 0
    /\ drafts[d] = NoRow \/ drafts[d].live =>
         /\ used[d] = 0
         /\ \A x \in Process : Holding(x, d) => At(x, "delete")

(* An event that is recorded, or about to be, is one of that release. *)
RecordsAreTrue ==
  /\ \A r \in Release : delivered[r] # 0 => posts[delivered[r]] = r
  /\ \A x \in Process : At(x, "record") =>
       call[x].event \in 1..Len(posts) /\ posts[call[x].event] = call[x].subject

(* A call that drafts ends with the draft: it posts nothing. *)
DraftersPrepare ==
  \A x \in Process : call[x] # Idle /\ call[x].tool = "draft" =>
    call[x].stage \in {"look", "prepare"}

(* A release that two processes did not announce at once is in the hands of *)
(* at most one poster, which found no record of it; every announcement that *)
(* arrived but one is among the lost, and that one is recorded or about to  *)
(* be.                                                                      *)
Announcements(r) == {e \in DOMAIN posts : posts[e] = r}

Recording(x, r) == At(x, "record") /\ call[x].subject = r

Known(r) == delivered[r] # 0 \/ \E x \in Process : Recording(x, r)

PostsAreKnown ==
  \A r \in Release \ raced :
    /\ \A x, y \in Process : Inside(x, r) /\ Inside(y, r) => x = y
    /\ (\E x \in Process : Inside(x, r)) => delivered[r] = 0
    /\ Cardinality(Announcements(r)) <= lost[r] + (IF Known(r) THEN 1 ELSE 0)
=============================================================================
