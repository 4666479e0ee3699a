------------------------- MODULE ConfirmationStore -------------------------
(***************************************************************************)
(* The rows of SQLiteConfirmationStore (policy/confirmation.py) and what   *)
(* each of its methods does to them, as functions of the table it finds    *)
(* and of the time it reads.  approve, consume, finalize and revert are    *)
(* one BEGIN IMMEDIATE transaction each and create is one INSERT.  peek is *)
(* up to three autocommit statements (read the row, delete it if it        *)
(* lapsed, ask whether it is claimed): between them a row can only be      *)
(* claimed, approved or removed, so that the worst a peek taken as one     *)
(* step leaves out is a call that goes on to a broker that refuses it.     *)
(***************************************************************************)
EXTENDS Integers

CONSTANTS
  Ticket,      \* confirmation_id values, each drawn afresh from uuid4
  Caller,      \* Nostr identities that authenticate requests and sign events
  Op,          \* one element per (policy key, exact arguments) pair
  OwnerOp,     \* those whose rule has require_owner_signature
  LocalOp,     \* those the frontend runs itself (audit_list, audit_get)
  Owner,       \* the identity get_owner_pubkey resolves to
  Ttl,         \* confirmation_ttl_seconds
  OwnerTtl,    \* owner_approval_ttl_seconds
  NoRow        \* a ticket that has no row in the table

ASSUME StoreAssumption ==
  /\ OwnerOp \subseteq Op
  /\ LocalOp \subseteq Op
  /\ Owner \in Caller
  /\ Ttl \in Nat
  /\ OwnerTtl \in Nat

(* A row, abstracted to what the code branches on: who asked for what, when *)
(* it lapses, whether the owner co-signed it and whether consumed_at is     *)
(* set.                                                                     *)
Row == [caller : Caller, op : Op, expires : Nat,
        approved : BOOLEAN, consumed : BOOLEAN]

ASSUME NoRowAssumption == NoRow \notin Row

(* A kind-24243 event: who signed it and the ticket its tags name.  The     *)
(* operation_hash tag adds nothing here, a ticket's hash being a function   *)
(* of its id and of immutable columns.                                      *)
Approval == [signer : Caller, ticket : Ticket]

-----------------------------------------------------------------------------
Exists(db, t) == db[t] # NoRow

Expired(db, t, now) == now >= db[t].expires

Live(db, t, now) == Exists(db, t) /\ ~Expired(db, t, now)

Delete(db, t) == [db EXCEPT ![t] = NoRow]

(* _check_live: looking a lapsed row up removes it. *)
CheckLive(db, t, now) ==
  IF Exists(db, t) /\ Expired(db, t, now) THEN Delete(db, t) ELSE db

(* create: the INSERT of a row that is neither approved nor consumed. *)
TtlFor(op) == IF op \in OwnerOp THEN OwnerTtl ELSE Ttl

Create(db, t, c, op, now) ==
  [db EXCEPT ![t] = [caller |-> c, op |-> op, expires |-> now + TtlFor(op),
                     approved |-> FALSE, consumed |-> FALSE]]

(* peek: the ticket is returned only when live and not claimed; the only    *)
(* change it can make is CheckLive's.                                       *)
Peekable(db, t, now) == Live(db, t, now) /\ ~db[t].consumed

(* Mutant: the author of the approval is not compared with the owner. *)
SignedByAnyone(e, t) == e.ticket = t

(* approve: _verify_owner_approval accepts an event of the owner's whose    *)
(* tags name this ticket; a refused event leaves the row alone.             *)
OwnerSigned(e, t) == e.signer = Owner /\ e.ticket = t

(* Mutant: an approval also pushes the row's expiry back. *)
ApproveRenews(db, e, t, now) ==
  IF Peekable(db, t, now) /\ OwnerSigned(e, t)
  THEN [db EXCEPT ![t].approved = TRUE, ![t].expires = @ + OwnerTtl]
  ELSE CheckLive(db, t, now)

Approve(db, e, t, now) ==
  IF Peekable(db, t, now) /\ OwnerSigned(e, t)
  THEN [db EXCEPT ![t].approved = TRUE]
  ELSE CheckLive(db, t, now)

(* Mutants: a ticket serves whoever presents it; nobody asks whether it was *)
(* co-signed.                                                               *)
IssuedToAnyone(row, c, op) == row.op = op

CoSignedOrNot(row, op) == TRUE

(* consume: the binding of a ticket to one identity, tool and argument      *)
(* hash, and the owner co-signature when the rule asks for it.              *)
IssuedTo(row, c, op) == row.caller = c /\ row.op = op

CoSigned(row, op) == op \in OwnerOp => row.approved

Consumable(db, t, c, op, now) ==
  Live(db, t, now) /\ IssuedTo(db[t], c, op) /\ CoSigned(db[t], op)

(* Mutant: the UPDATE lacks its AND consumed_at IS NULL. *)
ClaimableTwice(db, t, c, op, now) == Consumable(db, t, c, op, now)

(* consume with defer: the UPDATE ... WHERE consumed_at IS NULL must hit.   *)
Claimable(db, t, c, op, now) ==
  Consumable(db, t, c, op, now) /\ ~db[t].consumed

Claim(db, t) == [db EXCEPT ![t].consumed = TRUE]

(* A refused consume removes a row that has lapsed or was issued for        *)
(* something else, and keeps one that only lacks the co-signature or is     *)
(* already claimed.                                                         *)
ConsumeRefused(db, t, c, op, now) ==
  IF Exists(db, t) /\ (Expired(db, t, now) \/ ~IssuedTo(db[t], c, op))
  THEN Delete(db, t)
  ELSE db

(* Mutant: revert starts the ticket over. *)
RevertResets(db, t) ==
  IF Exists(db, t)
  THEN [db EXCEPT ![t].consumed = FALSE, ![t].approved = FALSE]
  ELSE db

(* revert: a missing row is an error the broker only logs. *)
Revert(db, t) ==
  IF Exists(db, t) THEN [db EXCEPT ![t].consumed = FALSE] ELSE db
=============================================================================
