---------------------------- MODULE ControlFold ----------------------------
(***************************************************************************)
(* How a server reads a community's control plane: the editions of roles,  *)
(* of grants of roles to members and of channels that relays return, some  *)
(* of them and in any order, are folded into who may edit what and which   *)
(* channels there are.  An edition names the one it follows by its hash.   *)
(***************************************************************************)
EXTENDS Integers, Sequences, FiniteSetsExt, SequencesExt

CONSTANTS
  Edition,              \* those on the relays
  Person, Owner,        \* the members; the owner is the invite's
  Nobody,               \* no member, no grant, no earlier edition
  MaxVersion,           \* of an edition; 2^64 - 1
  MaxRounds             \* of build_roster_authorizer; 128

(* An id is the hash of its event (concord_control_crypto.py:46), compared  *)
(* as a number; an edition whose version is not positive, or does not fit,  *)
(* does not parse.                                                          *)
ASSUME EditionAssumption ==
  /\ MaxVersion \in Nat /\ MaxRounds \in Nat /\ Nobody \notin Edition
  /\ \A e \in Edition : e.id \in Nat /\ e.version \in 1..MaxVersion
  /\ \A e, o \in Edition : e.id = o.id => e = o

VARIABLE fetched        \* the rumors of one fetch, in the order they came

(* edition_hash leaves the signer out. *)
Hash(e) == <<e.entity, e.version, e.prev, e.content>>

Of(kind, es) == {e \in es : e.kind = kind}

Entities(es) == {e.entity : e \in es}

Lowest(es) == CHOOSE e \in es : e.id = Min({o.id : o \in es})

(* Mutant: the version alone says what an edition follows. *)
FollowsByVersion(e, before) == e.version = 1 \/ before # Nobody

Follows(e, before) ==
  IF e.version = 1 THEN e.prev = Nobody
  ELSE before # Nobody /\ e.prev = Hash(before)

(* The chain of an entity: at every version the rival with the lowest id,   *)
(* among those that follow the choice before.                               *)
RosterNext(es, v, before) ==
  LET next == {e \in es : e.version = v /\ Follows(e, before)}
  IN IF next = {} THEN Nobody ELSE Lowest(next)

RosterChain(es) ==
  LET chain[v \in 0..MaxVersion] ==
        IF v = 0 THEN Nobody ELSE RosterNext(es, v, chain[v - 1])
  IN chain

(* Channels: the lowest id at a version is chosen first, and must follow.   *)
ChannelNext(es, v, before) ==
  LET rivals == {e \in es : e.version = v}
  IN IF rivals # {} /\ Follows(Lowest(rivals), before) THEN Lowest(rivals) ELSE Nobody

ChannelChain(es) ==
  LET chain[v \in 0..MaxVersion] ==
        IF v = 0 THEN Nobody ELSE ChannelNext(es, v, chain[v - 1])
  IN chain

Newest(chain) ==
  LET some == {v \in DOMAIN chain : chain[v] # Nobody}
  IN IF some = {} THEN Nobody ELSE chain[Max(some)]

ChainOf(kind, entity, es) ==
  RosterChain({e \in Of(kind, es) : e.entity = entity})

(* Mutant: what was superseded still counts. *)
EveryEdition(kind, es) == Of(kind, es)

(* _select_roster_heads *)
HeadsOf(kind, es) ==
  {Newest(ChainOf(kind, n, es)) : n \in Entities(Of(kind, es))} \ {Nobody}

-----------------------------------------------------------------------------
(* The roster.                                                             *)

(* The roles of a grant that there are. *)
RolesOf(g, roles) == {r \in roles : r.entity \in g.content.roles}

Position(rs) == Min({r.content.position : r \in rs})

(* When the entity of a grant first came, among what is accepted. *)
Came(g, acc, seq) ==
  Min({i \in DOMAIN seq :
         seq[i] \in acc /\ seq[i].kind = "grant" /\ seq[i].entity = g.entity})

(* _roster_members: of two grants to one member, the one that came later.   *)
Members(acc, roles, grants, seq) ==
  [p \in Person |->
    LET mine == {g \in grants : g.content.member = p /\ RolesOf(g, roles) # {}}
    IN
    IF mine # {}
      THEN LET g == CHOOSE g \in mine :
                      \A o \in mine : Came(o, acc, seq) <= Came(g, acc, seq)
           IN [position |-> Position(RolesOf(g, roles)),
               can |-> UNION {r.content.can : r \in RolesOf(g, roles)}]
    ELSE IF p = Owner THEN [position |-> 0, can |-> {"roles", "channels"}]
    ELSE Nobody]

(* The grant that is cited is the newest of its kind, and the signer's. *)
Cites(e, grants) ==
  \E g \in grants :
    e.vac = [grant |-> g.entity, hash |-> Hash(g)] /\ g.content.member = e.actor

(* Only what ranks below the signer may be made, given, or taken away. *)
Below(e, position, members, roles) ==
  IF e.kind = "role" THEN e.content.position > position
  ELSE IF RolesOf(e, roles) # {}
    THEN \A r \in RolesOf(e, roles) : r.content.position > position
  ELSE /\ e.content.roles = {}
       /\ members[e.content.member] # Nobody
       /\ members[e.content.member].position > position

(* One round: what the members of now may sign. *)
Admitted(acc, seq) ==
  LET roles   == HeadsOf("role", acc)
      grants  == HeadsOf("grant", acc)
      members == Members(acc, roles, grants, seq)
  IN {e \in ToSet(seq) \ Of("channel", ToSet(seq)) :
        LET actor == members[e.actor] IN
        /\ actor # Nobody /\ "roles" \in actor.can
        /\ e.actor # Owner => Cites(e, grants)
        /\ Below(e, actor.position, members, roles)}

(* Mutant: each edition is looked at once, in its turn. *)
RoundInTurn(acc, e, seq) == acc \cup ({e} \cap Admitted(acc, seq))

Round(acc, e, seq) == acc \cup Admitted(acc, seq)

SignedBy(who, seq) == {e \in ToSet(seq) : e.kind # "channel" /\ e.actor = who}

(* After as many rounds as there are editions none changes anything. *)
RoundsOf(seq) == IF Len(seq) < MaxRounds THEN Len(seq) ELSE MaxRounds

(* build_roster_authorizer: from what the owner signed outwards. *)
Accepted(seq) ==
  LET after[n \in 0..RoundsOf(seq)] ==
        IF n = 0 THEN SignedBy(Owner, seq) ELSE Round(after[n - 1], seq[n], seq)
  IN after[RoundsOf(seq)]

(* The editions of channels that those who hold accepted grants may sign.   *)
Entitled(acc, seq) ==
  LET grants  == HeadsOf("grant", acc)
      members == Members(acc, HeadsOf("role", acc), grants, seq)
  IN {e \in Of("channel", ToSet(seq)) :
        \/ e.actor = Owner
        \/ /\ members[e.actor] # Nobody /\ "channels" \in members[e.actor].can
           /\ Cites(e, grants)}

(* The roster is built once for a fetch. *)
Believed(seq) == UNION {Entitled(acc, seq) : acc \in {Accepted(seq)}}

(* fold_channel_metadata, deleted ones included. *)
ChannelHeads(seq) ==
  LET es == Believed(seq)
  IN {Newest(ChannelChain({e \in es : e.entity = n})) : n \in Entities(es)}
       \ {Nobody}

Channels(seq) == {e \in ChannelHeads(seq) : ~e.content.deleted}

-----------------------------------------------------------------------------
(* Properties.                                                             *)

(* No two grants are made out to the same member. *)
OneGrantEach ==
  \A g, h \in Of("grant", ToSet(fetched)) :
    g.content.member = h.content.member => g.entity = h.entity

Exchanged(seq, i) == [seq EXCEPT ![i] = seq[i + 1], ![i + 1] = seq[i]]

(* The channels a reader sees do not depend on the order relays return the  *)
(* editions in, as long as no member holds two grants                       *)
(* (concord_control.py:106): exchanging two neighbours changes nothing, and *)
(* exchanges lead from any order to any other.                              *)
OrderDoesNotMatter ==
  OneGrantEach =>
    LET seen == Channels(fetched)
    IN \A i \in 1..(Len(fetched) - 1) : Channels(Exchanged(fetched, i)) = seen

(* The owner has the last word on the grant of p, with nobody's edition in  *)
(* between, and it is that p has no role.                                   *)
Dismissed(p) ==
  \E g \in Of("grant", ToSet(fetched)) :
    /\ g.content = [member |-> p, roles |-> {}]
    /\ LET said  == ChainOf("grant", g.entity, SignedBy(Owner, fetched))
           stands == ChainOf("grant", g.entity, Accepted(fetched))
       IN said = stands /\ Newest(stands) = g

(* A member the owner has dismissed has no say left, in what it signed      *)
(* before either: nothing of it is accepted, of a role, a grant or a        *)
(* channel, and so nothing that hangs on it (concord_control.py:172).       *)
RevocationHolds ==
  OneGrantEach => \A p \in Person \ {Owner} : Dismissed(p) =>
    \A e \in Accepted(fetched) \cup Believed(fetched) : e.actor # p

(* The newest edition a reader takes of a channel goes back to its first    *)
(* through editions that were fetched, one for every version, and has no    *)
(* rival of its version with a lower id among those it believes             *)
(* (concord_control.py:322).                                                *)
Unbroken ==
  LET believed == Believed(fetched)
  IN \A c \in ChannelHeads(fetched) :
       /\ \E back \in [1..c.version -> believed] :
            /\ back[1].prev = Nobody
            /\ \A v \in 1..c.version :
                 /\ back[v].entity = c.entity /\ back[v].version = v
                 /\ IF v = c.version THEN back[v] = c
                    ELSE back[v + 1].prev = Hash(back[v])
       /\ \A e \in believed :
            e.entity = c.entity /\ e.version = c.version => c.id <= e.id
=============================================================================
