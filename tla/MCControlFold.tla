--------------------------- MODULE MCControlFold ---------------------------
(* The owner O makes a admin; a makes b moderator of channels; b and        *)
(* the owner open one channel, a closes it, and the owner dismisses a.      *)
EXTENDS ControlFetch

CONSTANTS O, a, b

Make(id, actor, kind, entity, version, prev, content, vac) ==
  [id |-> id, actor |-> actor, kind |-> kind, entity |-> entity,
   version |-> version, prev |-> prev, content |-> content, vac |-> vac]

Citing(g) == [grant |-> g.entity, hash |-> Hash(g)]

Admin == Make(7, O, "role", "admin", 1, Nobody,
              [position |-> 1, can |-> {"roles", "channels"}], Nobody)
GrantA == Make(4, O, "grant", "ga", 1, Nobody,
               [member |-> a, roles |-> {"admin"}], Nobody)
DismissA == Make(2, O, "grant", "ga", 2, Hash(GrantA),
                 [member |-> a, roles |-> {}], Nobody)
Mod == Make(9, a, "role", "mod", 1, Nobody,
            [position |-> 2, can |-> {"channels"}], Citing(GrantA))
GrantB == Make(3, a, "grant", "gb", 1, Nobody,
               [member |-> b, roles |-> {"mod"}], Citing(GrantA))
OtherGrantB == Make(6, O, "grant", "hb", 1, Nobody,
                    [member |-> b, roles |-> {"admin"}], Nobody)
Opened == Make(5, b, "channel", "c", 1, Nobody,
               [name |-> "app", deleted |-> FALSE], Citing(GrantB))
OpenedByOwner == Make(8, O, "channel", "c", 1, Nobody,
                      [name |-> "app_ynh", deleted |-> FALSE], Nobody)
Closed == Make(1, a, "channel", "c", 2, Hash(OpenedByOwner),
                [name |-> "app_ynh", deleted |-> TRUE], Citing(GrantA))

MCPerson == {O, a, b}
MCEdition == {Admin, GrantA, DismissA, Mod, GrantB, OtherGrantB, Opened,
              OpenedByOwner, Closed}
=============================================================================
