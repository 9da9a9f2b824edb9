--------------------------- MODULE MCProxyRequest ---------------------------
(* Instances of ProxyRequest for TLC. *)
EXTENDS ProxyRequest

CONSTANTS serve, admin, ads, r1   \* process, thread, tag, request

shop == <<"s", "h", "o", "p">>
com == <<"c", "o", "m">>
V4 == <<"10.0.0.5">>

OneProcess == [m \in {admin} |-> serve]

AnyRule ==
  [priority |-> 20, name |-> None, action |-> "Block", client |-> None, tag |-> None,
   domain |-> None, path |-> None]

(* A tag is blocked; one domain under it is allowed before that. *)
MCRuleData ==
  {[AnyRule EXCEPT !.tag = ads],
   [AnyRule EXCEPT !.priority = 10, !.action = "Allow", !.domain = <<shop, com>>, !.name = "limit"]}

MCSlds == {shop}
MCAsked == [r \in {r1} |-> [domain |-> <<shop, com>>, client |-> V4, path |-> "/"]]
MCServer == [r \in {r1} |-> serve]
=============================================================================
