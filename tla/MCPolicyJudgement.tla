---------------------------- MODULE MCPolicyJudgement ----------------------------
(* Instances of PolicyJudgement for TLC. *)
EXTENDS PolicyJudgement

CONSTANTS ads, game   \* tags

com == <<"c", "o", "m">>
de == <<"d", "e">>
co == <<"c", "o">>
jp == <<"j", "p">>
abc == <<"a", "b", "c">>
shop == <<"s", "h", "o", "p">>
myshop == <<"m", "y">> \o shop
www == <<"w", "w", "w">>

V4 == <<"10.0.0.5">>
V6 == <<"fe80", "", "5">>

(* shop.com and www.shop.com, a name that ends in shop.com without being under
   it, a country domain of two parts, one whose name is short, one label. *)
MCDomains ==
  {<<shop, com>>, <<www, shop, com>>, <<myshop, com>>, <<shop, co, jp>>, <<abc, de>>, <<www>>}

MCSubdomains == {www, myshop}
MCClients == {V4, <<"10.0.0.6">>}
MCClients6 == {V4, V6}

AnyRule ==
  [priority |-> 5, action |-> "Block", client |-> None, tag |-> None, domain |-> None, path |-> None]

MCRows ==
  {[AnyRule EXCEPT !.priority = 1, !.action = "Allow", !.client = V4],
   [AnyRule EXCEPT !.priority = 3, !.domain = <<shop, com>>],
   [AnyRule EXCEPT !.priority = 3, !.action = "Allow", !.domain = <<shop, com>>, !.path = "search"],
   [AnyRule EXCEPT !.priority = 2, !.tag = ads],
   [AnyRule EXCEPT !.priority = 4, !.tag = game, !.client = V4],
   AnyRule}

Row6 == {[AnyRule EXCEPT !.client = V6]}
RowInvalid == {[AnyRule EXCEPT !.path = "["]}

MCMatching == {<<"search", "/search">>}

(* shop and www may be tagged, abc is not. *)
MCTagMaps == [{shop, www} -> {ads, game, None}]
=============================================================================
