---------------------------- MODULE MCSubdomains ----------------------------
(***************************************************************************)
(* Instances of Subdomains.  The nodes are numbers, in the order of their  *)
(* names; an infohash is the value of its first digits, here of one digit  *)
(* (MaxPrefix 15) where the code takes five (MaxPrefix 1048575).           *)
(***************************************************************************)
EXTENDS Subdomains

\* Nodes that may serve anything.
PlainLabels == {[subdomain |-> TRUE, pools |-> {"seeder"},
                 allowed |-> {}, denied |-> {}]}

\* A node each way of refusing a request: without a subdomain, out of the pool
\* or in it, that denies the free role, or allows no other and denies it too.
RichLabels ==
  {[subdomain |-> FALSE, pools |-> {"seeder"}, allowed |-> {}, denied |-> {}]}
  \cup {[subdomain |-> TRUE, pools |-> p, allowed |-> l[1], denied |-> l[2]] :
          p \in {{}, {"seeder"}},
          l \in {<<{}, {}>>, <<{}, {"free"}>>, <<{"free"}, {"free"}>>}}

\* A token of the other role, without one, none, and one that is not ours.
Tokens == {"paid", NoRole, NoToken, Bad}

TwoNodes  == {1, 2}
FourNodes == {1, 2, 3, 4}

AllPrefixes == 0..15
OnePrefix   == {7}

=============================================================================
