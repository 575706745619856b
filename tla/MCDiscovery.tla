---------------------------- MODULE MCDiscovery ----------------------------
(* Instances of Discovery for TLC. *)
EXTENDS Discovery

Bytes(n) == [i \in 1 .. n |-> i]
Char(u, d, v) == [uuid |-> u, descs |-> d, value |-> v]
Svc(u, cs) == [uuid |-> u, chars |-> cs]

MCLong == {"long1", "long2"}
MCFilters == {{"c1", "c3", "s2", "long1", CCC}}
\* No service; more short services than a page holds; services of both sizes,
\* with a lone characteristic each, one with a value of one full response; more
\* characteristics than a page holds, of both sizes, with and without descriptors
\* and values that cannot be read, fit, or take three responses.
MCProfiles ==
  {<<>>,
   <<Svc("s1", <<>>), Svc("s2", <<>>), Svc("s3", <<>>), Svc("s4", <<>>)>>,
   <<Svc("s1", <<Char("c1", <<CCC>>, Bytes(22))>>), Svc("long1", <<Char("long2", <<>>, NoValue)>>)>>,
   <<Svc("s2", <<Char("c1", <<CCC>>, Bytes(3)), Char("c2", <<>>, NoValue),
                 Char("c3", <<"long1", "d1", CCC>>, Bytes(50)), Char("c4", <<>>, NoValue),
                 Char("long2", <<CCC>>, NoValue)>>),
     Svc("s3", <<Char("c1", <<>>, <<>>), Char("c2", <<CCC>>, NoValue)>>)>>}
=============================================================================
