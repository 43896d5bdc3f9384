------------------------ MODULE MCNetworkCoordinator ------------------------
(* Values for model checking the network coordinator.                      *)
EXTENDS NetworkCoordinator

MCKey == Partition \X Name
MCOutcome == {[kind |-> "Positive", ttl |-> 2], [kind |-> "NxDomain", ttl |-> 0],
              [kind |-> "Failed", ttl |-> 0]}

\* Version 1 blocks a domain with all below it; version 2 leaves one host of it to a
\* more specific rule, and has two hosts twice: a wide rule before an exact one, and
\* the other way round.
MCPublished ==
  [v \in 1..MaxVersion |->
     IF v = 1
     THEN [host_rules |-> <<Wide(<<"ads", "com">>, "ad")>>,
           url_param_rules |-> <<[name |-> "gclid"]>>]
     ELSE [host_rules |->
             <<Wide(<<"", "t", "ads", "com">>, "tracker"), Wide(<<"ads", "com">>, "ad"),
               Wide(<<"cdn", "net">>, "ad"), Exact(<<"cdn", "net">>, "ad"),
               Exact(<<"img", "org">>, "tracker"), Wide(<<"img", "org">>, "ad"),
               Wide(<<"">>, "ad")>>,
           url_param_rules |-> <<[name |-> "gclid"], [name |-> "fbclid"]>>]]

\* Every partition with an ordinary request, and requests that one check refuses or one
\* rewrite treats differently.
MCRequest ==
  LET At(host) == [user |-> FALSE, host |-> host, port |-> FALSE]
      url == [scheme |-> "https", authority |-> At(<<"news", "com">>), fragment |-> TRUE,
              query |-> <<"fbclid", "", "q", "gclid">>, huge |-> FALSE]
      Ordinary(p) == [derived |-> p, declared |-> p, mode |-> "Standard",
                      origin |-> "news", approved |-> FALSE, url |-> url,
                      headers |-> <<"cookie", "accept", "user-agent", "x-app", "dnt">>]
      one == Ordinary(CHOOSE p \in Partition : TRUE)
  IN  {Ordinary(p) : p \in Partition}
        \cup {[one EXCEPT !.declared = p] : p \in Partition}
        \cup {[one EXCEPT !.url.scheme = s, !.approved = a] :
                s \in {"http", "other"}, a \in BOOLEAN}
        \cup {[one EXCEPT !.url.authority = At(host)] :
                host \in {<<"ads", "com">>, <<"x", "z", "ads", "com">>, <<"t", "ads", "com", "">>,
                          <<"x", "t", "ads", "com">>, <<"cdn", "net">>, <<"x", "cdn", "net">>,
                          <<"img", "org">>, <<"x", "img", "org">>, <<"com">>, <<"badads", "com">>}}
        \cup {[one EXCEPT !.url.authority = NoAuthority],
              [one EXCEPT !.url.authority =
                 [user |-> TRUE, host |-> <<"x", "ads", "com">>, port |-> TRUE]],
              [one EXCEPT !.mode = "Strict", !.headers = <<"referer">>],
              [one EXCEPT !.origin = "", !.url.huge = TRUE],
              [one EXCEPT !.url.query = <<"q", "", "q">>, !.headers = <<>>]}

\* Either resolutions, of one partition, or routes: their states do not multiply.
\* Teardowns and swaps of the manifest come with both.
OneSideAtATime ==
  \/ /\ route = NoRoute /\ sent = NoRoute /\ event = NoEvent /\ live = 0
     /\ egress = EmptyLru
     /\ LET one == CHOOSE p \in Partition : TRUE
        IN  /\ DOMAIN cache \subseteq {one}
            /\ \A c \in Caller : Idle(c) \/ asking[c].key[1] = one
            /\ \A p \in Partition \ {one} : drops[p] = 0
  \/ cache = EmptyMap /\ ~wired /\ now = 0 /\ \A c \in Caller : Idle(c)

\* Callers and names are interchangeable.
Symmetry == Permutations(Caller) \cup Permutations(Name)
=============================================================================
