----------------------------- MODULE Blocklist -----------------------------
(***************************************************************************)
(* The live blocklist of pb-network (blocklist/blocklist.rs): one manifest *)
(* behind a RwLock.  Manifests are immutable, so the live state is the     *)
(* content version, and what that version blocks and strips is a constant. *)
(***************************************************************************)
EXTENDS Naturals, SequencesExt

\* A loop that pushes what is not in drop.
Omitting(s, drop) ==
  FoldLeft(LAMBDA kept, x : IF x \in drop THEN kept ELSE Append(kept, x), <<>>, s)

(* Host matching (blocklist/radix_tree.rs, rule.rs): the rules are         *)
(* compiled into a tree of labels read from the right, and a host is       *)
(* matched by walking down it.                                             *)
(*                                                                         *)
(* A host is the sequence of its labels as written; "" is an empty label,  *)
(* as a leading, trailing or doubled dot makes one.  Letter case is        *)
(* folded away on both sides.  A tree maps the path of every node to the   *)
(* terminal at it, or to Inner.                                            *)

BlockKind == {"ad", "tracker", "fingerprint-attempt"}

Wide(hostname, kind) == [hostname |-> hostname, kind |-> kind, subdomains |-> TRUE]
Exact(hostname, kind) == [hostname |-> hostname, kind |-> kind, subdomains |-> FALSE]

\* rsplit('.'), without the empty labels.
Labels(host) == Omitting(Reverse(host), {""})

Inner == [kind |-> "none", subdomains |-> FALSE]
EmptyTree == [p \in {<<>>} |-> Inner]

\* The nodes of the rule's path are created where they are missing and its terminal
\* is put at the last one, whatever was there; a rule without labels is ignored.
Insert(tree, rule) ==
  LET path == Labels(rule.hostname)
      steps == {SubSeq(path, 1, i) : i \in 0..Len(path)}
      terminal == [kind |-> rule.kind, subdomains |-> rule.subdomains]
  IN  IF path = <<>> THEN tree
      ELSE [p \in DOMAIN tree \cup steps |->
              IF p = path THEN terminal
              ELSE IF p \in DOMAIN tree THEN tree[p] ELSE Inner]

FromRules(rules) == FoldLeft(Insert, EmptyTree, rules)

MatchShallowest(tree, host) ==
  LET labels == Labels(host)
      At(i) == tree[SubSeq(labels, 1, i)]
      covering == {i \in 1..Len(labels) :
                     /\ SubSeq(labels, 1, i) \in DOMAIN tree
                     /\ At(i) # Inner
                     /\ At(i).subdomains \/ i = Len(labels)}
  IN  IF covering = {} THEN "none" ELSE At(Min(covering)).kind

\* The deepest terminal on the walk that covers the host: a rule for subdomains
\* too, or one at the host itself.  The walk ends at the first label without a child.
\* As nodes are only ever made with all their ancestors, a node is on the walk iff it
\* is in the tree.
MatchTree(tree, host) ==
  LET labels == Labels(host)
      At(i) == tree[SubSeq(labels, 1, i)]
      covering == {i \in 1..Len(labels) :
                     /\ SubSeq(labels, 1, i) \in DOMAIN tree
                     /\ At(i) # Inner
                     /\ At(i).subdomains \/ i = Len(labels)}
  IN  IF covering = {} THEN "none" ELSE At(Max(covering)).kind

-----------------------------------------------------------------------------
(* A list of rules, read without the tree.                                 *)

Covers(rule, host) ==
  /\ Labels(rule.hostname) # <<>>
  /\ \/ Labels(rule.hostname) = Labels(host)
     \/ rule.subdomains /\ IsPrefix(Labels(rule.hostname), Labels(host))

\* Of the rules for one hostname only the last counts, as in the code: both arms of
\* insert's match take the new terminal.  The comment above that match would have the
\* rule without subdomains stand, whichever came first.
Standing(rules) ==
  {rules[i] : i \in {i \in DOMAIN rules : \A j \in DOMAIN rules :
                       j > i => Labels(rules[j].hostname) # Labels(rules[i].hostname)}}

\* "Longest-match wins": the kind of the most specific standing rule that covers host.
LongestMatch(rules, host) ==
  LET covering == {r \in Standing(rules) : Covers(r, host)}
  IN  IF covering = {} THEN "none"
      ELSE (CHOOSE r \in covering : \A s \in covering :
              Len(Labels(s.hostname)) <= Len(Labels(r.hostname))).kind

-----------------------------------------------------------------------------
(* The tracking-parameter strip (blocklist/url_strip.rs).  A URL is a      *)
(* record; its query is the sequence of its parts, each standing for one   *)
(* key=value with the key in lower case, EmptyPart for an empty one        *)
(* ("a=1&&b=2"); query = <<>> is a URL without a query.  `huge` is a URL   *)
(* longer than MAX_STRIPPABLE_URL_LEN.                                     *)

EmptyPart == ""

\* An authority as written: "user@", the labels of the host, ":port".
Authority == [user : BOOLEAN, host : Seq(STRING), port : BOOLEAN]
NoAuthority == [host |-> <<>>]

Urls ==
  [scheme : {"https", "http", "other"}, authority : Authority \cup {NoAuthority},
   query : Seq(STRING), fragment : BOOLEAN, huge : BOOLEAN]

\* The rewrite is all or nothing: without a part on the list the URL stays as it is,
\* its empty parts included.
StripTrackingParams(url, list) ==
  LET kept == Omitting(url.query, list \cup {EmptyPart})
  IN  IF url.huge \/ ToSet(url.query) \cap list = {} THEN url
      ELSE [url EXCEPT !.query = kept]

-----------------------------------------------------------------------------
(* Manifests (blocklist/rule.rs).  The rules for cookie banners are        *)
(* carried along by the code, and nobody reads them.                       *)

Rule == [hostname : Seq(STRING), kind : BlockKind, subdomains : BOOLEAN]

\* A parameter to strip, its name folded to lower case.
UrlParamRule == [name : STRING]

Manifest == [host_rules : Seq(Rule), url_param_rules : Seq(UrlParamRule)]
EmptyManifest == [host_rules |-> <<>>, url_param_rules |-> <<>>]

\* UrlParamStripList::from_rules.
StripListOf(rules) == {rules[i].name : i \in DOMAIN rules}

CONSTANTS
  MaxVersion,   \* bound: content versions published
  Published     \* version -> the manifest published as it

ASSUME VersionAssumption == MaxVersion \in Nat
ASSUME PublishedAssumption == Published \in [1..MaxVersion -> Manifest]

VARIABLE live   \* content version of the live state; 0 is the empty list

Version == 0..MaxVersion

ManifestOf(v) == IF v = 0 THEN EmptyManifest ELSE Published[v]
HostRules == [v \in Version |-> ManifestOf(v).host_rules]
StripRules == [v \in Version |-> StripListOf(ManifestOf(v).url_param_rules)]

BlocklistInit == live = 0

\* swap: all the sub-tracks at once, under the write lock, whatever is live.
Swap(v) == live' = v

\* match_host and url_param_strip_list: each takes its own snapshot of the state.
MatchHost(host) == MatchTree(FromRules(HostRules[live]), host)
UrlParamStripList == StripRules[live]
=============================================================================
