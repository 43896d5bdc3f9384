---------------------------- MODULE MCConnections ----------------------------
(* Values for model checking the settings and the connections made under them. *)
EXTENDS Connections

\* One valid configuration per choice of resolver, and one per check of validate.
MCConfigValue ==
  {[DefaultConfig EXCEPT !.network.provider = p] :
     p \in {"quad9", "system", "custom https", "custom localhost"}}
    \cup {[DefaultConfig EXCEPT !.privacy.default_mode = "strict", !.network.provider = p] :
            p \in {"quad9", "system"}}
    \cup {[DefaultConfig EXCEPT !.version = 2],
          [DefaultConfig EXCEPT !.search.default_engine = "custom without query"],
          [DefaultConfig EXCEPT !.sync.enabled = TRUE],
          [DefaultConfig EXCEPT !.sync = [enabled |-> TRUE, backend |-> "webdav localhost"]],
          [DefaultConfig EXCEPT !.sync.backend = "webdav http"],
          [DefaultConfig EXCEPT !.bounce_tracker.purge_days = 366],
          [DefaultConfig EXCEPT !.gpu.memory_cap_mib = 4097]}

\* Files with a part of the fields: nothing else than the version, sections that may be and
\* that may not be so short, and what serde does not know.
MinimalFile == [version |-> 1, sections |-> NoSections]
MCConfigEdit ==
  {MinimalFile,
   [MinimalFile EXCEPT !.sections = [sync |-> [enabled |-> TRUE]]],
   [MinimalFile EXCEPT !.sections = [privacy |-> [default_mode |-> "strict"]]],
   [MinimalFile EXCEPT !.sections = [network |-> [provider |-> "dns4all"]]],
   [MinimalFile EXCEPT !.sections = [https_only |-> [enabled |-> TRUE, strict |-> TRUE]]]}

home == [id |-> 2, name |-> "home", mode |-> "standard"]
work == [id |-> 1, name |-> "work", mode |-> "strict"]
MCProfile == {home, work, [id |-> 3, name |-> "", mode |-> "strict"]}
MCRegistryEdit ==
  {[version |-> 1, profiles |-> <<home>>], [version |-> 2, profiles |-> <<home>>],
   [version |-> 1, profiles |-> <<home, [work EXCEPT !.id = 2]>>],
   [version |-> 1, profiles |-> <<[home EXCEPT !.name = "too long"]>>]}

\* Names at the limits of encode_name (a label has at most 3 bytes, a name 8).
MCQuery ==
  LET Label(n) == [length |-> n, clean |-> TRUE]
  IN  {<<Label(3), Label(3)>>, <<>>, <<Label(0)>>, <<Label(4)>>, <<Label(3), Label(4)>>,
       <<Label(3), Label(3), Label(1)>>, <<[length |-> 1, clean |-> FALSE]>>}

\* Addresses at both ends of every block, and next to them.
Public4 == {<<9, 255, 255, 255>>, <<11, 0, 0, 0>>, <<100, 63, 255, 255>>, <<100, 128, 0, 0>>,
            <<126, 255, 255, 255>>, <<169, 255, 0, 0>>, <<172, 15, 255, 255>>,
            <<172, 32, 0, 0>>, <<192, 0, 3, 0>>, <<192, 169, 0, 0>>, <<203, 0, 112, 255>>,
            <<223, 255, 255, 255>>, <<240, 0, 0, 0>>}
Public6 == {<<0, 0, 0, 0, 0, 0, 0, 2>>, <<8193, 3513, 0, 0, 0, 0, 0, 0>>,
            <<64511, 0, 0, 0, 0, 0, 0, 0>>, <<65216, 0, 0, 0, 0, 0, 0, 0>>}
BlockEnds == {block[1] : block \in NonPublicBlocks} \cup {block[2] : block \in NonPublicBlocks}

Record(address) ==
  [type |-> IF IsV4(address) THEN "A" ELSE "Aaaa", address |-> address, ttl |-> 1,
   intact |-> TRUE]
Message(answers) ==
  [transport |-> "ok", size |-> "fits", questions |-> 1, rcode |-> 0, answers |-> answers]

MCResponse ==
  LET plain == Message(<<Record(<<11, 0, 0, 0>>)>>)
      other == [Record(<<10, 0, 0, 0>>) EXCEPT !.type = "CNAME"]
      home4 == Record(<<192, 168, 0, 0>>)
      world6 == Record(<<8193, 3513, 0, 0, 0, 0, 0, 0>>)
  IN  {Message(<<Record(a)>>) : a \in Public4 \cup Public6 \cup BlockEnds}
        \cup {[plain EXCEPT !.transport = t] : t \in {"timed out", "status"}}
        \cup {[plain EXCEPT !.rcode = r] : r \in 1..4}
        \cup {[plain EXCEPT !.size = "short"], [plain EXCEPT !.questions = 0],
              [plain EXCEPT !.answers[1].intact = FALSE],
              Message(<<>>), Message(<<other>>), Message(<<other, world6>>),
              Message(<<world6, home4>>), Message(<<Record(<<11, 0, 0, 0>>), home4>>),
              Message(<<Record(<<11, 0, 0, 0>>), world6>>)}

MCCandidate ==
  {[type |-> t, address |-> a] :
     t \in CandidateType, a \in {<<10, 0, 0, 0>>, <<11, 0, 0, 0>>, <<255, 255, 255, 255>>}}

MCSystemAnswer == {<<192, 168, 0, 1>>}

\* The saves of either file, the connections under any configuration, and WebRTC are
\* explored apart: their states do not multiply.
Untouched(f) == saves[f] = 0 /\ (f = "registry" => profiles \in {None, {}})
FilesAtRest == \A f \in File : saving[f] = None /\ tmp[f] = Missing
OneFile == \E f \in File : Untouched(f)

\* Either choice of trust anchors makes the same client (OneClient below): only one of the
\* two brokers goes on to connect.
Connects == broker # NoBroker /\ broker.validator.anchors = "System" => conn' = NoConn

MCNext ==
  \/ RtcInit /\ conn = NoConn /\ SettingsStep
  \/ FilesAtRest /\ Untouched("registry") /\ saves["config"] <= 1
       /\ RtcInit /\ ConnectionStep /\ Connects
  \/ config = None /\ (\A f \in File : Untouched(f)) /\ RtcStep

MCSpec == Init /\ [][MCNext]_vars

Symmetry == Permutations(MdnsName) \cup Permutations(RtcPartition)

-----------------------------------------------------------------------------
AsRead(content) == LoadConfig([content |-> content, mode |-> OwnerOnly])

\* A file that says nothing gives the default configuration, with every protection that has
\* a switch on and everything that sends data elsewhere off (schema.rs, loader.rs).
ASSUME DefaultsProtect ==
  /\ AsRead(MinimalFile) = DefaultConfig
  /\ DefaultConfig.https_only.enabled /\ DefaultConfig.url_param_strip.enabled
  /\ DefaultConfig.storage.strict_wipe_on_close
  /\ ~DefaultConfig.sync.enabled /\ ~DefaultConfig.telemetry.enabled
  /\ ~DefaultConfig.logging.disk_logging_enabled

\* What is written is what is read, for every configuration that may be saved.
ASSUME RoundTrip ==
  \A c \in MCConfigValue : AsRead(AsConfigFile(c)) = IF Validate(c) THEN c ELSE None

\* Errors of the DoH client are errors of the broker that survive being cloned (error.rs),
\* and nothing of the configuration shows in what a server sees of the client (chain.rs).
ASSUME ErrorsAreKnown ==
  \A labels \in Query, qtype \in QueryType, response \in Response :
    LET result == DohResult(labels, qtype, response)
    IN  result.kind = "Error" => result.error \in ResolveError
ASSUME OneClient ==
  \A v \in {ChainValidator(anchors) : anchors \in TrustAnchorChoice} :
    \A mode \in {"Standard", "Strict"} :
      BuildClientConfig(WithStandardDisabled(WithVerifiers(v)), mode)
        = BuildClientConfig(ChainValidator("WebpkiRoots"), "Standard")
=============================================================================
