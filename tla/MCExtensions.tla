---------------------------- MODULE MCExtensions ----------------------------
(* Values for model checking the extension controller.                     *)
EXTENDS ExtensionController

CONSTANTS a, b, good, tampered, publisher, root

V1 == <<1, 0, 9>>
V2 == <<1, 1, 0>>
MCVersion == {V1, V2}

\* ">=1", which is 1.0.0, and "=1.1".
AtLeastOne == [prefix |-> ">=", parts |-> <<1>>]
ExactlyTwo == [prefix |-> "=", parts |-> <<1, 1>>]

MCEntry(id, constraint) ==
  [id |-> id, constraint |-> constraint, sha256 |-> good, key |-> publisher]

Entries ==
  { << >>, <<MCEntry(a, AtLeastOne)>>, <<MCEntry(a, ExactlyTwo), MCEntry(b, AtLeastOne)>>,
    <<MCEntry(a, AtLeastOne), MCEntry(a, ExactlyTwo)>> }

MCFile(json, format, v, entries, keys) ==
  [json |-> json, format |-> format, version |-> v, entries |-> entries, signedBy |-> keys]

\* Every content as version 1 or 2, signed by the root; and one file of each kind that
\* is refused.
MCManifestFile ==
  {MCFile(TRUE, 1, v, e, {root}) : v \in 1 .. 2, e \in Entries}
  \cup {MCFile(FALSE, 1, 2, << >>, {root}), MCFile(TRUE, 2, 2, << >>, {root}),
        MCFile(TRUE, 1, 2, << >>, {publisher})}
  \cup {MCFile(TRUE, 1, 2, <<e>>, {root}) : e \in
          {MCEntry(a, [prefix |-> "~", parts |-> <<1>>]),
           MCEntry(a, [prefix |-> "=", parts |-> <<1, -1>>]),
           MCEntry(a, [prefix |-> "=", parts |-> <<1, 0, 0, 0>>]),
           [MCEntry(a, AtLeastOne) EXCEPT !.sha256 = Garbled],
           [MCEntry(a, AtLeastOne) EXCEPT !.key = Garbled]}}

MCSeed == ManifestOf(MCFile(TRUE, 1, 0, <<MCEntry(a, AtLeastOne), MCEntry(b, AtLeastOne)>>, {}))

MCCand(id, v, x, keys) == [id |-> id, version |-> v, xpi |-> x, signedBy |-> keys]

MCCandidateFile ==
  { MCCand(a, V1, good, {publisher}), MCCand(b, V1, good, {publisher}), MCCand(a, V2, tampered, {publisher}),
    MCCand(b, V1, good, {}) }

-----------------------------------------------------------------------------
Byte == {0, 1, 62, 63, 128, 255}
ShortBytes == {<< >>} \cup [1 .. 1 -> Byte] \cup [1 .. 2 -> Byte] \cup [1 .. 3 -> Byte]
                \cup [1 .. 4 -> {0, 63, 255}]

\* The codec of the keys: every run of bytes is read back as it was written, from letters of
\* the alphabet (allowlist.rs, b64_encode and b64_decode).
ASSUME KeysSurviveBase64 ==
  \A bytes \in ShortBytes :
    /\ B64Decode(B64Encode(bytes)) = bytes
    /\ B64Readable(B64Encode(bytes))
    /\ \A i \in DOMAIN B64Encode(bytes) : B64Encode(bytes)[i] < 64

\* The derived order of versions is the order of the numbers they spell.
ASSUME VersionsAreOrdered ==
  \A v, w \in [1 .. 3 -> 0 .. 2] :
    Below(v, w) <=> 9 * v[1] + 3 * v[2] + v[3] < 9 * w[1] + 3 * w[2] + w[3]

\* Strict darks every surface, both namespaces of each, every name by one mechanism; in
\* Standard the allowlist alone decides (blocker.rs).
ASSUME StrictDarksBothNamespaces ==
  /\ \A s \in SurfacesBlockedForMode("Strict") :
       /\ \A name \in JsSurfaces[s] : name[1] # "manifest" =>
            {<<"browser", name[2]>>, <<"chrome", name[2]>>} \subseteq JsSurfaces[s]
       /\ \A t \in SurfacesBlockedForMode("Strict") :
            JsSurfaces[s] \cap JsSurfaces[t] # {} => MechanismOf(s) = MechanismOf(t)
  /\ {MechanismOf(s) : s \in SurfacesBlockedForMode("Strict")} = BlockMechanism
  /\ \A mode \in {"Standard", "Strict"} :
       (BlockForMode(mode) = "AllBlocked") <=> SurfacesBlockedForMode(mode) = ExtensionApiSurface
=============================================================================
