---------------------------- MODULE IpcMessages ----------------------------
(***************************************************************************)
(* Messages between processes: the frames of pb-ipc (transport.rs), and    *)
(* the one message the repository converts, the warning of pb-identity     *)
(* (warnings.rs), with the tally of warnings the user interface shows.     *)
(* Nothing in the repository sends either yet, so these are operators.     *)
(***************************************************************************)
EXTENDS HashMap, Naturals, Sequences, TLC

(* Frames.  A stream is the sequence of its bytes in 0..255; it is closed  *)
(* or more may come.                                                       *)

CONSTANT MAX_MESSAGE_BYTES

ASSUME MaxMessageAssumption == MAX_MESSAGE_BYTES \in 0..2^24 - 1

\* u32::to_be_bytes and back; the first byte of a length is the highest.
BeBytes(n) == <<n \div 2^24, (n \div 2^16) % 256, (n \div 256) % 256, n % 256>>
FromBeBytes(b) == ((b[1] * 256 + b[2]) * 256 + b[3]) * 256 + b[4]

\* What is written, nothing of a payload that is too large.
WriteFrame(payload) ==
  IF Len(payload) > MAX_MESSAGE_BYTES THEN [error |-> "MessageTooLarge", bytes |-> <<>>]
  ELSE [error |-> "None", bytes |-> BeBytes(Len(payload)) \o payload]

\* What recv makes of a stream, and what is left of it.  An end of the stream inside the
\* length is taken for one before it.
ReadFrame(stream, closed) ==
  IF Len(stream) < 4
  THEN [result |-> IF closed THEN "ConnectionClosed" ELSE "Pending", payload |-> <<>>,
        rest |-> <<>>]
  ELSE LET len == FromBeBytes(SubSeq(stream, 1, 4))
           rest == SubSeq(stream, 5, Len(stream))
       IN  IF len > MAX_MESSAGE_BYTES
           THEN [result |-> "MessageTooLarge", payload |-> <<>>, rest |-> rest]
           ELSE IF Len(rest) < len
           THEN [result |-> IF closed THEN "Io" ELSE "Pending", payload |-> <<>>, rest |-> <<>>]
           ELSE [result |-> "Message", payload |-> SubSeq(rest, 1, len),
                 rest |-> SubSeq(rest, len + 1, Len(rest))]

\* What a reader gets from a closed stream, recv after recv up to the first error.
ReadAll[stream \in Seq(0..255)] ==
  LET r == ReadFrame(stream, TRUE)
  IN  IF r.result # "Message" THEN [messages |-> <<>>, last |-> r.result]
      ELSE LET after == ReadAll[r.rest]
           IN  [messages |-> <<r.payload>> \o after.messages, last |-> after.last]

-----------------------------------------------------------------------------
(* Warnings: their form on the wire, and the tally of them.                *)

CodeText ==
  ("StrictDevToolsBlocked" :> "strict_devtools_blocked") @@
  ("StrictExtensionBlocked" :> "strict_extension_blocked") @@
  ("StrictTranslationBlocked" :> "strict_translation_blocked") @@
  ("MixedModeShareAttempt" :> "mixed_mode_share_attempt")
WarningCode == DOMAIN CodeText

\* The text of a profile id names the profile, or (<<>>) is not a UUID.
AsMessage(w) == [profile_id |-> <<w.profile_id>>, code |-> CodeText[w.code]]

\* The id is looked at first.
FromMessage(m) ==
  LET codes == {c \in WarningCode : CodeText[c] = m.code}
  IN  IF m.profile_id = <<>> THEN [error |-> "InvalidProfileId"]
      ELSE IF codes = {} THEN [error |-> "UnknownCode"]
      ELSE [profile_id |-> m.profile_id[1], code |-> CHOOSE c \in codes : TRUE]

\* A tally maps the profiles it knows to their counts by code.
PerCode(tally, p) == IF p \in DOMAIN tally THEN tally[p] ELSE EmptyMap
CountFor(tally, p, c) == IF c \in DOMAIN PerCode(tally, p) THEN PerCode(tally, p)[c] ELSE 0
TotalFor(tally, p) == FoldFunction(+, 0, PerCode(tally, p))
NoneCounted(tally) == \A p \in DOMAIN tally : tally[p] = EmptyMap

Record(tally, p, c) ==
  Put(tally, p, Put(PerCode(tally, p), c, CountFor(tally, p, c) + 1))
Reset(tally, p) == Without(tally, p)
=============================================================================
