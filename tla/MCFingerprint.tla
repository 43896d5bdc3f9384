---------------------------- MODULE MCFingerprint ----------------------------
(* Values for model checking the fingerprint surfaces.                     *)
EXTENDS FingerprintSession, FiniteSets

Laptop == [vendor |-> "Intel", scale |-> 10, locale |-> "en", timezone |-> "Oslo",
           touch |-> FALSE, subpixel |-> -3, setting |-> "default",
           scripts |-> {"LatinBase", "Greek"}]
Desktop == [vendor |-> "Matrox", scale |-> 25, locale |-> "ja", timezone |-> "Tokyo",
            touch |-> FALSE, subpixel |-> 5, setting |-> "changed",
            scripts |-> {"LatinBase", "Cjk", "Hebrew"}]
Phone == [Laptop EXCEPT !.vendor = "Apple", !.scale = 30, !.touch = TRUE]

\* Two buckets of the Strict quantum, four of the Standard one.
MCJsQuantum == [m \in Mode |-> IF m = "Standard" THEN 2 ELSE 4]
MCSeed == [m \in Mode |-> [b \in 0 .. MaxTime |->
             IF m = "Standard" THEN (b + 1) % 2 ELSE (3 * b + 2) % 4]]
MCOtherSeed == [m \in Mode |-> [b \in 0 .. MaxTime |-> JsQuantum[m] - 1 - MCSeed[m][b]]]
MCJitterSeed == {MCSeed, MCOtherSeed}

\* One seed per partition; a few partitions have none.
MCJitterSeedOf(pk) ==
  IF pk \in {Derive(site, "cat", ctx) : site \in Site, ctx \in Context} THEN NoJitter
  ELSE IF pk \in {Derive("news", u, ctx) : u \in User, ctx \in Context} THEN MCSeed
  ELSE MCOtherSeed

NoGrants == {}
NoDecisions == [name \in {} |-> "prompt"]
Decisions == [name \in {"camera", "push", "unknown"} |-> IF name = "push" THEN "denied" ELSE "granted"]

Person(mode, device, rotates, timezone, grants, permissions) ==
  [mode |-> mode, device |-> device, rotates |-> rotates, timezone |-> timezone,
   grants |-> grants, permissions |-> permissions]

MCUserInfo ==
  [u \in {"ann", "bob", "cat", "dan", "eve"} |->
     CASE u = "ann" -> Person("Strict", Laptop, FALSE, NoTimezone, NoGrants, NoDecisions)
       [] u = "bob" -> Person("Strict", Desktop, FALSE, "Berlin", {"news"}, Decisions)
       [] u = "cat" -> Person("Standard", Desktop, FALSE, "Sydney", {"shop"}, Decisions)
       [] u = "dan" -> Person("Standard", Laptop, TRUE, "Atlantis", NoGrants, NoDecisions)
       [] u = "eve" -> Person("Strict", Phone, TRUE, NoTimezone, NoGrants, NoDecisions)]

MCWebGpuBucket == [x \in {"Intel", "Matrox", "Apple"} |-> IF x = "Matrox" THEN "Other" ELSE x]

-----------------------------------------------------------------------------
Byte == 0 .. 255

\* The noise stays within its amplitude, and of 256 bytes no offset gets more than one more
\* than any other (farbling.rs, farble_canvas_byte).
ASSUME NoiseIsBounded ==
  /\ \A amplitude \in 0 .. 127, b \in Byte : FarbleByte(b, amplitude) \in -amplitude .. amplitude
  /\ \A amplitude \in {1, 5, 120, HalfI32 - 1}, b \in Byte :
       FarbleWebGlInt(b, amplitude) \in -amplitude .. amplitude
  /\ \A b \in Byte : FarbleAudioSample(b, TRUE) \in -255 .. 255

ASSUME NoiseIsUniform ==
  LET Getting(x) == {b \in Byte : FarbleByte(b, FarblingProfile.canvas_lsb_amplitude) = x}
  IN  \A x, y \in {-1, 0, 1} : Cardinality(Getting(x)) <= Cardinality(Getting(y)) + 1

\* In Strict the permission of an API that is not there is denied, whatever the user decided
\* in Standard (permissions_query.rs, l44_disabled).
ASSUME AbsentIsDenied ==
  /\ DOMAIN L44Disabled \subseteq DisabledApi
  /\ \A api \in DOMAIN L44Disabled, name \in PermissionName :
       name \in L44Disabled[api]
         => \A u \in User : UserInfo[u].mode = "Strict" =>
              PermissionQuery([mode |-> "Strict", permissions |-> UserInfo[u].permissions], name)
                = "denied"
  /\ Cardinality(DisabledApi) = 16 /\ Cardinality(PermissionName) = 29

GpuSide == INSTANCE GpuCoordinator WITH Profile <- {}, MaxEpoch <- 1, epoch <- 1,
                                        available <- TRUE

\* The GPU process enforces what the page is told: the two crates spell out the profile each
\* on its own (webgpu.rs, and coordinator.rs of pb-gpu).
ASSUME AdvertisedIsEnforced ==
  \A field \in DOMAIN GpuSide!AdapterDescriptor :
    LockedWebGpuProfile[field] = GpuSide!AdapterDescriptor[field]
=============================================================================
