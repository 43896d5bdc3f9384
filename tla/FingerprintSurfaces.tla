------------------------- MODULE FingerprintSurfaces -------------------------
(***************************************************************************)
(* What a page can read of the machine through each Web IDL surface        *)
(* (pb-fingerprint/gecko and /strict): one operator per override, giving   *)
(* the answer its policy yields.  An answer is a cohort value (the same    *)
(* for everyone), a property of the device, or absent; some carry noise.   *)
(* The tables behind a cohort value are one value each.                    *)
(***************************************************************************)
EXTENDS Integers, PartitionKeys

(* The clocks a page can read (gecko/timers.rs, pb-gpu/timing.rs):         *)
(* quantised to the quantum of the mode, with an offset per bucket when a  *)
(* jitter seed is given.  Times are in units of the Standard quantum.      *)

CONSTANTS
  JsQuantum,      \* mode -> js_quantum_ns
  GpuQuantum,     \* GPU_QUANTUM_NS, the same in both modes
  MaxTime,        \* bound: the largest reading of the host's clock
  JitterSeed,     \* seeds, each the function SplitMix64 makes of it: the offset per bucket
  NoJitter,       \* seed 0
  JitterSeedOf(_) \* PartitionKey::jitter_seed: the seed the embedder passes for a partition

Mode == {"Standard", "Strict"}

ASSUME QuantumAssumption == JsQuantum \in [Mode -> Nat \ {0}] /\ GpuQuantum \in Nat \ {0}
ASSUME TimeAssumption == MaxTime \in Nat
ASSUME JitterAssumption ==
  \A s \in JitterSeed, m \in Mode, b \in 0 .. MaxTime : s[m][b] \in 0 .. JsQuantum[m] - 1

Bucket(mode, now) == now \div JsQuantum[mode]

\* quantize_js_ns, quantize_js_ms.
QuantizeJs(mode, now) == Bucket(mode, now) * JsQuantum[mode]

\* The ways to read the JavaScript clock, all behind one override.
TimerSurface ==
  {"DateNow", "PerformanceNow", "PerformanceTimeOrigin", "PerformanceTiming",
   "PerformanceObserverEntry", "RequestAnimationFrameTimestamp", "EventTimeStamp",
   "IdleDeadlineTimeRemaining"}

\* The callbacks that fire on quantum boundaries: their arrival is a clock as well, but one
\* that takes the plain quantiser whatever the jitter.
AsyncEventClass ==
  {"SetTimeoutSetInterval", "RequestAnimationFrameCallback", "MessageChannelPostMessage",
   "PromiseMicrotask", "RequestIdleCallback", "BroadcastChannelOnMessage"}

QuantizeGpu(now) == (now \div GpuQuantum) * GpuQuantum

QuantizeJsJitteringCalls(mode, now, seed) ==
  QuantizeJs(mode, now) + IF seed = NoJitter THEN 0 ELSE seed[mode][now]

\* quantize_js_ns_with_jitter.
QuantizeJsWithJitter(mode, now, seed) ==
  QuantizeJs(mode, now) + IF seed = NoJitter THEN 0 ELSE seed[mode][Bucket(mode, now)]

\* TimerOverride: a reading through any of the surfaces.
ReadClock(surface, mode, now, seed) ==
  IF surface \in TimerSurface THEN QuantizeJsWithJitter(mode, now, seed)
  ELSE QuantizeJs(mode, now)

-----------------------------------------------------------------------------
(* Noise for read-backs (farbling.rs, gecko/dom_rect.rs): a keyed stream   *)
(* of bytes and the small offsets made from them.  SHA-256 is injective    *)
(* here, so a stream is the tuple of what is hashed.                       *)

FarblingSurface == {"Canvas", "WebGlNumeric", "Audio", "DomRect", "TextMetrics"}

\* stream_byte and FarblingStreamKey; stream_byte_v2 and FarblingStreamKeyV2 with the epoch
\* of a start.
Stream(seed, surface, index) == <<"PB-FARBLE-V1", seed, surface, index>>
StreamV2(epoch, seed, surface, index) == <<"PB-FARBLE-V2", epoch, seed, surface, index>>

\* `as i8`.
AsI8(x) == ((x + 128) % 256) - 128

\* The offset made from byte b: farble_canvas_byte, and the dom-rect and text-metric offsets.
FarbleByte(b, amplitude) ==
  IF amplitude = 0 THEN 0 ELSE AsI8((b % (2 * amplitude + 1)) - amplitude)

HalfI32 == 1073741823

\* farble_webgl_int: an amplitude that could overflow is no amplitude.
FarbleWebGlInt(b, amplitude) ==
  IF amplitude <= 0 \/ amplitude >= HalfI32 THEN 0
  ELSE (b % (2 * amplitude + 1)) - amplitude

\* STANDARD_FARBLING_PROFILE.
FarblingProfile == [canvas_lsb_amplitude |-> 1, webgl_numeric_amplitude |-> 1]

\* farble_audio_sample, in units of eps/255; eps is "usable" when it is finite and positive.
FarbleAudioSample(b, usable) == IF usable THEN 2 * b - 255 ELSE 0

-----------------------------------------------------------------------------
CONSTANTS
  NoEpoch,         \* NO_FARBLING_EPOCH: the user does not rotate the noise
  NoTimezone,      \* no timezone chosen
  WebGpuBucket     \* device vendor -> one of STANDARD_BUCKETS

Cohort(profile) == <<"cohort", profile>>
FromDevice(value) == <<"device", value>>
Absent == <<"undefined">>

\* What an answer may depend on: [mode, device, seed, epoch, index, timezone, grants,
\* permissions, now, jitter, window].  device is [vendor, scale, locale, timezone, touch,
\* subpixel, scripts, setting]; grants tells whether the site may list all fonts.

\* The plain stream, or the one of this start for a user who rotates.
Noise(v, surface) ==
  IF v.epoch = NoEpoch THEN Stream(v.seed, surface, v.index)
                       ELSE StreamV2(v.epoch, v.seed, surface, v.index)

Normalized(v, profile, surface) ==
  IF v.mode = "Standard" THEN <<Cohort(profile), Noise(v, surface)>> ELSE Cohort(profile)

-----------------------------------------------------------------------------
(* The locked tables, one value each.                                      *)

LockedCanvasProfile == "canvas profile"
LockedWebGlProfile == "webgl profile"
LockedAudioProfile == "audio profile"
LockedWebGpuLimits ==
  [max_texture_dimension_1d |-> 8192, max_texture_dimension_2d |-> 8192,
   max_texture_dimension_3d |-> 2048, max_texture_array_layers |-> 256,
   max_bind_groups |-> 4, max_buffer_size |-> 268435456,
   max_compute_workgroup_size_x |-> 256, max_compute_workgroup_size_y |-> 256,
   max_compute_workgroup_size_z |-> 64, max_compute_invocations_per_workgroup |-> 256]
LockedWebGpuProfile ==
  [vendor |-> "Mozilla", architecture |-> "", driver |-> "", description |-> "",
   features |-> {}, limits |-> LockedWebGpuLimits]
BundledFontSet == "bundled fonts"
StandardBucketedTable == "script buckets"
NavigatorProfile(mode) == <<"navigator profile", mode>>
LockedMediaCapabilities == "codec table"
UsQwertyLayout == "us-qwerty"
StorageEstimateProfile(mode) == <<"quota", mode>>
LockedNetworkInformation == "4g"
LockedVoiceSet == "voices"
StrictDisplayProfile == "display at 1.0"
LockedInvariant == "locked setting"

-----------------------------------------------------------------------------
(* Rendering.                                                              *)

Canvas(v) == Normalized(v, LockedCanvasProfile, "Canvas")
\* ReadPixels goes through the canvas profile; the parameters have noise of their own; the
\* blocked extensions are absent in both modes.
WebGlReadPixels(v) == Canvas(v)
WebGlParameters(v) == Normalized(v, LockedWebGlProfile, "WebGlNumeric")
WebGlBlockedExtensions(v) == Absent
Audio(v) == Normalized(v, LockedAudioProfile, "Audio")

WebGpu(v) ==
  IF v.mode = "Strict" THEN Cohort(LockedWebGpuProfile)
  ELSE <<Cohort(LockedWebGpuProfile), FromDevice(WebGpuBucket[v.device.vendor])>>

\* Coordinates in tenths of a pixel; the device's rasteriser puts a box a little off.  f64::round
\* takes a half away from zero.
RoundTenths(t) == IF t >= 0 THEN (t + 5) \div 10 ELSE -((5 - t) \div 10)
SnapDomRect(v, surface) ==
  LET snapped == RoundTenths(10 * v.index + v.device.subpixel)
  IN  IF v.mode = "Strict" THEN <<snapped>>
      ELSE <<snapped, Stream(v.seed, surface, v.index)>>
DomRect(v) == SnapDomRect(v, "DomRect")
TextMetrics(v) == SnapDomRect(v, "TextMetrics")

FontsSurface ==
  {"DocumentFontsIterator", "DocumentFontsCheck", "CssFontFamilyEnumeration", "FontFaceLoad",
   "FontLoadCallback"}

FontBucket ==
  {"LatinBase", "LatinExtended", "Cjk", "Arabic", "Devanagari", "Cyrillic", "Greek",
   "SymbolsEmoji", "Math"}

\* FontsGrants: asked in Standard only.  Nobody is granted anything by DenyAllFontsGrants.
AllowsFullEnumeration(v) == v.mode = "Standard" /\ v.grants

\* The allowlist of bundled fonts, or the scripts the machine covers.
Fonts(v) ==
  IF v.mode = "Strict" THEN Cohort(BundledFontSet)
  ELSE IF AllowsFullEnumeration(v) THEN FromDevice(v.device.scripts)
  ELSE <<Cohort(StandardBucketedTable), FontBucket \cap v.device.scripts>>

-----------------------------------------------------------------------------
(* The machine and its settings.                                           *)

Battery(v) == Absent
Navigator(v) == Cohort(NavigatorProfile(v.mode))
MediaCapabilities(v) == Cohort(LockedMediaCapabilities)
Intl(v) == Cohort("intl")
KeyboardLayoutMap(v) == Cohort(UsQwertyLayout)
StorageEstimate(v) == Cohort(StorageEstimateProfile(v.mode))
NetworkInformation(v) ==
  IF v.mode = "Strict" THEN Absent ELSE Cohort(LockedNetworkInformation)
SpeechSynthesis(v) ==
  IF v.mode = "Strict" THEN Cohort(LockedVoiceSet) ELSE FromDevice(v.device.locale)

Zone(offset_minutes, dst_observed) ==
  [offset_minutes |-> offset_minutes, dst_observed |-> dst_observed]

\* COMMON_TIMEZONES, the list a Standard user may choose from, with the zone of Strict in it.
TimezoneProfile ==
  [UTC |-> Zone(0, FALSE),
   Los_Angeles |-> Zone(-480, TRUE), Chicago |-> Zone(-360, TRUE), New_York |-> Zone(-300, TRUE),
   London |-> Zone(0, TRUE), Berlin |-> Zone(60, TRUE), Kolkata |-> Zone(330, FALSE),
   Singapore |-> Zone(480, FALSE), Tokyo |-> Zone(540, FALSE), Sydney |-> Zone(600, TRUE)]

NativePassThrough == "native"

\* for_mode_with_user_selection: Strict is UTC whatever was chosen, and what is not on the
\* list is no choice.
TimezonePolicy(mode, chosen) ==
  IF mode = "Strict" THEN "UTC"
  ELSE IF chosen \in DOMAIN TimezoneProfile THEN chosen
  ELSE NativePassThrough

TimezoneSurface ==
  {"IntlDateTimeFormatResolvedTimeZone", "DateGetTimezoneOffset", "DateToString",
   "DateToLocaleString", "IntlLocaleDefaults"}

\* getTimezoneOffset negates; the resolver adds the summer hour of a zone that has one.
Timezone(surface, v) ==
  LET name == TimezonePolicy(v.mode, v.timezone)
      zone == TimezoneProfile[name]
  IN  IF name = NativePassThrough THEN FromDevice(v.device.timezone)
      ELSE IF surface = "DateGetTimezoneOffset" THEN <<-zone.offset_minutes, zone.dst_observed>>
      ELSE Cohort(name)

\* Scale factors in tenths.  A tie goes to the larger bucket, nonsense to the first.
DprBucket == {10, 15, 20, 30}
Distance(a, b) == IF a >= b THEN a - b ELSE b - a
ClosestDprBucket(scale) ==
  IF scale <= 0 THEN 10
  ELSE CHOOSE b \in DprBucket : \A c \in DprBucket :
         \/ Distance(scale, b) < Distance(scale, c)
         \/ Distance(scale, b) = Distance(scale, c) /\ b >= c

DisplayAlwaysBucketed(v) == <<Cohort("display"), ClosestDprBucket(v.device.scale)>>
Display(v) ==
  IF v.mode = "Strict" THEN Cohort(StrictDisplayProfile)
  ELSE <<Cohort("display"), ClosestDprBucket(v.device.scale)>>

TouchPathway ==
  {"NavigatorMaxTouchPoints", "WindowOnTouchStart", "ElementOnTouchStart", "PointerMediaQuery",
   "HoverMediaQuery"}

\* DESKTOP_TOUCH_PROFILE.
DesktopTouchProfile(pathway) ==
  CASE pathway = "NavigatorMaxTouchPoints" -> Cohort(0)
    [] pathway \in {"WindowOnTouchStart", "ElementOnTouchStart"} -> Absent
    [] pathway = "PointerMediaQuery" -> Cohort("fine")
    [] pathway = "HoverMediaQuery" -> Cohort("hover")

\* By platform, in both modes.
TouchSurface(pathway, v) ==
  IF v.device.touch THEN FromDevice("touch") ELSE DesktopTouchProfile(pathway)

-----------------------------------------------------------------------------
(* The APIs that are off in Strict, and the permissions.                   *)

NavigatorPropertyDeleted ==
  {"Geolocation", "MediaDevices", "WebBluetooth", "WebUsb", "WebHid", "WebSerial", "Beacon",
   "WakeLock"}
ConstructorThrows ==
  {"WebNfc", "SensorApis", "IdleDetector", "PresentationRequest", "PaymentRequest"}
SpecialCase == {"Gamepad", "Notification", "SharedMemoryAndAtomics"}

DisabledApi == NavigatorPropertyDeleted \cup ConstructorThrows \cup SpecialCase

\* js_surfaces: the names a page reaches the API by.
JsSurfaces ==
  [Geolocation |-> {"navigator.geolocation"}, MediaDevices |-> {"navigator.mediaDevices"},
   WebBluetooth |-> {"navigator.bluetooth"}, WebUsb |-> {"navigator.usb"},
   WebHid |-> {"navigator.hid"}, WebSerial |-> {"navigator.serial"},
   WebNfc |-> {"NDEFReader"},
   SensorApis |-> {"Accelerometer", "Gyroscope", "Magnetometer", "AmbientLightSensor",
                   "LinearAccelerationSensor", "OrientationSensor", "GravitySensor",
                   "RelativeOrientationSensor", "AbsoluteOrientationSensor"},
   Gamepad |-> {"navigator.getGamepads"}, Beacon |-> {"navigator.sendBeacon"},
   Notification |-> {"Notification"}, WakeLock |-> {"navigator.wakeLock"},
   IdleDetector |-> {"IdleDetector"}, PresentationRequest |-> {"PresentationRequest"},
   PaymentRequest |-> {"PaymentRequest"},
   SharedMemoryAndAtomics |-> {"SharedArrayBuffer", "Atomics.wait", "Atomics.notify"}]
JsSurface == UNION {JsSurfaces[api] : api \in DisabledApi}

\* disabled_for_mode: every API of the list, or none.
DisabledForMode(mode) == IF mode = "Strict" THEN DisabledApi ELSE {}

\* What a page finds that looks for the API under one of its names.
ApiAnswer(name, v) ==
  LET api == CHOOSE a \in DisabledApi : name \in JsSurfaces[a]
  IN  IF api \notin DisabledForMode(v.mode) THEN FromDevice("native")
      ELSE CASE api \in NavigatorPropertyDeleted -> Absent
             [] api \in ConstructorThrows -> <<"throws">>
             [] api = "Gamepad" -> <<"no gamepads">>
             [] api = "Notification" -> <<"throws", "denied">>
             [] api = "SharedMemoryAndAtomics" -> <<"throws">>

\* L44Disabled[api]: the permissions whose API is on the list.
L44Disabled ==
  [Geolocation |-> {"geolocation"}, Notification |-> {"notifications"},
   MediaDevices |-> {"camera", "microphone", "display-capture", "captured-surface-control"},
   SensorApis |-> {"accelerometer", "gyroscope", "magnetometer", "ambient-light-sensor"},
   WakeLock |-> {"screen-wake-lock", "system-wake-lock"},
   IdleDetector |-> {"idle-detection"}, PaymentRequest |-> {"payment-handler"}]

PermissionName ==
  (UNION {L44Disabled[api] : api \in DOMAIN L44Disabled}) \cup
  {"push", "midi", "persistent-storage", "storage-access", "top-level-storage-access",
   "window-management", "background-fetch", "background-sync", "periodic-background-sync",
   "clipboard-read", "clipboard-write", "speaker-selection", "local-fonts",
   "accessibility-events", "unknown"}

\* PermissionStore: what the user decided, "prompt" where nothing was.
StoredPermission(v, name) ==
  IF name \in DOMAIN v.permissions THEN v.permissions[name] ELSE "prompt"

PermissionQuery(v, name) ==
  IF v.mode = "Strict" THEN IF name = "unknown" THEN "prompt" ELSE "denied"
  ELSE StoredPermission(v, name)

-----------------------------------------------------------------------------
(* Settings and the size of the window.                                    *)

\* settings_lock::for_mode, the gate in front of every setting a user may change.
SettingForMode(mode, setting, locked) == IF mode = "Strict" THEN locked ELSE setting
LockedSetting(v) ==
  SettingForMode(v.mode, FromDevice(v.device.setting), Cohort(LockedInvariant))

WidthStep == 200
\* Letterbox::quantize, and a window of less than one step reports one.
QuantizeWidth(w) ==
  LET q == (w \div WidthStep) * WidthStep IN IF q = 0 THEN WidthStep ELSE q
WindowWidth(v) == IF v.mode = "Strict" THEN QuantizeWidth(v.window) ELSE v.window

-----------------------------------------------------------------------------
(* The entry points of a page, and the one answer each gives.              *)

Farbled == {"Canvas", "WebGlReadPixels", "WebGl", "Audio", "DomRect", "TextMetrics"}
Clock == TimerSurface \cup AsyncEventClass \cup {"GpuTime"}
WebIdlSurface ==
  Farbled \cup Clock \cup FontsSurface \cup TimezoneSurface \cup TouchPathway
  \cup JsSurface \cup PermissionName \cup
  {"WebGlBlocked", "WebGpu", "Battery", "Navigator", "MediaCapabilities", "Intl",
   "KeyboardLayoutMap", "StorageEstimate", "NetworkInformation", "SpeechSynthesis",
   "Display", "LockedSetting", "WindowWidth"}

Answer(entry, v) ==
  CASE entry = "Canvas" -> Canvas(v)
    [] entry = "WebGlReadPixels" -> WebGlReadPixels(v)
    [] entry = "WebGl" -> WebGlParameters(v)
    [] entry = "WebGlBlocked" -> WebGlBlockedExtensions(v)
    [] entry = "Audio" -> Audio(v)
    [] entry = "WebGpu" -> WebGpu(v)
    [] entry = "DomRect" -> DomRect(v)
    [] entry = "TextMetrics" -> TextMetrics(v)
    [] entry \in FontsSurface -> Fonts(v)
    [] entry = "Battery" -> Battery(v)
    [] entry = "Navigator" -> Navigator(v)
    [] entry = "MediaCapabilities" -> MediaCapabilities(v)
    [] entry = "Intl" -> Intl(v)
    [] entry = "KeyboardLayoutMap" -> KeyboardLayoutMap(v)
    [] entry = "StorageEstimate" -> StorageEstimate(v)
    [] entry = "NetworkInformation" -> NetworkInformation(v)
    [] entry = "SpeechSynthesis" -> SpeechSynthesis(v)
    [] entry \in TimezoneSurface -> Timezone(entry, v)
    [] entry = "Display" -> Display(v)
    [] entry \in TouchPathway -> TouchSurface(entry, v)
    [] entry \in PermissionName -> PermissionQuery(v, entry)
    [] entry \in JsSurface -> ApiAnswer(entry, v)
    [] entry = "LockedSetting" -> LockedSetting(v)
    [] entry = "WindowWidth" -> WindowWidth(v)
    [] entry \in TimerSurface \cup AsyncEventClass -> ReadClock(entry, v.mode, v.now, v.jitter)
    [] entry = "GpuTime" -> QuantizeGpu(v.now)
=============================================================================
