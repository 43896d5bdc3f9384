------------------------- MODULE FingerprintSession -------------------------
(***************************************************************************)
(* Two readings of the same entry point by any two pages of any users, or  *)
(* of two clocks by one page, on either side of time passing, a window     *)
(* being resized and the browser being restarted.                          *)
(***************************************************************************)
EXTENDS FingerprintSurfaces

CONSTANTS
  User,            \* identity profiles, each on its device
  UserInfo,        \* user -> [mode, device, rotates, timezone, grants, permissions]
  Index,           \* pixels, samples, boxes a page reads
  Window,          \* widths the user may have given the window
  MaxLaunch,       \* bound: restarts
  None

ASSUME UserAssumption == \A u \in User : UserInfo[u].mode \in Mode
ASSUME SeedAssumption ==
  \A site \in Site, u \in User, ctx \in Context :
    JitterSeedOf(Derive(site, u, ctx)) \in JitterSeed \cup {NoJitter}
ASSUME LaunchAssumption == MaxLaunch \in Nat

\* Where a rasteriser puts a box: anywhere.
ASSUME RasterAssumption ==
  Index \subseteq Nat /\ \A u \in User : UserInfo[u].device.subpixel \in Int

VARIABLES
  now,             \* the host's monotonic clock
  launch,          \* how often the browser was restarted; each start draws a fresh epoch
  first, second    \* the two readings

readVars == <<now, launch, first, second>>

ReadInit ==
  /\ now = 0
  /\ launch = 0
  /\ first = None
  /\ second = None

ViewAlwaysRotating(u, site, ctx, index, width) ==
  [mode |-> UserInfo[u].mode, device |-> UserInfo[u].device,
   seed |-> FarblingSeed(Derive(site, u, ctx)), epoch |-> <<"epoch", launch>>,
   index |-> index, timezone |-> UserInfo[u].timezone,
   grants |-> site \in UserInfo[u].grants, permissions |-> UserInfo[u].permissions, now |-> now,
   jitter |-> JitterSeedOf(Derive(site, u, ctx)), window |-> width]

\* What an answer to this page may depend on: the overrides are built for the mode of the
\* profile and installed for its pages, and the seeds are those of the page's partition.
View(u, site, ctx, index, width) ==
  [mode |-> UserInfo[u].mode, device |-> UserInfo[u].device,
   seed |-> FarblingSeed(Derive(site, u, ctx)),
   epoch |-> IF UserInfo[u].rotates THEN <<"epoch", launch>> ELSE NoEpoch,
   index |-> index, timezone |-> UserInfo[u].timezone,
   grants |-> site \in UserInfo[u].grants, permissions |-> UserInfo[u].permissions, now |-> now,
   jitter |-> JitterSeedOf(Derive(site, u, ctx)), window |-> width]

\* The width of the window matters to the reading of it only.
WidthsFor(entry) == IF entry = "WindowWidth" THEN Window ELSE {WidthStep}

Reading(entry) ==
  {[entry |-> entry, user |-> u, site |-> site, context |-> ctx, index |-> index,
    now |-> now, launch |-> launch, window |-> width,
    value |-> Answer(entry, View(u, site, ctx, index, width))] :
      u \in User, site \in Site, ctx \in Context, index \in Index, width \in WidthsFor(entry)}

ReadFirst ==
  /\ first = None
  /\ \E entry \in WebIdlSurface : first' \in Reading(entry)
  /\ UNCHANGED <<now, launch, second>>

ReadSecond ==
  /\ first # None /\ second = None
  /\ second' \in Reading(first.entry)
  /\ UNCHANGED <<now, launch, first>>

SamePage(r, q) == r.user = q.user /\ r.site = q.site /\ r.context = q.context

\* A page that has read one clock compares it with another.
ReadAnotherClock ==
  /\ first # None /\ second = None
  /\ first.entry \in Clock
  /\ \E entry \in Clock : second' \in {r \in Reading(entry) : SamePage(first, r)}
  /\ UNCHANGED <<now, launch, first>>

Tick ==
  /\ now < MaxTime
  /\ second = None
  /\ now' = now + 1
  /\ UNCHANGED <<launch, first, second>>

Restart ==
  /\ launch < MaxLaunch
  /\ second = None
  /\ launch' = launch + 1
  /\ UNCHANGED <<now, first, second>>

ReadNext == ReadFirst \/ ReadSecond \/ ReadAnotherClock \/ Tick \/ Restart

ReadSpec == ReadInit /\ [][ReadNext]_readVars

-----------------------------------------------------------------------------
(* What must hold of any two readings.                                     *)

BothRead == second # None
SameEntry == BothRead /\ first.entry = second.entry /\ first.index = second.index
ModeOf(r) == UserInfo[r.user].mode
StrictDesktop(r) == ModeOf(r) = "Strict" /\ ~UserInfo[r.user].device.touch
JitterOf(r) == JitterSeedOf(Derive(r.site, r.user, r.context))
\* The two readings fall in one quantum of the clock read.
SameMoment ==
  IF first.entry = "GpuTime" THEN first.now \div GpuQuantum = second.now \div GpuQuantum
  ELSE Bucket(ModeOf(first), first.now) = Bucket(ModeOf(second), second.now)

SubpixelOf(r) == UserInfo[r.user].device.subpixel

\* Strict is one cohort: whoever the users, devices and sites, and whatever was restarted or
\* resized in between, two desktop pages in windows of one letterbox read the same value from
\* the same entry point.  Two kinds of answer come close only: a box that two rasterisers put
\* less than a pixel apart may be rounded to either side of a step, and two clocks of different
\* jitter seeds show less than one quantum between them at the same moment.
StrictCohort ==
  SameEntry /\ StrictDesktop(first) /\ StrictDesktop(second)
  /\ QuantizeWidth(first.window) = QuantizeWidth(second.window)
  /\ (first.entry \in Clock => SameMoment)
    => IF first.entry \in {"DomRect", "TextMetrics"} /\ SubpixelOf(first) # SubpixelOf(second)
       THEN Distance(SubpixelOf(first), SubpixelOf(second)) < 10
              => Distance(first.value[1], second.value[1]) <= 1
       ELSE IF first.entry \in TimerSurface /\ JitterOf(first) # JitterOf(second)
       THEN Distance(first.value, second.value) < JsQuantum["Strict"]
       ELSE first.value = second.value

\* A site is shown one machine: what a page reads twice, in one partition of one user, does not
\* change, not even across a restart unless the user rotates the noise.
SiteSeesOneMachine ==
  SameEntry /\ SamePage(first, second)
  /\ first.entry \notin Clock /\ first.window = second.window
  /\ (UserInfo[first.user].rotates => first.launch = second.launch)
    => first.value = second.value

\* Noise does not join what partitions keep apart: two sites, two contexts or two Standard users
\* never read the same noise, nor does one page of a rotating user after a restart, except that
\* the offsets of boxes and text do not rotate.
NoiseDoesNotJoin ==
  SameEntry /\ ModeOf(first) = "Standard" /\ ModeOf(second) = "Standard"
  /\ first.entry \in Farbled
  /\ \/ ~SamePage(first, second)
     \/ /\ UserInfo[first.user].rotates /\ first.launch # second.launch
        /\ first.entry \notin {"DomRect", "TextMetrics"}
    => first.value # second.value

\* Time never runs backwards for a page, and no two of its clocks give a moment away, whatever
\* the jitter of its partition: any two JavaScript clocks or arrivals read in one bucket stay in
\* that bucket, and two of a kind agree there; read in different buckets the later one is ahead,
\* a jittered reading followed by a plain arrival too.
ClockNeverGoesBack ==
  BothRead /\ SamePage(first, second) /\ first.entry \in Clock
    => IF first.entry = "GpuTime" \/ second.entry = "GpuTime"
       THEN first.entry = second.entry => first.value <= second.value
       ELSE LET mode == ModeOf(first)
            IN  IF Bucket(mode, first.now) = Bucket(mode, second.now)
                THEN /\ Bucket(mode, first.value) = Bucket(mode, second.value)
                     /\ (first.entry \in TimerSurface <=> second.entry \in TimerSurface)
                          => first.value = second.value
                ELSE first.value < second.value
=============================================================================
