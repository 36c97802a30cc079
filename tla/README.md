# StikJIT in TLA+

StikJIT enables just-in-time compilation for an iOS app from a helper process:
it connects to the device's own debug service, mounts the developer disk image
if it has to, attaches the debugger to the app and runs a JavaScript that
*blesses* the executable pages the app asks for. This directory holds TLA+
models of it, the TLC configurations that check them, and proofs about the
parts that matter most.

## 1. Inventory

| Part | State | Operations | Hard parts |
|---|---|---|---|
| `ScriptRunner.swift`, `BundledScript.swift` | first error recorded, the debug proxy's two byte streams | `run`, `send_command`, `prepare_memory_region` | pipelined writes in batches of 128 whose answers are matched by position; streams that break in the middle of a batch; 36-bit addresses |
| `Resources/universal.js` | globals `tid pc x0 x1 x16`, `detached` | the main loop, `JIT26Detach`, `JIT26PrepareRegion`, `JIT26NewBreakpoints`, `brk 0x69` | a protocol of three parties (script, debug server, app); registers saved from one stop and used several round trips later; failures come back as `""` |
| `EndpointProbe.swift` | `ProbeState` under a lock, a semaphore | `failureReason` | timeout against callback on another queue |
| `DeveloperDiskImageService.swift`, `SynchronousDDIDownloader.swift` | three cached files | `downloadIfNeeded`, `download`, `removeCachedFiles`, `allFilesUsable` | actor left at every await, check-then-use of files, three files replaced one by one, kills in between |
| `StikJIT.swift` | none of its own | `prepareDevice`, `enableJIT` (twice), `resetCachedDDI`, `downloadDDIIfNeeded`, `mountDDI`, `isDDIMounted` | the order of the steps; one failing after others took effect; a device that reboots in between |
| `DDISession.swift` | handles of one call | `isMounted`, `mountDDI` | nested handles freed by `defer`; a check that fails is neither yes nor no |
| `JITSession.swift` | handles of one call, the acknowledgement mode of the connection | `enableJIT`, `attachWithoutScript` | a handle leaks when the second connect fails; ignored answers |
| `ProcessInfo+TXM.swift` | none | `txmPresence` | three-valued answer |
| `Resources/legacy.js` | locals | `attach(1)` | as `universal.js`, with fewer checks |
| `StikJITError.swift`, `IdeviceFFI.swift` | none | error conversion | every error object consumed once |
| `idevice/idevice.h` | vendored header: 340 functions, and a copy of libplist's | - | which handles a call needs, takes and makes |

How they meet: `StikJIT.enableJIT` calls `prepareDevice` (probe, then
`DDISession`, the downloader, `DDISession` again) and then `JITSession`, which
hands its debug proxy to `ScriptRunner`. `ScriptRunner` evaluates a script in
JavaScriptCore and gives it two blocking functions; the script talks to the debug
server through them, and the debug server starts, stops and changes the app. The
app is another process, which makes its calls by executing `brk`. The only state
shared by concurrent calls is the file system (`DDICache`) and, inside one
call, `ProbeState` (`EndpointProbe`).

What makes each part correct:

- *ScriptRunner*: an answer is never taken for that of another request; `OK`
  means that the pages were written; no call blocks for ever; the number of
  outstanding requests is bounded.
- *the scripts*: what an app is given back is the region it asked
  for, blessed; the script never acts on registers of an earlier stop; success is
  reported only when the app has been let go (a refused `D` breaks this, §3); a
  signal that universal.js looked at reaches the app; the session ends.
- *EndpointProbe*: "no reason" only for an endpoint that answered; the first
  verdict stands; it always returns.
- *DDI cache*: callers that keep to the queue, or to the actor, do not break each
  other's calls; a completed download has all three files; mixed versions only
  after an interrupted call; after a reset nothing older is mounted.
- *DDISession, JITSession*: no call is handed a handle that was freed or never made; a
  routine leaves nothing behind; a tunnel goes after what was connected over it;
  "JIT enabled" is said when it is, and nobody is attached to on a guess.
- *StikJIT facade*: "ready" means mounted; nothing is mounted over an image that is there;
  every call ends.
- *all of them*: each step of a call uses up one of finitely many, whatever has failed, and a call
  does not wait for what nobody owes it.
- *idevice.h*: what it hands out it can take back.

## 2. Modules

| Module | Models | Checked by |
|---|---|---|
| `ScriptRunner` | `ScriptRunner.swift`, `BundledScript.swift`, any script | `MCScriptRunner`, two configurations |
| `ScriptRunnerProofs` | theorems about `ScriptRunner` | TLAPS |
| `JITScripts` | `universal.js` and `legacy.js` on an instance of `ScriptRunner`, with debug server and app | `MCJITScripts`, six configurations |
| `JITGrants` | what an app is promised, without debugger, script or messages | refined by `JITScripts` |
| `JITScriptsProofs` | theorems: `JITScripts` implements `ScriptRunner`; what a script believes of the app and does to it; that the parties never all wait | TLAPS |
| `JITGrantsProofs` | theorems about what an app is given back, and that `JITScripts` implements `JITGrants` | TLAPS |
| `EndpointProbe` | `EndpointProbe.swift` | `EndpointProbe.cfg` |
| `EndpointProbeProofs` | theorems about `EndpointProbe` | TLAPS |
| `DDICache` | the cached files and all calls that touch them | `DDICache.cfg` |
| `DDICacheProofs` | theorems about `DDICache` | TLAPS |
| `Idevice` | the handle contract of the 29 library functions StikJIT's sessions call | used by the next two |
| `IdeviceHeader` | the handle contract of the library's 340 functions, by the families of the header | an assumption evaluated by the runs of `StikJIT` |
| `DeviceSession` | `JITSession`, `DDISession`, `IdeviceFFI`, one library call per step | `StikJIT` |
| `StikJIT` | the public calls, TXM detection, kills and reboots, on top of `DeviceSession` | `StikJIT.cfg`, `StikJITRefused.cfg` |
| `HandleProofs` | theorems about the handles of the sessions, under every call of `StikJIT` | TLAPS |
| `StikJITProofs` | theorems about what the public calls answer and claim | TLAPS |

`PROJECT.json` maps every definition that stands for code to its lines. An
operator that stands just before one it resembles (`BatchSizeAll` before
`BatchSize`) is a plausible mistake: putting it in the place of the original
breaks the property listed with it under "mutants".

### ScriptRunner

`stage` is where `run()` is, `calling` what the script is blocked in: a
`send_command` (`command`), the sending of a batch (`send`) or the reading of its
responses (`read`). `inbox` holds the requests the debug server has not yet
answered, `replies` the answers not yet read. `LinkLost` and `ReplyGarbled` are
the two ways an FFI call fails: the stream breaks, possibly in the middle of a
batch and for good, or one reply cannot be decoded and the stream stays usable.
The script is any sequence of calls. Two histories are kept for the properties:
`prepared`, the regions answered `OK`, and `written`, the addresses the debug
server wrote. A page is blessed when some address in it was written.
The page size, the batch size and the space of wire addresses are constants
(16384, 128 and 2^36 in the code).

Left out: the text of packets and checksums, log lines, and the conversion from a
JavaScript number to `UInt64`, which is taken to succeed. JavaScriptCore's
conversion of a BigInt argument to the block's `Double` is taken to give its value.

### JITScripts and JITGrants

Composes four parties: the script (`step`, and its globals `stop` and `address`),
`ScriptRunner` (the instance `Runner`, all of whose variables are shared), the
debug server and the app (`target`, `event`, `advanced`, `x0`). Each step of the
script is one call of ScriptRunner: `step` names the request that comes next
and `AfterReply` is the script's control flow, as a function from the step and the
reply to the next step, one for each script. `script` says which one runs; an app made
for legacy.js makes `LegacyCalls`, any other `Calls` and then `JIT26Detach`. Requests
whose reply the code ignores go on the same way whatever it was.
The code parses registers through five bytes; `ScriptSpace` is that space.

The debug server and the app are external: resuming answers with the next stop,
stepping over a `brk` needs the `P20` write or it traps again, `vCont;S` delivers
the signal, `_M` may give an address, `""` or an error, `D` lets the app go or is refused
(`RefusesDetach`). Scripts the app sends
through `JIT26NewBreakpoints` are fetched but install nothing.

The app stops for a call, which is a `brk`, or for a signal, at a word that is none. legacy.js
looks only at the bits where a `brk` has its immediate, so it matters what word that is:
`Lookalikes` and `LegacyLookalikes` are the stops for a signal at a word with `0x69` in these bits,
such as `mov x0, #0x69`, of an app made for either script. universal.js takes them for the signals they are;
legacy.js does not. A signal reported while the pc is at a `brk` is left out.

`JITGrants` is the abstract side, from the protocol of INTEGRATION.md: while a session is
open each ask is answered once, only pages asked for are touched, a region is granted when
all of it is blessed, and after the session nothing happens. `GrantsSpec` maps the
session to the app between attach and detach, the ask to the brk the app is stopped at, and
`blessed` to the pages with a written address.

### EndpointProbe

`caller` walks through `failureReason`, `callback` through the state handler on
the probe's queue. `Finish` is `ProbeState.finish`, atomic under its lock; the
semaphore is signalled in a later step, and removing the handler and reading the
reason are further steps, so that an update can fall between any two of them.

### DDICache

`files` gives the version of each cached file (0: missing), `published` the one the
server offers. Helpers run `prepareDevice` and `resetCachedDDI` one at a time
(`MayStart`: "one dedicated serial background queue", INTEGRATION.md:218); tasks run
`downloadIfNeeded` inside the actor (`MayRun`, `Stay`, `Leave`), which they leave
at `await session.download`. Checking, removing, moving and mapping files are
single steps, since nothing holds the directory between them. A step that finds
its file taken away or put there by someone else ends its call with `raced`.
`disturbed` records whether a call was cut short (a fault, a kill, new files
published meanwhile), and whether a file was removed whose successor could not be
moved in (`torn`).

A process that is killed and a device that reboots are one fault here: `Crash` ends all
calls, and the image may or may not be mounted afterwards.

### DeviceSession and StikJIT

`step` is the library call a routine makes next, and `Call` its contract, taken by name from
`Idevice`: the handles it borrows, consumes and makes. `live` holds the handles not freed, with the
session that made them. `defers` is Swift's stack of pending `defer` blocks: leaving a
function (`step = "leave"`) runs them from the top, down to those of its caller
(`CallersDefers`), and `after` says where the caller goes on: "tunnel" is the return of
`makeTunnel`, "connectMounter" that of `fetchUniqueChipID`, "done" that of the routine.
`Check` is `IdeviceFFI.check` (the error object is consumed and thrown), `Try` is
`try?`. An error object the code never looks at has the kind "unread".

`StikJIT` puts the public calls on top: `phase` is the place in `prepareDevice` or after it,
`files` whether the three image files can be read (all of `DDICache`, seen from here), and a
session is one `Start` of a routine. `txmPresence` may be unknown at one reading and known at the next;
the deprecated `enableJIT`, which prepares nothing, is `enableJITDirectly`. `ScriptRunner.run` is one step, `RunScript`, which leaves
the target either way. `Kill` and `Reboot` may come at any moment, and other tasks
may change the files.

The external side: a mount may fail with effect or succeed without it; an image stays mounted
until the next reboot (INTEGRATION.md:214), and nobody else mounts or unmounts. One public call
is made at a time ("one dedicated serial background queue", INTEGRATION.md:218).

### Idevice and IdeviceHeader

A contract is `Function(borrows, consumes, makes)`, read off the prototype and the comment of
each function. `Idevice` has those StikJIT calls, each under its C name; `IdeviceHeader`
has all up to the copy of libplist's header (idevice.h:6122), as a function from names to contracts. Where the comment is silent on whether
a `_new` function takes over its argument (`idevice_new`, `afc_client_new`, `app_service_new`,
`diagnostics_service_new`, `crash_report_client_new`, `debug_proxy_new`,
`house_arrest_client_new`, `image_mounter_new`) it is taken to borrow it.

Only the contracts of `Idevice` are used: `DeviceSession` checks StikJIT's calls against them.
The rest is the table itself, which no behaviour depends on. `HeaderAssumption` states, and the runs of
`StikJIT` evaluate, what it shows of the header: which kinds of handles no function makes, and which
none frees (see the notes below).

## 3. What the runs check

| Run | Configuration | Shows |
|---|---|---|
| `runner` | `ScriptRunner.cfg` | `AnswersMatch`, `PreparedIsBlessed`; no call waits in vain (`NoReadInVain`) or repeats itself (`CallsAdvance`), so `CallsReturn` |
| `runner_refused` | `ScriptRunnerRefused.cfg` | finding: `PreparedMeansBlessed` fails |
| `universal` | `UniversalScript.cfg` | both scripts, with a detach that may be refused: `GrantsAreBlessed`, `GrantsAreOwn`, `SeenSignalsDelivered`, `RegistersAreFresh`, `Terminates`, and `GrantsSpec`: an app gets what `JITGrants` promises |
| `universal_faults` | `UniversalFaults.cfg` | both scripts under faults, refusals and signals at words that look like a `brk`: `ReleasedUnlessRefused`, and `RunnerSpec`: the composition implements `ScriptRunner` |
| `universal_errors`, `_legacy`, `_refused_memory`, `_held` | `Universal{Errors,Legacy,RefusedMemory,Held}.cfg` | findings: `ErrorsAreSurfaced`, `LegacyErrorReturned`, `GrantsAreOwn` and `FinishedMeansReleased` fail |
| `probe` | `EndpointProbe.cfg` | `FirstVerdictWins`, `VerdictStands`, `Returns` |
| `ddi` | `DDICache.cfg` | `NoRaces`, `MixedMeansDisturbed`, `MountsFreshFiles`, `DoneMeansComplete`; `ActorIsPassedOn`, `CallsAdvance`, `CallsEnd` |
| `device` | `StikJIT.cfg` | handles: `ArgumentsAreLive`, `LeaksAreKnown`, `TunnelOutlivesClients`; the device: `ReadyMeansMounted`, `MountsWhenNeeded`, `ClaimsHold`, `ModesAgree`, `UnknownMeansError`; the calls: `CallsAdvance`, `CallsEnd` |
| `device_refused` | `StikJITRefused.cfg` | finding: `EnabledMeansAttached` fails |

`runner`, `universal`, `probe`, `ddi` and `device` check the type invariant of their module as well, and
all but the runs of `StikJIT` that there is no deadlock (there the helper may have made all its calls). In `ScriptRunner.tla`, `BatchBound` and `FinishedIsQuiet`
follow from what `runner` checks; they are proved.

`LeaksAreKnown` is exact: after a routine the only handles left are the remote server of a session whose
proxy could not be connected, and the error object of a first acknowledgement that failed.
Both are small leaks of the code, and each is one object per such session.
`ClaimsHold` and `ModesAgree` say likewise what goes wrong only when an answer that was dropped
said so. `UnknownMeansError` has no such exception: with an unknown TXM neither branch of
`enableJIT` is taken, so there is no answer to drop. `ReleasedUnlessRefused` is what remains of
`FinishedMeansReleased`: of everything that can fail on the way to the end of a script, only the refusal
of the detach itself passes for one.

What `DDICache` promises of files and answers holds as long as one API is used, the
synchronous calls or the actor's. The run also explores both at once, where calls do fail
because of each other (`raced`), a reset does not reach a download under way, and a
task may find its files removed again. That is why the documentation asks for one
queue; `downloadDDIIfNeeded`, being async, cannot be put on it.

### Findings

- **Refused writes are reported as prepared** (`runner_refused`). `prepareMemoryRegion`
  reads every response and discards it.
- **A broken stream never surfaces** (`universal_errors`). `universal.js` loops on the
  empty replies that follow, so `run()` does not reach the line that throws the recorded
  error.
- **A refused `_M` is read as an address** (`universal_refused_memory`): only an empty
  reply counts as a failure.
- **`brk 0x69` returns 0x690000E0**, not the announced 0xE0000069 (`universal_legacy`).
- **A refused detach is reported as detached** (`universal_held`). Neither script looks at the reply
  to `D`, and a refusal is a reply like any other, not a recorded error: `run()` says "region blessed, detached"
  of an app that is still held.
- **A refused attach is reported as JIT enabled** (`device_refused`). `attachWithoutScript`
  looks at neither the text of the reply to `vAttach` nor the outcome of `D`.

On the vendored header, which StikJIT does not call in these places: the functions it names for freeing a
list of paths (`afc_free_directory_entries`, idevice.h:2034) and a pairing record
(`idevice_pair_record_free`, idevice.h:5896) are not declared; nothing frees
the list of `os_trace_relay_get_pid_list`; and no function makes the socket handle that `idevice_new` takes
or an `AdapterStreamHandle`.

Weaker spots that no document contradicts are listed under "hazards" in `PROJECT.json` with a note.
The ones to know: `PreparedIsBlessed` speaks of aligned regions below 2^36, since an unaligned
one loses its last page and a higher address is cut; legacy.js takes a signal for a call if it finds the
app at a word with `0x69` in bits 5 to 20, as line 74 does not ask for a `brk`: the region its registers
name is prepared, the word skipped and the session closed; `GrantsAreBlessed` speaks of runs
without a recorded error, since after one `universal.js` still hands out the address of a
region whose preparation failed.

### Bounds

- ScriptRunner: pages of two bytes, batches of two, regions of no page, less
  than one, a batch and a bit, and five pages (two batches and a short third), so
  every boundary of the two nested loops is crossed; one unaligned region and one beyond
  `WireSpace`, for which only the pairing of replies is claimed. Two faults: the second
  meets a stream the first left half read. One command stands for all, since the runner
  does not look at them; replies are `OK`, a refusal and `""`.
- JITScripts: up to three calls, each any of five kinds (for legacy.js, of two), and two signals:
  enough for registers of an earlier call to be mistaken for those of a later one,
  and for a signal to fall before, between and after calls. With faults two calls
  and one signal, of the three kinds whose replies steer the script. One lookalike, with a region
  in its registers, for the app of universal.js; for that of legacy.js in `universal_faults`
  only, since legacy.js does break `GrantsSpec` with one.
  Registers are small numbers and `ScriptSpace` 256; `LegacyErrorCode` 57449 is
  0xE069, the two outer bytes of 0xE0000069 and what swapping them changes.
- EndpointProbe: three updates and two error reasons: ready-then-failed,
  failed-then-ready and two different failures.
- DDICache: one helper (the queue runs one call at a time, so a second adds nothing), two
  tasks, three calls, two versions, one fault, kill or reboot. The mistakes looked for
  need two calls in each other's way and a third that meets what they left. No symmetry
  is declared, because the run checks liveness.
- StikJIT: two calls, each any of five kinds: a call that leaks or loses its process,
  followed by another. A call has up to four sessions. Kills, reboots and changes of the files are not
  bounded.

The runs bound the calls of an app, the calls of the clients, and faults, so
what their liveness properties show is that a blocked operation comes back, not that a client is served
while others go on calling for ever.

### Fairness

- `ScriptRunner`: the debug server answers what it has received, and the
  runner's send and receive steps, once possible, are taken (they are a thread in a
  loop). Nothing makes the script call again or end.
- `JITScripts`: the script runs on (a JavaScript loop without waiting of its own)
  and the debug server and the app run on: the app is supposed to reach its next stop. No
  fairness makes faults happen.
- `EndpointProbe`: only the caller. The wait has a timeout, so nothing is asked of
  the queue or of the connection.
- `DDICache`: each client's thread or task is scheduled; a transfer ends, with a
  result or an error (`timeoutIntervalForResource`).
- `StikJIT`: the helper's thread runs on and the library's calls return. Nothing is
  asked of a script, so `CallsEnd` stops at one; `Terminates` takes over there.

## 4. What is proved

Every invariant of every passing run, the action properties `VerdictStands`, `DoneMeansComplete`,
`UnknownMeansError` and the three `CallsAdvance`, and both refinements (`RunnerSpec`, `GrantsSpec`), for every value of the
constants. The assumptions are the named ones on constants (`ScriptRunnerAssumption`,
`UniversalAssumption`, `ProbeAssumption`, `DDIAssumption`, `StikJITAssumption`), which
TLC evaluates in the runs of these modules, and the further ones named below with the theorems that need
them. No property is inductive alone; each section gives the strengthening and what would go wrong
without its parts. An induction step is a lemma with one step per action.

Liveness itself is out of the prover's reach, but its safety half is not. That a call returns rests on
three things: that what it waits for can come (`NoReadInVain`, `ActorIsPassedOn`; a call of `StikJIT`
waits for nothing but the library's calls), that each step brings it nearer to its end (`CallsAdvance`: a natural number that falls with every step of the call), and
that the step is taken. The first two are theorems, for any number of pages, files or
failures; the third is the fairness of section 3, and only putting them together is left
to TLC (`CallsReturn`, `CallsEnd`). The first is stated by what is on the stream or who holds the actor,
since ENABLED cannot be reasoned about.

### ScriptRunnerProofs

For every page size, batch size, set of regions, alphabet of commands and replies and
number of faults: `TypeOK`, `AnswersMatch`, `BatchBound`, `FinishedIsQuiet` and
`PreparedIsBlessed`. The sizes are assumed positive, regions are records of naturals,
commands are no writes, and `OK` differs from the empty answer.

`PreparedIsBlessed` speaks of a region that is finished; while a batch is on its way its
pages are neither written nor claimed. The strengthening `IInv` adds:

- `BatchInside`: while a region is being prepared, `batchStart` lies before its
  last page. Without it the size of a batch could be negative.
- `AnswersMatch`: what is in flight is what the runner waits for. When the last
  reply of the last batch is read nothing else can be under way, so all requests
  have been served.
- `WritesArrive`: every page sent so far is written or its command is in the queue; with
  the previous point, the last reply means that all are written.
- `FinishedIsIdle`: a normal end has no call open and no error.

`NoReadInVain` goes on where `AnswersMatch` gives up, after an error: replies that a failed call
left behind may be read for others then, but there are always at least as many requests on the
stream as the runner waits for. `CallsAdvance` counts what a page still goes through: it is sent, served
and read.

From `WritesArrive` to `PreparedIsBlessed` is arithmetic: in an aligned region the page
numbers are those of the addresses `address + p * JitPageSize`, and below
`WireSpace` the wire does not change them (`WritesCoverPages`).

### JITScriptsProofs

For any calls an app makes, signals wherever they find it, refusals, faults and kills. First `RunnerSpec`: the
composition takes only steps of `ScriptRunner`. A theorem cannot be carried through an
INSTANCE, so `TypeOK`, `BatchInside` and the bounds of what is in flight are proved again
for the instance `Runner`. To them `Refines` adds what makes the requests of a script requests `ScriptRunner`
allows:

- `Arguments`: a region is prepared only with registers of a call, at its address or one from `_M`.
- `Sought`: until legacy.js has found its `brk`, each answer it reads is that of its own request,
  whatever has failed. Else it could prepare a region with the registers of a signal.
- `Busy`: an app that runs means that a resume request is being served, so its stop is a reply
  to that request, which is what `ScriptRunner` lets the debug server send.
- `Calling`: which steps of a script are blocked in which call.

Then `TypeOK`, `ReleasedUnlessRefused`, `RegistersAreFresh` and
`SeenSignalsDelivered`. All but the types speak of runs without a recorded error or with a normal
end, which comes to the same; `Attached` adds:

- `Paired`: while no error is recorded the stream holds the one exchange the script is blocked in,
  and `Says`, what each answer means, is still true when the script reads it.
- `Believed`: where the app stands at each step of the script. The registers are fresh
  because the app cannot run between two resumes, not because they are read again.
- `PassedOn`: the next `c` finds no signal that the script has looked at.
- `Ended`: a normal end is that of a script that got past its detach, with no error recorded. There the app
  is free or gone, or the reply to `D` was a refusal (`Believed`).

Last `SessionsGoOn`: script, debug server and app never all wait for each other, with no proviso about
errors. It is the absence of deadlock that the runs `universal` and `universal_faults`
check, with the guards written out; TLC found them to agree with ENABLED on both
instances. Of an app made for legacy.js it is assumed that it makes a call (`MakesCalls`): legacy.js
waits for that. `GoingOn` adds:

- `Reading`: `NoReadInVain` for the instance.
- `Opening`: `vAttach` is asked for once and first, so it is never left unserved before a request.
- `OneCall`: legacy.js steps over a `brk` only to let the app go. Were the app resumed after that, the
  script could wait for a second call of an app that has none left.

### JITGrantsProofs

`GrantsAreBlessed` and `GrantsAreOwn` under faults and kills, of any app whose registers fit into the five
bytes the scripts parse (`Fits`). Without it the app gets back what is left of its
address. The first needs a debug server that refuses no write, the second one that does not refuse `_M`:
what happens otherwise is a finding each. `Promised` follows a call from the stop at its `brk` to its
return, while `Attached` says that it is the same call all the time:

- `Course`: what has been prepared so far, what is in `x0` and in `address`, and whether the `brk` was
  stepped over, at each step of the script. universal.js steps over first and prepares then, legacy.js the
  other way round.
- `Owed`: when the app runs on, `x0` is null or the address of a region in `prepared`, and of the
  one asked for.
- `WritesArrive`, proved for the instance as in ScriptRunnerProofs: regions in `prepared` were written.

`GrantsImplemented`: without faults (`Faultless`) each step maps to one of `JITGrants` or
none, for an app that asks for aligned regions below 2^36, by commands that fit, and legacy.js never
for one at 0, and finds no signal at a word that looks like `brk 0x69` to legacy.js (`WellMade`). The last
is needed, since legacy.js does touch pages then that nobody asked for; the two
invariants do not need it. The detach may be refused. The run `universal` is such an instance. Unlike the two
invariants it says *when* things happen, which takes more (`Refining`):

- `Handled`: which calls a step of the script serves, that the `brk` is stepped over once and after that the
  app answered with what it may return; an app at the detach call is not run on again.
- `InRegion`: the writes under way are those of the region, so only pages of the ask are touched.
- `Fresh`: what is allocated has the address `_M` gives.
- `Quiet`: nothing fails, and no signal kills the app.

### EndpointProbeProofs

For any errors and any number of updates of the connection: `TypeOK`,
`FirstVerdictWins` and `VerdictStands`. The two texts of the code are
assumed not to be errors of the connection. `ProbeInv` adds to the types:

- `SignalledOnce`: the semaphore is signalled by whoever settled the verdict. Without it a
  second signal could be pending, and the type of the semaphore is not inductive.
- `CallerSettled`: the caller leaves its wait only with a verdict.
- `Undecided`: until there is a verdict, the handler is set and the queue has met nothing
  but waiting, in the order in which it was reported. This is what makes the
  update that settles the verdict the *first* one.
- `VerdictOrigin`: a verdict is that of the connection's first update, or the timeout's.

### DDICacheProofs

For any sets of helpers and tasks and any number of calls, versions, faults, kills and reboots:
`TypeOK`, `NoRaces`, `DoneMeansComplete`, `MountsFreshFiles`, `MixedMeansDisturbed`,
`ActorIsPassedOn` and `CallsAdvance`. Helpers and tasks
are assumed disjoint, and a first version published. In four stages:

- `Base`: types, the roles (one helper calls at a time; one task is between `fileExists` and
  `moveItem`, and it holds the actor) and the shape of what is left to do.
- `Ground`, as long as one API is in use: nobody raced, and `CountsOn`, what a client
  relies on between two steps. A task that has dealt with a file finds it there,
  *or another task is about to move it in*: with several tasks in their awaits the files are
  complete only again and again, and this disjunct is why the last of them to return
  nevertheless leaves all three.
- `Fresh`: as long as no task calls, every file, temporary or loaded, is as new as the latest reset.
- `Even`, as long as no call was disturbed: files that are there are of one version; while
  one client downloads they are of the published one; and when nobody does, the files are all there
  or all missing. The last part is what an undisturbed call starts from, and the reason why it
  cannot mix versions.

`ActorIsPassedOn` needs only `Base`. `CallsAdvance` needs that a step of one client leaves the
label and the list of files of the others alone, and from `Base` the shape of these lists:
`StepsFrom` counts the steps from a label with a number of files to handle.

### HandleProofs

For any number of calls, failures, kills and reboots: `ArgumentsAreLive`, `LeaksAreKnown` and
`TunnelOutlivesClients`. One account of the handles carries all three (`Account`):

    live = the handles the pending defers will free
           \cup those only a local variable holds (Loose)
           \cup those leaked (Leaks)

`DefersOf` says which stack of defers a step can have. Without it nothing shows that the handles a
call takes are among those the defers keep, nor that the stack frees the clients before their
tunnel. `Losses` says when the two leaks can happen: a session that lost its
remote server has no defer for it.

### StikJITProofs

For any number of calls, in a world as above: `TypeOK`, `ReadyMeansMounted`, `MountsWhenNeeded`,
`ClaimsHold`, `ModesAgree`, `UnknownMeansError` and `CallsAdvance`. To the invariant of `HandleProofs` `Course` adds:

- `Flow` and `Stage`: which routine a step belongs to, and which routine a phase of a call
  runs. They tie what a session finds out to what the facade concludes from it.
- `Outcome`: what a result and a phase say of the image. The reading of TXM and
  the session after it are entered only with the image mounted, and
  no step on the way can unmount it but a reboot, which ends the call.
- `Claim`: an attached target and one that runs on, or an ignored answer, at each step
  of the session without a script.
- `Mode`: which ends of the connection acknowledge, at each step.

`Underway` treats a step and the defers or error objects handled just before it alike; without it the
facts established by one call would be lost while a function is being left.

`UnknownMeansError` adds `Doubt`: a session that was not told of TXM gets no further than to the
decision, and what it returns is an error. That it runs no other routine, whose result could be
taken for its own, is `Flow` and `Stage` again.

`CallsAdvance` counts the phases still ahead, then the
steps of the routine, then the defers that have to run: a phase weighs more than a
routine, and a step more than the two defers it may register.

### Model-checked only

Liveness: `CallsReturn`, `CallsEnd` (twice), `Returns` and `Terminates`, by fairness and, for
the first three, the theorems above. Of `Terminates` nothing more than `SessionsGoOn` is proved: that the loop
of a script makes progress from stop to stop holds without faults only. The findings are counterexamples. Induction over data
(what a recursive definition computes) does not come up; no module here declares a RECURSIVE operator.

## 5. Not modelled

- A signal that is reported while the pc is at a `brk`: then the stop is taken for a call by both scripts,
  whatever it was for.
- The waiting thread and the completion handler of a synchronous transfer
  (SynchronousDDIDownloader.swift:22 to 47) as two: they are one sequence of steps in `DDICache`, so a missing signal of its
  semaphore cannot be expressed. `CallsEnd` takes it that a transfer ends.
- A success without a handle where the code does not guard against one. `OpenPairing`, `Connect`,
  `ConnectProxy` and `GetChipID` have that outcome because the code has a guard there; `CreateTunnel` and
  `ConnectRemote` do not, as the code has none (JITSession.swift:88 to 107, DDISession.swift:158 to 171):
  a library that did so would hand null to the next call, of which the header says nothing.
- Handlers an app installs through `eval`: any JavaScript, whose effect no model of this
  repository can bound. That is why universal.js counts as partly modelled.
- The progress box of `mountDDI` and the chip ID it passes (see the hazards), error texts, progress
  reports, packet formatting and checksums.
- Reading image files (`mappedFileData`): readable or not.
- The copy of libplist's header inside idevice.h (6122 to 7593), of which
  StikJIT uses two functions; `rsd_handshake_clone`, as the table has one handle of a kind;
  what the library's functions do on the device, but for those StikJIT calls.
- The implementation of `idevice`, the debug server, the image mounter, URLSession, NWConnection,
  the I/O registry and JavaScriptCore: not in the repository, modelled by how the code uses them.

## 6. Plan

1. Two calls of the helper at a time, against what INTEGRATION.md asks, to say which of the
   properties of `StikJIT` still hold.
2. `JITScripts` with scripts installed by the app, restricted to those that send
   the requests the bundled handlers send.
3. `GrantsSpec` with faults: `JITGrants` with asks that are never answered.
4. The safety half of `Terminates`: without faults each stop of the app uses up one of its calls or
   signals, and between two stops each step one of finitely many.
