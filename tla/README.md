# Verification of PocketJS

TLA+ models of the concurrent and failure-prone parts of PocketJS, checked with
TLC on small instances and proved with TLAPS where a theorem is listed. Paths are
relative to the repository.

## Inventory

PocketJS runs one JavaScript UI (Solid, Vue or Octane, with a DOM-less renderer)
on many devices. A frame goes `framework/src` (components, input, services) →
native operations → `engine/core` (tree, layout, animation, draw list) →
`engine/runtime` (lifecycle and frame coordinator) → renderer and display
*drivers* of a device. Background work runs in a *worker*: a second QuickJS realm
on an owner task of its own, with a C core that talks to drivers.

| Component | State | Operations | Interacts by | Hard behaviours | What makes it correct |
|---|---|---|---|---|---|
| Worker core, `engine/worker/src/worker.c` | tables of resources and requests, event ring, timers, channels, ids | open, submit, cancel, close, complete, finish, emit, end, gap, dispatch, observe, destroy | one lock, dropped around every driver call; producers on driver tasks | completion against cancel and close, slot reuse, full ring, lost wake-up, teardown with live producers | one honest verdict per request, ordered gapless streams, borrowed payloads stay put, nothing pending is slept on, destroy waits for native code |
| Worker runner, `runner.c`, and `quickjs.c` | stop flag, wake signal, realm state | step, wait, stop, destroy | wake callback, one turn per step | stop at any moment, realm fault | a stopped worker is destroyed |
| Worker realm, `worker-runtime.ts`, `worker-channels.ts` | promises by request, streams by handle, channel listeners | deliver facts, open, request, close | facts of one turn | facts of handles closed in the same turn | every promise settles once |
| Frame coordinator, `engine/runtime/src/coordinator.rs` | per display: pending, deferred, in-flight transfers, damage history; frame counter, texture log | present, present_with_overlay, complete, set_scale, refresh_displays, drop | calls to drivers, which answer, fail or unwind | a failure or panic with work in flight, overlap across calls, pipelined strips | driver contract kept, no work forgotten, history never claims wrong pixels, borrowed textures reported |
| Runtime lifecycle, `engine/runtime/src/lib.rs`, `input.rs`, `timing.rs` | frame state, pinned textures, key edges, tick debt | frame, tick, poll | guest callbacks, coordinator | texture freed while a frame is in flight, missed ticks | pinned until retired, no input edge lost |
| Driver traits and kit, `engine/drivers`, `engine/driver-kit` | per driver a pointer, or a lifecycle word | render, wait, flush, release | C ABI tables | out-of-order calls | the order FrameContract states |
| Core tree, `engine/core/src` | slot tables with generations, layout caches, timelines | create, remove, set, tick, draw | calls from bindings | stale handles | a stale handle never reaches a reused slot |
| Render caches, `engine/render/src` | texture and glyph pages, damage regions | touch, evict, merge | called by renderers | eviction while in flight | damage covers every changed pixel |
| Resource cache, `framework/src/resource-cache.ts`, and views, `resource-view.ts` | entries with cost, generation, retry state; views with demands | reconcile, step, invalidate, cancel, clear, dispose | load callbacks, change notices | late completion, preemption, eviction, budgets | within budget, each value disposed once, late results ignored |
| Service and offload clients, `framework/src/service-client.ts`, `offload.ts` | pending requests and works, session, jobs | request, cancel, step, send, poll, dispose | pumps of a frame, records of a link | session change, deadline against reply, duplicate reply, completions that issue and cancel | one outcome per request and work |
| Model tasks, `framework/src/model-tasks.ts` | tasks, waits, deliveries, commands | start, cancel, resume, deliver | host requests | cancellation inside all/any, results in the same frame | a wait settles once, losers are released |
| Gestures, `framework/src/gesture-core.ts`, over `touch.ts` | recognizers, a pool of contacts with their watchers, candidate and active pinches, block depth | attach, dispose, cancel, block, one pump a frame | touch snapshot, callbacks that call back | callbacks that cancel, dispose or block in the middle of a loop; slots reused | one winner per contact, every press and pinch ends once, a modal block mutes |
| Framework input, lists and tree | focus, recycled rows | events, layout | native tree | focus lost under a handler | one focus |
| MQTT, Pocket Link, media stream, PSP mailbox | packet ids, upload sessions, receive ring, file sequence numbers | protocol messages | sockets, files | loss, reconnect, crash between two files | at-least-once or exactly-once as stated |
| Package admission, `engine/package` | none (pure) | admit | bytes | overflow of budgets | no section beyond the package |
| Rasterizers, GPU back ends, text, physics, VRM, compilers, tools, apps | — | — | — | numeric or generated | not modelled |

`PROJECT.json` lists every component with its sources and, under `hazards`, what
is hard to test in the code modelled so far, at its line.

## Plan

Order: the worker core first (the only true concurrency in the repository), then
the frame coordinator (the longest error paths), then what surrounds them.

1. `WorkerPromise`, `WorkerCore` and their proofs, the refinement included — done.
2. `FrameContract`, `Coordinator` and their proofs, the refinement included — done.
3. `ResourceCache` and its proofs, and `ResourceView` composed with it (a plan within the
   budget is admitted whole, readers show what is there) — done.
4. `Gestures`, `ModelTasks`, `Services` (offload client and service client over a
   lossy link), and their proofs — done.
5. Left for want of room among the runs: `WorkerInbox` (timers, channels, the rotation
   of `observe`), `WorkerRealm` on `WorkerPromise`; `FrameHistory` (the history
   of each retained buffer, geometry), `RuntimeFrame` composed with `Coordinator` (texture pinning),
   `InputEncoder`, `TickSchedule`; `Mqtt`; `PocketLink`; `MediaStream`; `Admission`.
6. The proofs of the views, on top of the cache's invariant, and of the gestures — done.
   With that every safety property a passing run checks is a theorem.

## The worker

`WorkerCore` models `worker.c`, the loop of `runner.c` and the order of
`pocket_worker_quickjs_step`. `pc` is where the owner task is: the guest's `turn`,
inside a driver's open (`opening`) or start (`starting`), `dispatch` over requests,
`sweep` over resources, inside a driver's close (`nativeClose`), `observe`, the
runner's `idle` test and `wait`, `faulted`, `shutdown`, `check`, `freed`. Producers
(`Complete`, `Finish`, `Emit`, `End`, `Gap`) run at any place where the owner does
not hold the lock (`Unlocked`). `resources`, `requests`, `events` and `nextId` are
the C tables field by field; payload bytes, opcodes and status codes are
abstracted to what the properties tell apart. `observe` copies one fact per step,
in the rotating order of the code, under the lock, with `room` and `bytes` left of
the call. History variables (`held`, `sent`, `ownerOf`, `ran`, `finished`, `stage`,
`next`, `verdict`) record what drivers and guest know and never guard an action of
the core, but for `sent`, which is the driver's own stream position.

Left out: timers and channels (in `observe` they take any share of the room),
`pocket_worker_write`, `validate` refusals (they change nothing), the CPU quota of
a turn, `start_paused`.

`WorkerPromise` states what a guest may rely on: per handle READY, then records
and gaps moving forward, END, CLOSED; per request one verdict, cancelled if and
only if no driver saw it, after END if the driver finished the stream with it.
`WorkerCore` implements it through its history variables (`KeepsPromise`); `next`
is mapped to 0 for a handle the guest never saw READY, because facts of a failed
open are delivered with an id the guest does not know.

| Run | Bounds | Shows |
|---|---|---|
| `worker_shutdown` | 2 slots, ring of 1, 2 ids, 2 records, every environment event but HEADERS, ERROR and CREDIT | two handles or two requests compete for ring and room; stop, fault and timers at any moment; order of a stream with gaps, refusals and clipped results; refinement |
| `worker_progress` | 2 slots, ring of 1, room for 2 facts, no records, HEADERS without end, fair | nothing the core knows of is left undelivered |

Two slots are the least at which a sweep can meet another handle, a slot can be
reused while a neighbour is live and the rotation has two starting points; two records
are one lost or refused and one behind it. The ring's bound, the room and
the bytes are each reached, alone and together. `IntMax` is reached in every run. Longer
rings and more reuse are left to the proofs, which cover every property of `worker_shutdown`.

Fairness (`WorkerCore!Fairness`): the owner task keeps running (a thread of its own
whose loop has no other exit), every driver call returns, and a driver whose close
is asked for again and again is done at last (SF; `worker.h` asks drivers to stop
their accesses and answer OK). No fairness for guests, producers or `Stop`.

Not covered: with `max_facts` at or below the ring's size (8 against 8 slots on 3DS)
GAP, END and CLOSED wait for a call that drains the ring and can be starved by
another stream; the progress run has more room than ring slots.

## The frame coordinator

`Coordinator` models `coordinator.rs`: one thread, one action for a driver call and
the code around it. `call`, `pc`, `phase`, `at` are the API call, the place in it,
whose guard is active (that of `complete`, of a frame, or the `Drop` of a failed
frame) and the display at work. Every driver call may return, fail (`err`) or
unwind (`panic`); `dropPanic` lets one also unwind inside a `Drop` that an error
started. Only `coordinator_drop_panic` turns it on: once it happened (finding 1) the
other properties of the coordinator do not hold either. A panic while unwinding
aborts the process and is not modelled. Damage is
a set of strips; `stale` holds the strips whose pixels do not show the committed
frame yet. Motion (`move_pixels`) is a set of strips too: `moved` holds those moved for the
frame in preparation. When the last display is prepared they show the new frame; when an
error ends the preparation they are `stale` and every history is invalid; when a call
unwinds before `FrameGuard` exists they are `torn`, and so is what wrong pixels are moved to
afterwards. `issued`, `drawing`, `reading`, `flushed` describe the hardware and guard
nothing. `FrameContract` states what presentation owes drivers (source:
`engine/drivers/src/display.rs`, `render.rs`): draw when nothing else is drawn on
the display, flush once and after drawing unless the device orders it, release
only what no device uses, reconfigure with nothing in flight.

Left out: registration (the instance's constants), viewports and pixel geometry,
buffer identities and the history each retained buffer has of its own, unwinding in a
driver's own `retire` or `Drop`.

| Run | Bounds | Shows |
|---|---|---|
| `coordinator_frames` | 2 displays: a Deferred zero-copy GPU that may move pixels (`Moving`) beside the same GPU, a plain CPU renderer of up to 3 strips, pipelined or not, or a zero-copy software one; any damage and motion, 3 frames, overlay, rescale, fair | what is in flight between calls is what is reported; no submission lost, honest history, contract, unwinding with a bystander at work, every call returns |
| `coordinator_drop_panic` | violation | finding 1 |

Three strips make the third wait for the oldest of two transfers; three frames let
a Deferred submission be completed by the next frame and its failure surface one
call later; the second display is a member of the failing renderer or a bystander of
each kind (`Bindings`). Descriptors are any legal combination (`LegalShapes`), chosen
in `Init` and again by a refresh; a refresh keeps the renderers.
`FrameLimit` stands for `u64::MAX`, and TLC reaches it. Fairness: weak on `Step`,
the program's own progress: a driver call returns or unwinds. The caller is not
fair.

Finding 1, `coordinator_drop_panic`: a renderer wait that unwinds inside a
`FrameGuard::drop` started by an ordinary error leaves the renderer registered,
because `rendering` is examined only at the top of `drop`.

Moved pixels. `present_inner` moves the pixels of a display (`coordinator.rs:827`) while it
prepares the frame. If `frame_identity`, `move_pixels` or `host_damage` then unwinds, of that
display or of a later one, `FrameGuard` (859) does not exist, the history stays valid, and the
next frame repaints nothing of what was moved: the tracker no longer "snapshots the DrawList
whose pixels currently live in one persistent render target" (`engine/render/src/damage.rs:3`).
`HistoryHonest` exempts those strips (`torn`) and nothing else; without the exemption TLC
finds this failure in `coordinator_frames`. `HistoryShown` has no exemption, and
`HistoryIsShown` proves it where no driver call unwinds, or no display moves pixels. That
display 0 moves and display 1 is prepared after it is the interesting order; the theorems have any
displays move.

Seen beside finding 1: after a queued flush fails, the submission is flushed a second time
after the renderer wait (`coordinator.rs:1133`), where the comment at 1100-1101 has it
waited for and retired. `FrameContract` allows that flush, so no run refutes it.

## The resource cache

`ResourceCache` models `resource-cache.ts`: caches that share one scheduler.
JavaScript runs one call at a time, so a call is a sequence of steps nothing comes
between: `pc` is `idle` between calls, `admit` inside `reconcile`, `complete` and
`start` inside `step`. Between calls controllers call (`CreateCache`,
`Reconcile`, `Clear`, `Dispose`, `Cancel`, `Invalidate`, `RetryFailed`) and loads `Answer`. `entry` is the
`Entry` record; `residents` is the order of the map and of `order`; `arrived` is
`resultOrder`; `flights` are the closures a loader still holds. A frame number is kept
as a distance from now (`backoff` for `retryAt`, `age` for `loadedAt`, `touched` as a
rank of ages), a generation as a token that only the completions of one load match,
so frames need no bound. `live` marks a flight that was not withdrawn; `alive`,
`failures`, `intruded` are history.

Left out: validation of inputs (it throws and changes nothing), configurations that
differ from cache to cache, change notices, readers (`state`, `snapshot`, `stats`); callbacks that call
back into the cache, which RESOURCES.md forbids.

| Run | Bounds | Shows |
|---|---|---|
| `resource_loads` | 2 keys, 1 load slot, 1 late completion, values that expire, every call, every way a load fails | exact budgets, attempts are failures, late and duplicate completions never taken, work follows demand |
| `resource_settle` | 2 caches, 1 load slot, keys of cost 1, 2, 1, budget 2, pins, loads of one frame, fair | admission by priority; preemption and retry end |
| `resource_views` | 3 views of 2 collections, the same costs and budget, plans over it | readers are current, loads are wanted, values disposed of once, the plan admitted whole |
| `resource_refusal` | violation | finding 2 |

Three keys are a victim, a survivor and one of the other cache; one late completion is
enough to meet the reload of its key; two attempts make the second back off after the
first. Plans hold pins and a key demanded twice; the assumption that they are sorted is
the comment on `reconcile`. Fairness: the UI calls `step` in every frame
whatever else it calls (SF on `Frame`), a call returns, and a load that is left alone
is answered some day (SF on `AnswerOf`, per key). `Latency` is 1 in `resource_settle`
and `resource_refusal`: a load takes longer than a frame, as every network read does.

A controller of its own, whose plan is over the budget, can lose entries of that plan in
every `reconcile`: with costs 1, 2, 1 and a budget of 2 a demand too large for what it may
evict evicts less important entries of the same plan all the same (`hazards`, line 178).
`ResourceView` cuts its plans, and `PlanAdmitted` shows that this suffices.

Finding 2, `resource_refusal`: at `maxConcurrent` the step cancels the least important
load before it asks the chosen loader; if that one declines, the cancelled load is
started afresh in the same frame, and never completes.

### Views

`ResourceView` extends the cache with `resource-view.ts`, the controller the framework
offers: components open and close views, and one frame hook plans every collection, steps
the scheduler and flushes. `views` and `demand` are the open views and `view.wanted`;
`at` and `turn` say how far the step is (`rest` between frames). A reader is an effect that
shows one key in one view. It hears of its view's set of keys or of the key's lane
(`lanes`, `dirty`), and runs when the batch ends (`told`): `shown` is what it read last,
and whether that read went through a lane. Solid's batch is external: effects run once,
after all writes. The notices of the cache, which `ResourceCache` leaves out, are `Work`.
`CreateCollection` and `DisposeCollections` run between frames: a collection disposed of
closes its views and may be created again, with no view.

`resource_views`: `v1` and `v2` share `k1`, which either may drop for the dear `k2` while
the other still wants it; `v3` of the other collection competes for the load slot. Loads
may fail, and the application invalidates, clears and cancels between frames, and disposes of a
collection or of all.

Left out: limits on views, selectors, and an accessor that throws or demands more than `maxDemandsPerView`. Of the last the code makes a
case that no document speaks of: if the second collection's accessor is over its limit,
`step` throws after the first collection was planned and before anything is flushed, so its
readers show values already disposed of until a step goes through
(`resource-view.ts:97-111`, `159-169`).

## Gestures

`Gestures` models `gesture-core.ts`: one pump a frame over the contact pool, which
calls the application at twelve places, and an application that calls back. `todo`
is what the running frame, and the calls it is nested in, have still to do, first
item first; each loop of the code is a run of items, tested when their turn comes
(`Due`) as the loop body tests them; `Do("app")` is the application inside a
callback. `flags` is the flag byte of a recognizer and slot, `pair` and `pinch` the
slots of its pinch, `track` the pool. Whether a contact moved, or passed a slop or a
deadline, is free within what motion allows (`MayPinch`). `heard` (what a recognizer was
last told of a contact, `Hears`), `won`, `basis`, `pinched` and `missed` (whom the last block
passed over) are history; only `basis` guards, to keep a pinch from starting without
motion where the code's geometry would not. `Reentrant` holds the callbacks in which the
application may call back; "unmount" in it lets it also unmount there.

`Unmount` is the disposer of `render` (`index.ts`): `resetGestures` frees every slot, then
the components dispose of their recognizers; `Mount` resets again and registers the next
one, for which contacts still on the screen begin anew.

Left out: velocity, axis locks and slops as numbers, a contact twice in one snapshot.

`gestures_pump`: two slots for three contacts, so that slots are recycled in one
frame; two recognizers and a third that may be registered, which all pan and pinch, so
that a claim has a loser and a loop has one behind it to pass over (a third mounted from
the start multiplies the states by two and is left to the proofs); one call of the application, in any of the twelve callbacks or between frames,
blocks held or not at the start; three frames, which a pinch needs to form, start and
end.

Finding 3, `gestures_block`: `pushTouchBlock` runs over the live array of recognizers
(`gesture-core.ts:766`). A recognizer that disposes of itself while the block ends its pinch
is spliced out, and the loop passes over the next one, whose contact goes on under the
block. It takes two calls, the push and the dispose, and a third contact that nobody
claimed; with one call `ModalMutes` holds (`gestures_pump`), and `BlocksMute` proves for any
number of calls that only those passed over (`missed`) keep a contact.

Overtaken callbacks. `onDown` is told in a loop over the new contact's owners
(`gesture-core.ts:451`) that does not test whether an earlier `onDown` of the loop cancelled
the next owner. That one is told `onCancel`, then `onDown`, where
`site/content/docs/api.md:941` has cancellation terminal. In `heard` that is "lateDown": it
begins nothing. Likewise a cancel made in an `onUp` reaches owners that have had theirs
("lateCancel"), and a pan's end is told after it; and a pinch cancelled in the callbacks that
precede its start has its end told first. `QuietAfterEnd` and `PinchesPaired` allow these
and nothing else.

Unmounting. The run lets the application unmount between frames, where the repository does:
only tests call the disposer of `render`. With "unmount" in `Reentrant`, TLC finds the pool
corrupted: a callback of `finishTrack` that unmounts has `resetGestures` free every slot, and
`releaseTrack` then frees its own again (`gesture-core.ts:781`, `396`), so `liveCount` is -1.
With one contact down it is then 0, the next pump returns early (`659`), and the lift of that
contact is not seen until another one goes down: `NoStrandedPress` fails.

A callback of `recognizePinches` that disposes of two recognizers makes its loop read past
the array and throw; the rest of the frame is then dropped (`PinchBounds`, reached with
`MaxCalls` 2; the theorems hold with it). No document speaks of it.

## Model tasks

`ModelTasks` models `model-tasks.ts`. What a segment does is free: it may start and
cancel calls of `Callees`, then wait as one of its `Plans` says, or return; a segment
runs inside what started it, so `todo` is the stack of unfinished segments and of the
resumptions a boundary still owes. A frame is `Boundary` (answers are taken, readiness
is frozen for every call), the resumptions, `Handler`s and unmounts, and the `Drain`
of the command queue; then the host works and may answer (`Deliver`) what it was asked
for, also late, twice, or from inside the command. `requests` is `pendingRequests`.
Waiting for frames, a time or a predicate is one kind of wait some boundary finds
over.

`selfish` is history: calls cancelled while their own segment ran. The code lets such a
call go on (hazard at line 155): it may end as done, or register waits that are never
released. The model has this, and the properties except these calls where they must.

Left out: values and traces, `command` and its log, `all` and `any` inside each other,
a region mounted again. A join that may start no further call (`MaxCalls`) ends a run.

`model_tasks`: `f` of region 1 awaits `g` of region 2, alone, twice at once (the second
call cancels the first), or wrapped in a race with a time; `g` waits for two answers
of a service with room for one, or for an animation, and may start or cancel `f`. Two
calls of `g` with two waits each make keys that differ in each part; one spurious
answer is enough for a wrong one.

## Service and offload clients

`Services` models `offload.ts` and, on top of it, `service-client.ts` with the
companion transport, as the pumps of a frame run them, in either order of registration
(`first`). `at` is where in the frame, `pump` what the running pump has on its stack,
`calling` that a completion of the application runs, which may do anything the
application may do between frames. The link is external: `session` comes and goes at
any time, records are refused for want of credit, and `Take` hands over a reply to
anything ever accepted, or none. Deadlines are kept as frames left, so frames need no
bound. `history` counts what came of every request and work.

Left out: the mailbox and HTTP transports, files, malformed records beyond "an error",
an exception thrown by a completion, a host that reports offline as a negative session
(then the service client takes the first session after it for a lost one and fails the
works sent in it, `service-client.ts:69`).

`services_link`: two pending requests, two works, three requests ever (a command, its
poll and one in their way), two connections; the work's deadline lies beyond a
request's, as 3600 frames lie beyond 600. Fairness: frames go on and completions return
(weak on `Run`), which the frame loop of the host provides; the link owes nothing.
`WorkAnswered` does not rest on the bound of requests: the deadline of a work is served
whatever else is pending.

That is not so for a request alone: `step` fails expired requests only if no reply was
delivered in that step (`offload.ts:71`), so a client that keeps a reply coming every
frame postpones the 600 frames of docs/OFFLOAD.md:23 for all others. The bound on requests
ends such a run, and no liveness is claimed for single requests.

## Proofs

Every theorem holds for all values of the constants that satisfy the module's named
assumption (sizes are naturals, positive where the code's are, registries are well formed,
contacts are finitely many, a controller's plans are sorted sequences of demands, what a view
asks for is of its collection, a wait has a member), and for behaviours of any length. TLC
checked each inductive invariant on the instances of the runs first.

| Module | Theorems |
|---|---|
| `WorkerCoreProofs` | `TypeCorrect`, `Inductive`, `PayloadsStayPut`, `VerdictsAreHonest`, `TablesAgree`, `StreamsAgree` (inductive), `SleepLosesNothing`, `NothingNativeIsFreed`, `StreamsAreContiguous`, `FactsStayInside`, `CoreKeepsPromise` |
| `CoordinatorProofs` | `Inductive`, `Remembered`, `RestIsQuiet`, `HistoryIsHonest`, `HistoryIsShown`, `BorrowsAreReported`, `UnwoundIsDestroyed`, `Refinement` |
| `ResourceCacheProofs` | `Inductive`, `Budgets`, `LateIsIgnored`, `AttemptsAreFailures`, `ValuesAreOwned`, `WorkIsWanted`, `ImportantFirst` |
| `ResourceViewProofs` | `ViewsInductive`, `ViewsShowTheCache`, `OnlyDemandLoads`, `ViewsOwnValues`, `PlansFit` |
| `GesturesProofs` | `GesturesInductive`, `PressesEnd`, `EndsAreQuiet`, `OneWinner`, `PinchesEnd`, `MutedInductive`, `BlocksMute` |
| `ServicesProofs` | `Inductive`, `OnceAndOnce`, `OneAsks` |
| `ModelTasksProofs` | `Inductive`, `WaitsLive`, `HostFollowsCalls`, `AnswersOwn`, `CancelFinal` |

**Worker, requests.** `IInv == TypeOK /\ HandleInv /\ SlotInv /\ PayloadStable /\
HonestVerdict`. Neither `PayloadStable` nor `HonestVerdict` is inductive: that a payload
stays needs that an id is in at most one slot, that ids in use are below `nextId`, and
that a slot's `started`/`nativeDone` flags agree with the driver; that verdicts are honest
needs that a slot's status agrees with `started`, and its `observed` with the guest. That
is `SlotInv`. Closing a handle must leave no request without a verdict for `NativeClose`
to keep it (`Reclaim` of an unanswered request would lose it): that is `HandleInv`, which
also says the owner is inside close only of a closing handle. The proof has one lemma per
action and per part; actions that leave the request table and its history alone share the
lemma on `Steady` and `Untouched`.

**Worker, streams.** `Streams` goes beside `IInv`. For `Contiguous` and the refinement the
events of a handle in the ring must continue its stream one by one (`StreamsTile`): from
what the guest expects next, through every DATA in the ring, to the slot's tail, where a
pending gap begins. That a step of one handle leaves the streams of the others alone needs
handles in one slot each (`HandlesAgree`), ids unheard of until they are issued
(`Unheard`, `FreeZero`), and ring entries that name handles in use and lie within their
offsets (`EventsInside`). A verdict comes before END only if a request keeps its handle
until it is answered (`RequestsAgree`). `SleepsOnlyWhenDone` is decided at one place and
must survive every step of a producer while the owner sleeps: whatever makes
work also sets the wake flag (`RestsOK`). Steps of a slot share `StillKeeps`, `OneHandle`,
`OneSlot` and `LeftHandle`, steps of a request `RequestsFollow` and `OneRequest`.

`CoreKeepsPromise`: `Submit` is the promise's Accept, `Dispatch` its Run, `Finish` its
Finish; in `observe`, completions are Answer, READY is Ready, DATA and GAP are Advance, END
and CLOSED themselves; every other step stutters. `next` is mapped to 0 for a handle
without READY, as the run does.

**Coordinator.** The theorems have one hypothesis, `NoDropPanic`: no driver call unwinds
inside a `Drop` that an error started. It is needed: `coordinator_drop_panic` is a
counterexample without it (finding 1). Drivers may still return, fail or unwind everywhere
else. `HistoryIsShown` has a second one, `Orderly`: no driver
call unwinds, or no display moves pixels (moved pixels, above). `IInv` says, for every place (`pc`, `phase`, `at`) of a call, of its error paths and of
its guards' drops, which of `pending`, `deferred`, `transfers`, `rendering` and the borrow
list hold what, and that the hardware agrees (`issued`, `drawing`, `reading`): none of the
properties is inductive, for each speaks of the places between calls and is broken and
mended in between. `NothingForgotten` rests on `IssuedOK` (what is issued is held in a slot,
but for the render that unwound, until its renderer is destroyed); `HistoryHonest` on
`AccountedOK`: while the frame has not failed, or the history claims to be valid, a
stale strip is held by a submission or still to be drawn. `HistoryIsShown` adds that
nothing is torn (`Untorn`). `Refinement` maps each driver call to the step of
`FrameContract` of that name and everything else to a stutter.

**Resource cache.** `IInv` is `TypeOK`, the four `…OK` parts, `EntryOK` per key, `BudgetsHold`
and `NoIntruder`, at all four places of `pc`. `BudgetsHold` (accounts are exact) needs that
an entry is charged if and only if it is busy, that only desired residents are busy and
that residents hold their cost. `NoIntruder` needs that a generation
matches the completions of one load: the flight of a waiting entry has its generation,
and every withdrawn one still out, of which there are at most `MaxLate`, has another
(`FlightsOK`).
`WithdrawKeeps`, `HaltKeeps` and `DropKeeps` are what cancellation, failure, eviction and
preemption share. The costs of the residents are a fold: `FoldLemmas` has what a sum over a
finite set gains or loses by one member, proved through the minimal elements of a
well-founded order, since induction theorems with operator parameters are out of reach.

`ImportantFirst` is about a whole `reconcile`. While it admits, `AdmissionOK` says of every
demand already looked at that it has its place or is `Unfit`: what is protected from it
leaves it no room. It stays so because demands come in order of importance (`PlanSorted`), also after
duplicates were merged at their first place: the victims of a later demand
are never among what is protected from an earlier one, and what is admitted later is
protected from none of them, so what is protected only grows (`UnfitGrows`).

**Views.** `ViewInv` puts beside the cache's `IInv`, at every place of a frame: who has a plan
(`OpenOK`), that every demanded key has a lane (`LanesOK`), that a reader which does not
show what its view would answer is about to run (`ReadOK`: told through its view, or through a
dirty lane its last read went through), that only demanded keys are wanted of the cache
(`WantOK`), and what a plan is while it is admitted (`PlanOK`). Between frames nothing is told
or dirty (`RestOK`), so `ReadersCurrent` is what is left of `ReadOK`, and `LoadsWanted` of
`WantOK`. The steps of the cache are those of `ResourceCache`, so `IInv` is kept by its lemmas;
what is new is that a step changes what a reader would read only of keys it notifies
(`ReadKept`), and wants nothing new (`WantKept`). `PlanAdmitted` has two halves.
`FittingFacts`: what is taken from the union by the cache's own costs is within both budgets. And
an eviction takes only what the plan does not hold (`Spare`, `EvictSpares`): whatever of the
plan has its place already, and the demand at hand, fit together, so that if the cache is full
there is something else in it. That the cut is by priority (`Ahead`) needs no induction
either: `ByPriority` puts each demand behind as many as are ahead of it.

**Gestures.** The theorems have one hypothesis, `StaysMounted`: no callback unmounts the
application. Nothing in the repository does; the counterexample without it is described
with the run above.
Nothing else is bounded or excluded: contacts, slots, recognizers, regions, frames and
calls are any, and all twelve callbacks may cancel, dispose, register, block and unblock as
often as they like (the keyboard of `osk.tsx` acts in `onDown` and `onUp`).

None of the properties is inductive: each speaks of what the pump has told so far, and a
callback in the middle of a loop changes what the rest of the loop stands for. `GInv` says
what that rest, `todo`, may hold. `OrderOK` is its shape: items in the order of their
`Rank` (what calls start; the end of a contact; what is new; a frame's gestures), the
callbacks that must be told at once at the head (`HeadsFirst`), one item of each of
those that act once (`Distinct`), and never the end of two contacts, or of one contact and the
gestures of another (`Apart`). What a call puts in front ranks lowest, so the order
survives every callback. On it rest, per recognizer and slot, `HeardAt` (who observes a
contact heard `onDown` or is about to, who heard it observes or is about to hear the
end, and `onUp` comes once), `WonAt` (a contact won is claimed, its claim is the next thing to be done,
or it ends), per item `ItemOK` (what an item that was queued takes for granted when its turn
comes), and per recognizer `Held`, `EndsAt`, `StartsOK` (a pinch has two contacts,
its own, and goes from start to end whichever contact goes first). A recognizer a dispose
removed keeps nothing but a cancel that is due (`FlagsOK`); one a mount left behind keeps
flags of slots that are free (`UnmountOK`). `Turn` is one item, and `Fires` what is known when
it is its turn: it is due, and what was in front of it is not. The steps share `PushKeeps`
(whatever a call or a callback puts in front), `UnmovedSame` (what changes no contact), and
`LaterKeeps` (what leaves gestures of the frame to do later).

`BlocksMute` proves `MutesAllButMissed`, which is `ModalMutes` where nobody was missed; without
that, finding 3 refutes `ModalMutes`.
`MInv` adds to `GInv` that while blocks are held, whoever observes a contact is exempt, was
missed, has a cancel in `todo`, or stands in the list at or behind the place to which a
block being pushed has come (`MuteOK`, `Ahead`). A dispose under such a block moves the list by
one place: who slips from the block's place to before it is `missed`, everybody else stays
ahead (`OmitPlace`).

**Services.** Neither property is inductive. `AnsweredOnce` has a record accepted at most
once; a step keeps that only if a request still unsent was never accepted, and if a number
not issued yet has no history (`RequestOnce`, `WorksOnce`). `BusyIsAsked` counts the
requests of a work; what ends with a request, or begins, is known only if the one request
of a busy work is unique and requests belong to works that were begun (`WhoAsks`,
`AskersOnce`). `IInv` is their conjunction with the types; `Inductive` proves it, with one
lemma per action and shared lemmas for beginning and ending requests and works
(`IssueRequests`, `EndRequests`, `EndWorks`).

**Model tasks.** `IInv` has three parts beside the types. `CallsOK` describes a frame in the
middle: only the last call of a function lives, it waits or has an item on the stack
(`CallOK`); a call has one item, and only the first item begins, restarts or cancels
(`Ordered`); a call in its segment has nothing registered, one that registers has what came
before (`Held`); a call that waits has something registered, and if it awaits a cancelled
call its own cancellation is the first item (`WaitsOK`). `WaitsAreLive` is `WaitsOK` with an
empty stack. That a cancellation leaves no live call behind that awaits a cancelled one is
the closure of `Cancelled` (`CancelledAre`), which is a least set and not a recursion so that
it can be reasoned about. `AskedOnce`: a request is asked once, for a call never goes back to
a wait it has passed (`Forward`, `Passed`), so an answer cannot be that of an earlier
asking, and the drain never opens again what was answered. `HostOK`: what the host works on,
or a queued command asks for, is registered or has a withdrawal queued behind it;
`HostFollows` is that with an empty queue, its bound an injection into the region's reserved
requests. The steps share `CancelKeeps` (whatever cancels), `OwnKeeps` (whatever the first
item's call does by itself), `DropsHost` and `QuietHost` (what releases, and what does not).
`CancelFinal` needs that only a live or selfish call has a segment to complete (`Held`).

**Model-checked only.** Liveness (`AnswersEventually`, `ClosesEventually`, `StopsEventually`,
`CallReturns`, `ReadsSettle`, `WorkAnswered`): out of the prover's reach.

## Not modelled

What is left of the partly modelled components is named in their sections. Of the others,
the plan's item 5 lists what TLC can check and is still to be written. Out of its reach are
layout, animation, drawing, rasterizers, GPU back ends, text, physics and VRM (numbers), the
compilers (programs as data), parsers and ABI adapters (bytes), and renderers of Solid, Vue
and Octane (their schedulers are not in the repository). Apps, tools, the site and
per-device programs hold no logic the framework relies on.

## Running

`tlc -config <run>.cfg <module>` with the modules of `PROJECT.json` "runs"; `tlapm M.tla`
for the proofs, with every module whose name is in the table above (`FoldLemmas` has no
theorem of its own there). Each mutant in `PROJECT.json` replaces a definition by its
slip (operators marked `Slip`), and the property named must fail.
