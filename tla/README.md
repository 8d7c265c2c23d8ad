# A verification project for cosignals

`packages/cosignals` is a signal engine (atoms, computeds, effects) whose
writes can be made inside React transitions.  Such a write does not touch its
atom: it goes into a *draft*, only the transition's own render passes see it,
and it reaches the base state when every root the transition was sent to has
committed it.  `packages/cosignals-arena` is the same engine over records in
typed arrays.  This directory holds TLA+ models of that machinery, TLC
configurations that check them, and TLAPS proofs about the draft store, the
poke walk, the React host, the effect lanes, the subscriptions and the signal
graph.  Paths below are relative to `packages/cosignals/src`, or to
`packages/cosignals-arena/src` where the text says so.

## Inventory

| Part | State | Operations | Talks to |
|---|---|---|---|
| Drafts and rebase logs (`worlds.ts`, write paths of `signals.ts`) | `liveDrafts`, a `Draft` per transition (lifecycle, written atoms), `rebaseLogs`, the atom's base value | `openDraft`, `appendDraftIntent`, `appendUrgentIntent`, `pokeRebasedAtom`, `retireDraft`, `discardDraft`, `releaseDraft`, `setAtom`, `updateAtom` | the graph's wave and poke walk; the host decides when to retire |
| Poke walk (`graph.ts`) | the pass number, a stamp per node, cursor and frame stack, the wake list | `pokeDraftWatchers` | subscribers' callbacks; the cutoff of `worlds.ts`; the flush |
| React host (`react/host.ts`, `CosignalsProvider.ts`, `transitions.ts`) | root connections, a record per hosted draft with its recipients, each root's committed ids | `ambientClassifier`, `broadcastDraft`, `registerRootConnection` and its cleanup, `confirmRootCommit`, `worldsReducer` | React's update queues and commits; `retireDraft` |
| Signal graph (`graph.ts`) | links, staleness flags, change clocks, observer counts | `writeAtom`, `propagateWave`, `ensureFresh`, `recompute`, `addObserver`, batches | effects, world resolution |
| Effect lanes (`graph.ts`, lane pump of `host.ts`) | three lane queues with a cursor, the render-notify double buffer, pump requests | `scheduleWatcher`, `drainLane`, `flush`, `requestLaneDrain`, `repumpDeferredLanes` | effect handlers, which write, dispose and flush again |
| World resolution (`worlds.ts`) | world memos with certificates, revisions, the change clock | `worldOf`, `resolveState`, `memoValid`, `changedInCutoffWorld` | render passes, the poke walk's cutoff |
| Subscriptions (`react/hooks.ts`, `correctSubscription` of `host.ts`) | delivered ids, the repair flag, what was rendered and committed | `useSignal`, `useIsPending`, draft wakes, render notifications | the poke walk, the host, React |
| Async values (`asyncs.ts`) | a box per thenable, suspensions, parked nodes | `trackThenable`, `settle`, `baseUse`, `finishCompute` | the graph, world resolution, Suspense |
| Records of the arena (`graph.ts` of `cosignals-arena`) | numbered records with flags, pins, generations and clocks, a free stack, links by number, lane queues of (record, generation), a registry for the finalizer | `allocNode`, `unpinDep`, `makeEffect`, `disposeEffect`, `observeNode`, `disposeWatcher`, `drainLane`, `flush`, `reclaimNodeRecord` | handles of the program; the garbage collector; callbacks that create and dispose |
| Tracer, debug, SSR, testing | recorded events, names | observers and serialisers | read only |
| The rest of `cosignals-arena`, `devtools`, benchmarks, playground, `libs`, design notes, scripts | - | the same protocols again, tools and documents | - |

What is hard here is not data but order.  Drafts overlap and do not commute;
urgent writes land between their intents; equality cutoffs make some writes
invisible in base and visible in a draft; a retirement folds values in a batch
whose flush runs arbitrary effects before the draft is released; roots commit
the same transition in different passes; subscribers come and go between a
walk and its deliveries; and callbacks of the program may throw out of any of
these.  `PROJECT.json` lists the places one by one under `hazards`.

What makes each part correct:

- drafts: every reader sees its own branch, however the others end; the base
  plane and the log never drift apart; nothing a reader shows changes without
  a notification; nothing stays behind when no transition is pending;
- poke walk: everybody downstream is reached exactly once, in finitely many
  steps, and the value cutoff silences exactly whom it should;
- host: a draft retires once every root it was sent to has shown it or has
  gone, and it does retire;
- graph: a read is always the value a recomputation from scratch would give;
- lanes: an effect runs for every settled change, once, cleanup before
  handler, in the lane it asked for;
- worlds: a memo is served only when recomputing would give the same;
- subscriptions: what is on screen is current or a re-render is on its way;
- async values: no suspended render is retried against an unsettled graph or
  forgotten;
- records: whoever holds the number of a record holds the record it means, and
  what a record's last owner was owed is neither delivered to nor taken from
  the next.

## Modules

`BranchingStore` is what the draft store promises: one value per atom and per
*set of draft ids*.  Opening a draft, writing in it, an urgent write, retiring
and discarding say how each branch changes and which atoms' subscribers hear of
it; there are no logs and no base.  Every other step of the store is `Quiet`:
it shows nothing, so a release that moved a branch could not pass for a write.

`Drafts` is the store itself: `draftState` (`Draft.state`), `written`
(`Draft.atoms`, in order), `log` (`rebaseLogs`), `base` (the atoms' values),
and two ghosts of the call stack: `releasing`, the drafts whose retirement or
discard has announced its end and not yet reached `releaseDraft` (so that what
a flush's effects do lies between the two, at any nesting), and `told`, what
the last step announced.  An intent's payload is a function on `Values`; a
callback that throws on a value maps it to `Thrown`.  `EffectsThrow` lets a
callback run by a flush throw: out of a retirement (`abortRelease`), between
the pokes of a discard (`abortDiscard`), between the poke and the wakes of a
drafted write (`abortAppend`), or between the pokes for the drafts of a log
that an urgent write moved (`abortRebase`).  `leaked`, a history variable, are
the atoms whose logs a throw has kept from their release.  Each loop over atoms
is one step: the loop of a retirement runs inside one batch, and the pokes of a
discard only repeat a notice.

`DraftsProofs` holds the theorems about its history and about what readers see.
`MCDrafts` gives its instances.

`PokeWalk` is `pokeDraftWatchers` one iteration at a time: the cursor `cur`,
the link `next`, the frame stack, the verdict `changed`, the pass stamps, the
render-notify queue and the wake list; then the flush, which may dispose any
subscription when the caller is not in a batch, and the wakes.  The cutoff's
answers are arbitrary but consistent with the graph.  `PokeWalkProofs` has its
theorems.

`ReactHost` is the bookkeeping of drafts and roots.  React itself is a queue
of dispatched ids per root and a commit that takes any of them; the reducer
accumulates the live ones.  The loops of `confirmRootCommit` and of the
registration's cleanup take one step per record, because a retirement runs
effects that may open drafts while the loop is under way.  `confirmed`, `left`
and `aborted` (a callback has thrown) are history variables.  `ReactHostProofs` has
its theorems.

`EffectLanes` is the scheduling of effects.  A drain is a frame on the call
stack (`stack`, top first): the lanes its call still has to drain (`todo`), the
phase of the round (`pull` is the loop head with a nonzero `head`, `enter` the
call before it), the round's entries that are left, and those whose cleanup has
run (`kept`).  `queue` holds the entries beyond the cursor; `head # 0` is
`Draining`.  Program code runs at the bottom of the stack and in the callback
of the top frame (`busy`), and may write, dispose, drain, throw, and let React
commit, so drains of one lane and of several nest in every way.  A write is one
action with its wave, its requests and the call of its flush; the pulls of a
round are one action because nothing they run may write.  The pumps are
counters of queued microtasks and timers; a host's commit is a layout drain and
then a passive one.  One atom stands for the graph, since scheduling only sees
which effects are stale and whether a settled value differs from the handled
one.  `dropped` is a history variable.  `EffectLanesProofs` has its theorems.

`SignalGraph` is the base plane: change clocks (`changedAt`, `validAt`), the
staleness bits (`mark`), value slots and async states (`cache`, `async`),
dependency lists (`deps`), the `Watched` and `Scheduled` flags, and a box per
promise (`status`, `parkedNodes`, `parkedSuspensions`).  The subscribers of a
node follow from the dependency lists of what is watched.  A pull runs one step
at a time on `stack`: a frame validates a node (`ensureFreshAt`, which
`chainResolve` repeats for chains) or evaluates it (`recompute`), and its body
reads atoms, computeds or thenables one by one, with `trackRead`, `trimDeps`,
promotion and demotion.  When the stack is empty the program may write, read,
subscribe, create, dispose, or have a promise settled, and the scheduled effects
and subscriptions are run in any order: batches, deferred lanes and flushes are
such orders.  A program is a *shape* of `MCSignalGraph`: a body per node, a
function of what it has read, which may read different nodes in different runs,
throw, meet itself, or await.  `Current` is what evaluating everything at once
would give.  `SignalGraphProofs` has the theorems about the graph, and
`SignalReadsProofs` those about what it serves and whom it tells.

`WorldMemos` is the other half of `worlds.ts`, on the drafts and logs of
`Drafts`: `memos[<<n, W>>]` is the memo of node n in the world of the drafts W,
with its certificate; `Resolved` is what evaluating in a world gives;
`resolveState` stores or revalidates memos; retirement, discard and urgent
writes bump `draftRevision` and the clock in the order of the code; a settlement
resolves the suspensions of pending memos one box after another; `Compare` is
`changedInCutoffWorld` at the next node of the poke of a lone draft, whose edges
are those base has at that moment.  Base is reduced to the outcome last pulled
and its clock reading, as `SignalGraph` is about that.

`Subscriptions` is `useSignal` over an atom.  A hook renders in a pass of its
root, commits, runs its layout effects (`layout`: subscribe, with
`correctSubscription`, then advance the committed stash), is notified and
woken, is rendered again by its parent (`refresh`, in the lanes `RefreshLanes`),
and unmounts; `delivered` and `repairPending` are the flags of its
`UseValueState`, `note` is the render-world note.  The provider, its registered
connection, the audience and the recipients of a draft are those of `ReactHost`,
in the detail a component sees, and the drafts are those of `Drafts`.  A root
registers early (`Early`) or at any time.  `CommitsTogether` and `NoDraftLeaks`
are about the drafts that were sent to a component's root: `CommitsTogether` says
nothing while the component's atom was changed by a draft that was not
(`SentHome`), and of others the findings tell.  React is
modelled from its use: a queue of updates with lanes, a pass that takes the
updates of its lanes and may yield, be dropped or be rendered again, and a
commit.  `guests`, a history variable, are the components that mounted with ids
nobody delivered to them.  `DraftReadersProofs` has its theorems, and after them
those about `WorldMemos`.

`ArenaRecords` is `cosignals-arena/src/graph.ts`.  `core` is what the closure of
`createGraphCore` holds: `id[n]` is the record of a handle (0 while it is
detached), and flags, pins, generations, links and clocks are per record; the
operators that take a core are the functions of the file.  An evaluation is an
operator, as bodies are pure here; a handler, a cleanup and a notification are
frames on `stack`, in which the program may do what it may do outside.  A drain
is a frame that goes through its three phases; a disposal is a frame over its
children and its cleanup, because those run program code before the record is
released.  A queue entry has the record, its generation and, for the properties
and the handles the drain keeps between phases, the effect it was meant for.
`registry` is what the finalizer would reclaim, `life` whether the program still
holds a handle.  `robbed` is a history variable.

`Lists` has the three helpers on sequences that the modules share, and
`DataLemmas` the facts about them, about least elements and about recursive
functions that the proofs of several modules cite.

The `MC` modules give the instances; `MCSignalGraph`, `MCWorldMemos` and
`MCArenaRecords` also hold the programs.  In every module a definition marked *slip* is a plausible mistake
in the operator after it; the mutants of `PROJECT.json` put it in place and
expect the property to fail.

## Runs

| Run | What it checks | Instance |
|---|---|---|
| `branches` | `TypeOK`, `BaseIsReplay`, `LogsStartOpen`, `WrittenIsLogged`, `NoSilentChange`, `ImplementsBranches` | one atom, three drafts, values in equality classes, flushes may throw |
| `poke_walk` | `TypeOK`, `MissesNobody`, `WokenOnce`, `ProbesHearAll`, `WalkEnds` | every graph of a root and two computeds with every subscriber order, a subscriber, a probe and an effect, two passes |
| `host` | `TypeOK`, `RecipientsAwaited`, `NeverStranded`, `CommittedStaysShown`, `RetiresTogether`, `EveryDraftEnds` | two roots that mount, hide, return and leave, two transitions; a poke or a retirement may throw |
| `lanes` | `TypeOK`, `QueuedOnce`, `NothingForgotten`, `CleanupsPaired` | two effects in every pair of lanes, two writes, one host, callbacks may throw |
| `lanes_settle` | `EffectsSettle` | one effect in each lane, two writes, two hosts, callbacks may throw |
| `graph` | `TypeOK`, `ReadsAreCurrent`, `NobodyMissesAChange`, `StaleIsHeard`, `Acyclic`, `ParkedIsAwaited` | seven shapes of two computeds over two atoms, an effect, a subscription, two thenables, four suspensions |
| `memos` | `MemoServesCurrent`, `NeverServesSpent` | two drafts, a computed that awaits a promise, one that reads it, one that is not observed |
| `subscriptions` | `ScreenIsCurrent`, `CommitsTogether`, `NoDraftLeaks`, `RepairsAreNews` | two hooks in one root that registers at any time, a second root, two drafts, two intents, re-renders by a parent in the first draft's lane |
| `arena` | `RecordsAreOwned`, `RunsAreKept` | seven programs of up to four handles among two cells, a computed, five effects of two lanes and a subscription; two to four readings of the clock |
| `effects_deaf`, `arena_takeover`, `memos_cutoff` | one statement of a comment each, found violated (see Findings) | a small instance that shows it |

The bounds.  `MaxIntents` is the length of a log: two intents of different
drafts already do not commute, and give a log a dead prefix before a live
intent, or a live one before an urgent tail; what longer logs add is left to
the theorems.  Three drafts let one end on each side of a survivor.  What a loop
over several atoms leaves undone takes two: `MCDrafts_atoms.cfg`, run by hand,
checks `TypeOK`, `LogsStartOpen` and `WrittenIsLogged` with two atoms and with
updaters that may throw, and the theorems about the three assume neither.  Two
computeds over a root give chains, siblings and a diamond; two passes let stamps of an earlier walk meet a
later one.  Two roots and two drafts let every order of commits, departures and
late arrivals happen; a third draft was run once without a difference and takes
ten times as long.  Two effects that share a lane or not, and a second write
from inside a callback, give every way a drain can meet another; the lanes are
chosen by `Init`, so one run covers all of them.  In `graph` the program bounds
the clock (`MaxClock`) and names the atoms it writes (`Written`): each shape
gets as many writes as its interesting case needs (a branch switched and
switched back, an error recovered from, a promise replaced while its
predecessor is pending), and four suspensions, which are reused once nothing
refers to them, let two computeds park twice each.  In `memos` two drafts give
three worlds, and a draft that is alone before it meets the other.  In
`subscriptions` two hooks of one root tell a pass from what it commits; their
root registers before, between or after the drafts, and the second root is
there from the start and holds a transition open.  The two hooks are alike, so
their permutations are a symmetry (`Alike`).  Re-renders by a parent are in the
lane of the first draft; with those in the urgent lane as well the instance was
run once, with three times the states and the same result.  In `arena` a program
is the handles it touches (`Touches`), chosen so that two handles can have one
record one after the other: effects of one lane and of two, an effect and a
subscription, a newcomer in the middle of a drain, a cell whose links come and
go, a computed that is collected.  A callback may run inside the program, not
inside another callback (`MaxDepth`), but what it calls may flush, and batches
are opened outside callbacks.  An execution stops where a disposal reaches an
effect whose disposal is under way (`Redisposes`, see Findings).  `MaxDrafts`,
`MaxIntents`, `MaxPasses`, `MaxWrites`, `MaxClock` and `MaxPumps` (microtasks or
timers outstanding at once) are the bounds in guards.

`CHECK_DEADLOCK FALSE` is set where the program may stop: when the bound on
drafts, passes or writes is used up, there is nothing left to do.

Fairness.  `PokeWalk` assumes weak fairness of the running walk, which is one
synchronous call.  `ReactHost` assumes weak fairness of its loops, for the same
reason; strong fairness of each queued microtask, which the event loop runs
between any two tasks; and strong fairness of committing a mounted root with
pending ids, because React expires a lane that other work keeps starving.  A
root that stays hidden for ever is not awaited, so it needs no fairness.
`EffectLanes` assumes weak fairness of a drain, strong fairness of the return of
a callback (it may take any number of steps of its own first), of queued
microtasks and timers, of the commit of a host that was woken while it is
mounted, and of the passive phase after it; nothing makes a host mount or stay.
`Drafts`, `SignalGraph`, `WorldMemos`, `Subscriptions` and `ArenaRecords` have no
liveness property and no fairness.

## Findings

Three are runs that expect a violation of what a comment says; `PROJECT.json`
quotes it.

- `effects_deaf`: when an effect throws out of a drain, `drainLane`'s catch
  clears the marks of every effect it preempts, while the computed they watch
  stays stale.  Later waves stop at that computed, so the effect is not
  scheduled again until something reads it.  The comment at `graph.ts:618-623`
  says a stale dependency of a watched edge has a stale or scheduled
  subscriber.
- `arena_takeover`: `flush` clears the marks of every subscription it is about
  to notify through the subscription's record number, without asking whether
  the subscription still has the record (`cosignals-arena/src/graph.ts:2455`,
  against the comment at 3101 of that file).  In one batch a notified
  subscription is disposed, an effect of a deferred lane takes its record, and
  the atom is written again: the flush clears the effect's marks, its lane finds
  it clean and its handler does not run for that value.  `RunsAreKept` is the
  same property of the effects to which this has not happened.
- `memos_cutoff`: in a diamond, comparing the bottom node resolves the node on
  the other path and stores its memo; when the walk reaches that node itself,
  its previous resolution is the new one, it counts as unchanged
  (`worlds.ts:825`, against the comment at 817), and its subscribers are not
  woken with the draft.

Others have a configuration of their own, which TLC finds violated when it is
run by hand (`tlc -config <cfg> <MC module>`):

- `MCDrafts_updater_throw.cfg`: an updater that throws while a retirement folds
  leaves the atoms after it at their old values for good, though readers of the
  draft resolved new ones (`worlds.ts:425`, against `worlds.ts:382-384`).
- `MCDrafts_discard_throw.cfg`: a callback that throws in the flush of one poke
  of a discard leaves the readers of the draft's other atoms unannounced
  (`worlds.ts:457`, against `worlds.ts:438-440`).
- `MCPokeWalk_cutoff.cfg`: with the value cutoff, the walk resumes a subscriber
  list with the verdict of the computed it descended into, so a component that
  reads a changed atom, and subscribed after an unchanged computed of it, is
  not woken with the draft (`graph.ts:1273`, against `graph.ts:1215-1217`).
- `MCSignalGraph_refetch.cfg`: a thenable replaced while its predecessor is out
  leaves a computed offering the suspension that the predecessor's settlement
  resolves (`asyncs.ts:255`, against the comment at 251).  A computed that awaits
  one promise after another meets the same.
- `MCWorldMemos_settled.cfg`: a handler run by a settlement reads a pending
  memo, as `hooks.ts:257` and `host.ts:448` do for a repair; this revalidates it
  at the settlement's own reading of the clock.  When the suspension is resolved
  right after, the memo is served by the fast path of `memoValid` with a promise
  that is already fulfilled (`worlds.ts:765`, against `asyncs.ts:205-209`).
  `MemoServesCurrent` fails in the same instance.
- `MCSubscriptions_guests.cfg`: a component that mounts in a transition's pass
  has the draft's id only through the pass.  `correctSubscription` skips that
  id, so a later urgent render of the component shows base in a root that has
  committed the draft (`host.ts:418`, against `host.ts:395-398`).
- `MCSubscriptions_late.cfg`: a root that mounts after a draft's broadcast is
  outside its audience, but a later write in the draft wakes every subscriber
  of the atom, that root's included, so the component shows the draft in a root
  that never carried it (`host.ts:398-401` says it stays on the committed world).
- `MCSubscriptions_siblings.cfg`: two components of a root hold a draft's id, a
  pass for it yields, and its note expires.  The first component rendered after
  that notes the world of its own ids for the rest of the pass
  (`host.ts:288-299`); the next one resolves there, not in its own ids, and is
  committed without the draft it was handed.  `hooks.ts:174-178` says a
  component's own ids are what it resolves in when its root's provider noted
  nothing.
- `MCArenaRecords_redisposed.cfg`: a cleanup, or a child's, disposes the effect
  whose disposal is running it.  The pin still vouches for the effect
  (`cosignals-arena/src/graph.ts:3124`, against the comment at 3098), so the
  inner call releases the record and the outer one releases it again: it is on
  the free stack twice, and two handles come to share it.
- `MCEffectLanes_handoff.cfg`: `repumpDeferredLanes` passes over a lane that is
  empty at that moment and leaves its `pumpRequested` set.  A host is woken for
  a layout effect, the passive phase of an earlier commit drains the entry, the
  host unmounts before it renders again: from then on no write requests the
  lane's drain, and its effects wait for the next host, which may never mount.
- `MCEffectLanes_disposed.cfg`: a handler disposes its own effect and returns a
  cleanup, which is stored on the disposed effect and never runs.

Throws show more, which the properties allow for: one out of the flush of a
retirement or discard skips `releaseDraft`, so the logs it should have folded wait
for the release of another draft of their atoms, or for the last one
(`leaked` in `LogsStartOpen`; readers are still served correctly, as `branches`
shows); one out of the flush of a drafted write leaves everybody notified and
nobody woken with the draft; one out of
`confirmRootCommit` leaves a root among the recipients of drafts it has
committed until its next commit, which is why `RecipientsAwaited`,
`NeverStranded` and `EveryDraftEnds` speak of executions where nothing was
thrown (`aborted`); `RetiresTogether` holds in the others too.

One shape is kept out of `graph` because it violates what it checks:
`cyclic`, two computeds that read each other, fails `ReadsAreCurrent`.  The
cycle's error becomes the cached outcome of the computed at which evaluation
happened to start, and the outcome of the others depends on it
(`graph.ts:1734`, `graph.ts:1938`).

Reading showed two more that no model holds.  A dependency that a computed has
only in a draft has no base edge, so a poke from it does not reach the
computed's subscribers (`worlds.ts:213-217`; `tests/worlds.spec.ts:501` builds
the case and checks the value alone).  Memos of worlds that no longer exist
stay until the engine is quiescent.

## Proofs

Every safety property of `Drafts`, `PokeWalk`, `ReactHost`, `EffectLanes`,
`Subscriptions`, `SignalGraph` and `WorldMemos` that a passing run checks is a
theorem, for every value of the constants.

| Module | Theorem | Property |
|---|---|---|
| `DraftsProofs` | `TypeCorrect`, `WrittenSetsAgree` | `TypeOK`, `WrittenIsLogged`, with no assumption on callbacks |
| | `HistoryBounded` | `LogsStartOpen`, with no assumption either |
| | `PlanesAgree`, `LogsImplementBranches` | `BaseIsReplay` and the refinement `ImplementsBranches`, if updaters return and respect the equality |
| | `ChangesAreTold` | `NoSilentChange`, if moreover flushes do not throw |
| `PokeWalkProofs` | `TypeCorrect`, `NobodyWokenTwice`, `ProbesAreTold`, `PokesMissNobody` | `TypeOK`, `WokenOnce`, `ProbesHearAll`, `MissesNobody` |
| `ReactHostProofs` | `TypeCorrect`, `WaitsForTheRight`, `NobodyIsStranded`, `ShownStaysShown`, `RetiredTogether` | `TypeOK`, `RecipientsAwaited`, `NeverStranded`, `CommittedStaysShown`, `RetiresTogether` |
| `EffectLanesProofs` | `TypeCorrect`, `FlagIsMembership`, `ChangesAreHandled`, `CleanupThenRun` | `TypeOK`, `QueuedOnce`, `NothingForgotten`, `CleanupsPaired` |
| `DraftReadersProofs` | `NoStaleScreen`, `DraftsStayInTheirRoots`, `NoTornCommit`, `NoIdleRepair` | `ScreenIsCurrent`, `NoDraftLeaks`, `CommitsTogether`, `RepairsAreNews`, if updaters return and atoms compare by identity |
| | `ResolvedIsNotServed` | `NeverServesSpent` of `WorldMemos`, if handlers that a settlement runs resolve no worlds |
| | `MemosServeTheCurrent` | `MemoServesCurrent` of `WorldMemos`, for programs whose bodies end, under the same condition |
| `SignalGraphProofs` | `TypeCorrect`, `ParkedNodesAreAwaited` | `TypeOK`, `ParkedIsAwaited`, for programs whose bodies are well typed |
| | `EdgesStayAcyclic`, `FreshRestsOnFresh` | `Acyclic`, and that what is fresh depends on what is fresh, for the same programs |
| | `StaleNodesAreHeard` | `StaleIsHeard`, if moreover no drain throws |
| `SignalReadsProofs` | `ReadsServeTheCurrent` | `ReadsAreCurrent`, for the same programs, if no read closes a circle and no body reads a node that still waits with a resolved suspension |
| | `NobodyIsMissed` | `NobodyMissesAChange`, if moreover no drain throws |

None of these properties is inductive as it stands.  What each argument adds:

**History of the drafts.**  `WrittenIsLogged` speaks of open drafts only, and a
step that folds a prefix could leave an intent behind whose draft's written set
has been forgotten: `Linked` says that *every* drafted intent in a log has its
atom in its draft's written set, ended drafts included; `Kept` that every atom
an open draft wrote still has one of its intents (compaction stops at the first
live one); `FreshUnwritten` that a draft has written nothing before it opens.
With `TypeOK` they are `HistoryInv`.  `LogsStartOpen` holds only when no flush
is running; `HeadsOpen` says what holds in between: a log whose first intent is
dead was written by some draft on `releasing`, or is `leaked`.  A retirement pushes
its draft and pays for the logs it headed; a release compacts every log its draft
wrote, so the frames further down pay for the rest; a throw leaves what it
skips to `leaked`.

**Branches.**  `StoreInv` is `HistoryInv` with `BaseIsReplay`.  The value of a
branch is the replay of the log for its drafts, so every step comes down to
what an appended intent, a draft that starts to count as retired, or a folded
prefix does to a replay: two replays agree when the same intents apply
(`ReplayAgree`), an updater that respects the equality keeps equal outcomes
equal, and folding moves the prefix into the base that replay starts from.
`ImplementsBranches` follows by showing for each action which action of
`BranchingStore` it is, or that it is `Quiet`.  `NoSilentChange` uses the same
facts about each step and that only branches holding the draft of a step move
unannounced.

**Poke walk.**  `WalkInv` says where the walk still has to go: `Covered`, every
subscriber of a visited producer has been visited or lies ahead of the cursor,
of `next` or of a suspended frame; `PositionsOK`, these positions are links of
visited producers; `Closed`, when the loop ends the visited nodes are closed
under subscription, so everything downstream is visited; `Confined`, nothing
else is; `Told`, each visited watcher has been dealt with; `Uncut`, without a
cutoff no verdict on the stack is false; `StampsOK`, no stamp is ahead of its
pass, so a new pass starts with nothing visited.  Each iteration's move
is one of three cases (`Goes`): on to a link, back to the innermost frame that
has one, or out of the loop.

**Host.**  `HostInv` separates what holds after a throw from what does not.
`UnopenedUnknown`, `ConfirmedIsRendered`, `SentIsQueued`, `RecipientsReport`,
`OpenIsHosted` and `LoopIsEntitled` hold always: whoever is no longer awaited
has confirmed or left, and an id that was sent is queued until it is confirmed.
`ReportIsHeard` holds while nothing was thrown: a recipient that has confirmed
or left is one that the running loop has still ahead.  `RetiresTogether` needs
only the former, so it holds after throws too.

**Lanes.**  `LanesInv` speaks of every frame of the stack of drains.  `Apart`: no
two of them are in a round of the same lane, because a drain takes its lane
only when nobody drains it; hence what a nested drain pulls, runs or clears is
no entry of a round further down.  `FramesSound`: a round holds effects of its
own lane (`Homed`); when the value has moved since its pull, its live entries
are queued again (`Requeued`); the effect whose handler is running has the
value of the pull (`Handed`).  `CleanupsPaired` follows step by step: whatever
leaves a round's second half has run, was disposed, or was thrown over.

**Subscriptions.**  `AllInv` is `StoreInv` with `SubsInv`.  `SubsInv` follows what a
hook has been handed, from its queue into a pass and out of it again, by a
commit or because the pass is dropped or rendered again.  `MarksOK`: a
`delivered` mark or a pending repair stands for an update still on its way.
`KeptOK`: a hook has committed what it rendered last or will render again.
`ScreenOK`: what it shows, and what the pass will make it show, is current, or
an update is queued.  `LeaksOK`: ids under way to a hook are under way to its
root, or their drafts have ended or were never sent to it (`Past`).  `HandedOK`: a hook
that subscribed for itself has been handed every open draft of its atom that was
sent to its root.  `HostsOK`, `PassOK` and `WorldsOK`
say of recipients, of the pass and of the render note what these rely on.  The
steps of the engine are taken once for all (`HookHears`, `HearStep`: what a
resolution loses, the notice of the step makes up for, by `ChangesAreTold`), the
steps of React one action at a time.

**Graph.**  `GraphInv` carries the types through the recursions over the edges
(the wave, promotion, relinking), each of which has a lemma: what a wave reaches
is watched, so alive, and none of them makes a node clean.  `StackOK` says what
a pull has on its stack: a list of reads goes no further than the dependencies
it extends, a validation is of a node that has a value (`FrameOK`), and no two
frames evaluate the same node (`RunsApart`), which is what lets an evaluation
end without disturbing the frames under it.  `Serving`: a clean computed that
neither failed nor waits has a value, so a read of it never serves an empty
slot.  `SettlingOK`: a settlement has a reading of the clock for each node it
still has to handle.  `ParkedIsAwaited` speaks of moments when the program has
control; `ParkedOK` adds what holds in between: a parked node is awaited, or in
the settlement's hands, or under evaluation.  A node that parks takes its own
suspension or one nothing refers to (`SpanIsFree`), so no other node's wait
is disturbed.

**Freshness.**  A computed is fresh when a read serves it without evaluating
anything: clean, and watched or validated at this reading of the clock.
`GraphSound` is `GraphInv` with `Validated`, which says what that is worth.
`Supports`: the computed dependencies of a fresh one are fresh.  `WatchedOK`:
what a live effect or subscription reaches has the `Watched` flag.  `Ordered`:
every set of computeds has one that none of it reads, which is acyclicity in a
form that survives moving edges, because a node only comes to read fresh ones
while it is not fresh itself, and the fresh ones rest on each other only.
`FramesSound` is what makes a pull keep these.  The dependencies that a frame has passed
are fresh (`Passed`); what is validated was not fresh, or was made so meanwhile;
what is evaluated is not fresh, and has a reason that is still to be seen
(`Owed`).  The same node may be validated further down the stack while it is
evaluated on top, since bodies read in any order; then that validation is still
going to meet the reading that moved (`Chained`), so it evaluates too, or throws,
and never calls a node fresh over what the evaluation left.  Promotion, demotion
and relinking keep the fresh ones fresh (`PromotedSteps`, `RelinkWatches`), a write
or settlement takes from them everything that its wave or the clock reaches.
`StaleIsHeard` needs one more fact, `Heard`: a clean effect depends on fresh
computeds.  A drain that throws clears the marks of the effects it preempts and
breaks it; `MCSignalGraph_deaf.cfg` is the counterexample, so the theorem is about
behaviours in which none does.

**Reads.**  `Current` is computed level by level: a node that reads no deeper than
k levels has its outcome at level k.  `Reproducible` says what a cache must have
in common with it: `GraphSound`, and for each computed that is not known to be
stale a *record* (`Recorded`), a run of its body that explains what the node has.
The run asks for dependencies and thenables, each value it got is the one there
is now (`Retraces`), and it ends with the node's outcome: returned, thrown, passed on
from a dependency that failed or waits, or parked on a promise that will tell
(`Concluded`).  A record need not agree with a dependency that has moved since, so it
speaks only of those the node `Heeds`: the node is fresh, or the dependency has not
moved since the node was evaluated, or a validation of the node is past it.  While
a body runs, its frame remembers the same of what it has read (`Remembered`), and
the frame's record becomes the node's when it ends.  A write or a settlement
moves one node, and takes their freshness from all that it reaches; a validation that
ends without evaluating has heeded every dependency; relinking keeps a record
because it keeps the order of what was read.  Where everything is fresh every
node heeds all it read, so the records are the equations that `Current` solves;
the edges are acyclic, so the fresh computeds have a lowest one at each step and
`FreshAreCurrent` climbs them: a set of fresh computeds whose outcomes
level k has, with the one above it, is contained in what level k + 1 has.

**Notices.**  `NobodyMissesAChange` compares what a subscriber was last told with
`Current`, which moves at a distance.  `Attentive` replaces it by what the
subscriber's own surroundings say: a watcher that is neither scheduled nor being
served `Sees` what its node has now, and the node is fresh (`WatchersKnow`); an
effect in that position is clean and has `Handled` its value (`EffectsKnow`).
Together with `Reproducible`, with `Heard` and with a record for every effect, a
node that is fresh has what `Current` has, and so has whoever was told of it.
A write, a settlement and each node it invalidates schedule the watchers
of what they mark (`WaveSchedules`), and what they do not mark was told nothing
that has changed.  While a pull is under way its subscriber is off the
schedule and not yet told; `Attended` says that then its node is fresh or on
the stack, and `PulledOpenly` that no effect is evaluated but on such an
occasion.  `PullSpares` is the lemma about pulls: each step lets a frame end
only with a node that needs no pull, and leaves alone what is fresh and the effects
that are not on the stack.  So the subscriber finds its node fresh at the end,
and nobody else has anything to be told.

**World memos.**  A memo of the current reading of the clock is served without
looking at its suspension, so `NeverServesSpent` rests on what the clock
separates.  `StampedUnspent`: a memo of this reading is of no resolved suspension,
and while a settlement has yet to resolve its suspensions there is no such memo
at all, because the settlement ticked the clock first and nobody reads worlds in
between; a microtask that resolves further suspensions ticks it as well.
`WalksAlone`: the comparisons of a drafted write are not interrupted by a
settlement.

`MemoServesCurrent` compares memos with `Pure`, evaluating everything in the world
anew.  `Resolved` is defined by a recursive function over the points of bodies;
`rank`, which falls along every evaluation, is what makes it exist, and
`EvaluationsAgree` climbs it: two evaluations that have the same outcomes for the
sources in a set that is closed under reads have the same outcomes in all of it.
So it is enough to know that a memo's certificate names every atom below the
node: `Supported`, the largest set closed under what `Pure` reads whose atoms are all
named.  That is what inheriting certificates achieves (`CertificateSupports`), also
where part of a read was served from older memos.  `MemosExplained` then says of
each memo whose named atoms still have the readings named, and which is not
pending after the promise settled: its outcome is that of `Pure`, and it is
supported.  A step that moves what an atom resolves to in some world gives the
atom a reading of the clock that no certificate can have (`AtomMoves`,
`CertificatesPast`), so only undisturbed memos have to be followed; `StampedRests`
says that memos of the current reading, which are served without a look at
their certificates, are undisturbed.  A retirement moves several atoms with ticks
of their own, so the clock it ends with must reach every one of them
(`CountedAreFew`).  The settlement of the promise moves what no certificate names.
`Parking` answers for that: a pending memo with a live suspension is parked on
what it awaits, lower in rank, and whatever is awaited is itself parked or due to
be told.  Once the promise has settled and nothing is due, the lowest
suspension that is still live would be parked on nothing, so there is none
(`NoneLeftPending`): every pending memo is refused, and the others rest on values.

Assumptions.  The ones named in the modules, which TLC evaluates in every run,
and the hypotheses of the theorems:

- `UpdatersReturn`, `UpdatersRespectEquals`: an updater does not throw, and does
  not tell values apart that the atom's `isEqual` calls equal.  The engine
  cannot do without: `MCDrafts_updater_throw.cfg` shows the first, and of two
  equal values base keeps the older one, so an updater that tells them apart
  shows which was kept.
- `~EffectsThrow` in `ChangesAreTold`: with throws the discard of a draft over
  several atoms fails it (`MCDrafts_discard_throw.cfg`).
- No drain throws, in `StaleNodesAreHeard` and `NobodyIsMissed`: it is a statement
  about the steps of the behaviour, and other throws are allowed.
- No `ThrowCycle` and no `ServesStale` step, in `ReadsServeTheCurrent` and
  `NobodyIsMissed`.  The first is a
  read that meets itself: its error is cached where the evaluation happened to
  start (`graph.ts:1734`, `graph.ts:1938`; see Findings).  The second is a body that
  reads a computed whose suspension is resolved although it still waits.  That
  is so after the replaced thenable of the shape `refetch`, and also with an ordinary computed
  that awaits two promises one after the other, once the first has settled.  The
  code does not park the reader then, but
  serves the previous value or throws the promise (`signals.ts:384-393`), which is
  not what evaluating everything gives.  The run `graph` has steps of the first kind
  and none of the second.
- `IsFiniteSet(Producers)`: the graph that a walk traverses is finite.
- `IdentityEquality`: atoms compare by identity, the default of the engine
  (`Object.is`).  With a coarser equality "current" would mean current up to it.
- `BodiesAreWellTyped`: a body reads atoms and computeds, unwraps thenables,
  returns values or throws.  Every shape of `MCSignalGraph` is of this kind; in
  `MemosServeTheCurrent` the same is asked of the bodies of `WorldMemos`, and true
  of those of `MCWorldMemos`.
- `BodiesEnd(rank, most)` in `MemosServeTheCurrent`: from every point of an
  evaluation only a bounded number of steps can follow, so no body loops and no
  computed depends on itself; the code throws when one does.  In `MCWorldMemos`,
  the number of reads left to a body, with those of what it reads, is a rank.
- `KindsAssumption`, `ValuesAssumption`: nodes of different kinds differ, there
  are finitely many computeds and effects, and the empty slot is no value.
- `HandlersResolve = FALSE` in `ResolvedIsNotServed` and `MemosServeTheCurrent`: an
  effect or a subscriber that the settlement of a promise runs does not read a
  draft's world at that moment.  The code does not ensure it: the subscriptions of
  React components resolve there (`hooks.ts:257`, `host.ts:448`), and effects may.
  Then both properties, `NeverServesSpent` and `MemoServesCurrent`, fail, and
  `MCWorldMemos_settled.cfg` is the counterexample; what the theorems show is that nothing
  else breaks them.

Only model-checked.  `WalkEnds`, `EveryDraftEnds` and `EffectsSettle` are liveness
under fairness.  The properties of `ArenaRecords` rest on `RECURSIVE` operators.

## Plan

1. Done: `BranchingStore`, `Drafts`, `DraftsProofs`, `PokeWalk`, `ReactHost`,
   `EffectLanes`, `SignalGraph`, `WorldMemos`, `Subscriptions`, `ArenaRecords`;
   async values are part of `SignalGraph` and `WorldMemos`.
2. Done: proofs about every safety property of `Drafts`, `PokeWalk`, `ReactHost`,
   `EffectLanes` and `Subscriptions`.
3. Done: proofs about `SignalGraph`, of `TypeOK`, `ParkedIsAwaited`,
   `Acyclic`, `StaleIsHeard`, `ReadsAreCurrent` and
   `NobodyMissesAChange`, and about `WorldMemos`, of `NeverServesSpent` and
   `MemoServesCurrent`.
4. `EffectLanes` again: the render-notify buffers of `flush`, child effects and
   scopes; the order of the deferred lanes when a passive phase is nested in a
   layout drain.
5. Observed lifetimes: the microtask that settles them against the observer
   count of that moment.
6. `TransitionSystem`: `ReactHost` with `Drafts` as its store, instead of the
   one-intent drafts of `Subscriptions`.
7. The arena's growth: engines that replace one another, the idle test, and
   what is handed over.

## Not modelled, and why

Tracing and debugging only observe.  SSR serialises values.  The candidate
engines under `libs` and the design material repeat the same semantics or none.
Devtools, playground, benchmarks and scripts are tools.  The draft store, walk,
async values and host of `packages/cosignals-arena` are the ones modelled here,
over records.

What the modelled files leave out:

- `Drafts`: async results of an updater, the dev-only re-entrancy errors, the
  causes handed to the tracer.
- `PokeWalk`: the staleness flags, which the walk sets and never reads.
- `ReactHost`: a reducer's identity preservation.
- `EffectLanes`: the render-notify buffers, child effects, the creation of
  effects, the pull limit of a drain, uninstalling the bindings.
- `SignalGraph`: the order of a drain within a lane, duplicate forward links
  (collapsed to one), writes and creations from inside a body, observed
  lifetimes, scopes, `peek` and untracked reads.  A subscription to a computed
  that never settled while stale is not notified, as in the code, and `told`
  says so.  The flush of `endBatch` runs before suspensions resolve.  The error of
  a cycle is one value that equals itself, where the code makes a new `Error` each
  time (`graph.ts:1735`), so that the readers of a cycle evaluated anew see a change.
- `WorldMemos`: computeds that throw or reject in a world, the previous value
  handed to a body, a world's dependencies that base does not have, updaters
  that throw.  All computeds start observed and pulled; microtasks of a
  settlement run before any other step; when a settlement invalidates several
  parked nodes, all take the last clock.
- `Subscriptions`: `useIsPending`, `useSignal` over computeds that suspend or
  throw, double rendering, writes of the application's own layout effects,
  leaving roots.  React renders one pass at a time, an urgent pass is atomic,
  a root's pending transitions render together, and nothing but repeats of
  the broadcast happens between a draft's opening and its first write.
  `discardDraft` is called only by the reset seam of `worlds.ts` and by
  tests, so no pass meets one.
- `ArenaRecords`: growth and capacity, the storage of link records, observed
  lifetimes, scopes, throws, async values, draft pokes, the layout lane and its
  pumps, equality functions, handles of cells that are collected, bodies that
  write or dispose, the pull limit of a drain.
