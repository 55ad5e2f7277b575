# TLA+ models of sentinel-visor's scheduler, gap auditor and diff engine

This directory holds TLA+ specifications of the parts of sentinel-visor
(`src/`) with real concurrency or protocol logic. It also holds the TLC
configurations that model-check them, TLAPS proofs of the scheduler's main
safety properties, and `PROJECT.json`, the machine-readable inventory of
components, runs, mutants, source map, findings and hazards.

## The system and how its parts interact

- **Lease-based scheduler** (`MessageProcessor` in `src/chain/gap/find.go`).
  - Several processor processes share one completion store.
  - Each one loops: it leases up to `batchSize` open tipsets until
    `now + leaseLength`, then takes each item in turn.
  - For each item it checks a context whose deadline equals the lease
    expiry, extracts and persists the item's messages in one transaction,
    and marks it complete (with the error text if it failed).
  - A crashed process's lease expires and the tipsets become leasable again.
- **Completion store** (`storage.Database`, outside `src/`).
  - `LeaseTipSetMessages` is an atomic claim of rows that are not
    completed, whose claim has expired, and that are within the height bounds.
  - `MarkTipSetMessagesComplete` writes the completion time and the error
    text.
- **Gap auditor** (`GapIndexer` in `find.go`, `GapFiller` in `fill.go`).
  - The indexer reads the processing reports. It computes the candidate
    heights with `findEpochGaps` and drops null rounds by asking lotus for
    the tipset at each height. It adds every `skip` report, and persists
    everything as `GAP` rows with insert-do-nothing.
  - The filler reads the `GAP` rows, re-drives a one-height walker for each,
    and writes every row back with its new status.
  - The auditor and the scheduler share no memory. They interact only through
    the report and gap tables.
- **Tree diff engine** (`src/chain/actors/builtin/miner/diff.go`).
  - `DiffSectors` and `DiffPreCommits` choose, from the actor codes and
    container options alone, either the legacy generic diff or the
    structural v3 walker. They then classify the changes.
- **Verified registry extractor** (`src/tasks/actorstate/verifreg.go`).
  - It builds a context holding the previous and current registry state.
  - It then dumps the whole state as Added (when there is no previous state)
    or emits the diff as rows and Added/Removed events.

## Modules

| Module | Models | State / actions |
|---|---|---|
| `MessageProcessor` | `Run`, `processBatch`, `processItem`/`processTipSet`; the store operations from the design (see note below) | store rows `rec[h] = [claim, status]`, `persisted`, per-process `pc`, `batch`, `claimUntil`, `cur`, `res`, the clock `now`, a crash budget. Actions: `LeaseBatch`, `Idle`, `LeaseError`, `EndBatch`, `ProcessItem`, `MarkComplete`, `MarkFailed`, `Crash`, `Tick` |
| `MessageProcessor_proofs` | TLAPS proofs | `IInv`, `CInv` and the theorems listed below |
| `MessageProcessorLive` | the fairness of `Run`'s loop | `Step(w)`, `Fairness`, `LiveSpec`; the property `EventuallyAllCompleted` |
| `LeaseSpec` | the lease contract of the design (§2, §4.1, §7) | `owner[h]`, `status[h]`, `persisted[h]`. Actions: `Acquire`, `Persist`, `Complete`, `Abandon`, `Expire` |
| `MessageProcessorLease` | the refinement mapping | `Owner`: the live holder of each tipset, else `NoWorker`; `RowStatus`: the status of its row. `LS == INSTANCE LeaseSpec WITH ...` |
| `MessageProcessorLease_proofs` | TLAPS proof of the refinement | one lemma per action of `MessageProcessor` |
| `MessageExtraction` | `fetchMessages`, `extractMessageModels` (`find.go:334-440`); `ComputeNextBaseFee` of lotus, from the design | the blocks' message lists and gas limits (inputs), the loop's `todo`, `blk`, `vmm`, `msgsSeen`, `msgModels`, `bmsgModels`, both gas totals, the gas economy. Actions: `NextBlock`, `VisitMessage`, `Finish`. Its properties compare against the local `Range` and `IsInjective` of the message lists, so that the module stays free of `RECURSIVE` |
| `MessageExtractionGas` | the gas sums of `extractMessageModels`, and the protocol's base-fee rule over the distinct messages | `InclusionGas`, `UniqueGas` (with `MapThenSumSet` of `FiniteSetsExt`, so TLC-only); the property `GasEconomyAsDesigned` |
| `MessageExtraction_proofs` | TLAPS proof | `IInv` (`Taken`, `Visited`, `VisitedIncl`, `VmmSuffix`, `RecordsSoFar`); one lemma per action |
| `GapIndexer` | `GapIndexer.Run`, `detectProcessingGaps`, `detectSkippedTipSets`, `findEpochGaps`, `GapFiller.Run`, `queryGaps`, `updateGaps`; `Oldest` and `NextAbove` are the sorted-order steps of `findEpochGaps` | reports, gap rows `gaps[<<height, task>>]`, the find run's locals and the fill jobs' locals. Actions: `Index` (the indexers, environment), `FindProcessingGaps`, `FindSkippedTipSets`, `PersistGaps`, `QueryGaps`, `FillGap`, `FillDone`, `UpdateGaps` |
| `GapIndexer_proofs` | TLAPS proofs | `KeysReal`, `PendingComplete`, `CInv`; one lemma per action; the lemmas on `findEpochGaps` and the chain |
| `MinerDiff` | `DiffSectors`, `DiffPreCommits`, `SectorsAmtBitwidth`, `arrayRequiresLegacyDiffing`, `mapRequiresLegacyDiffing`, both diff containers | two miner states (code and container), the two results. Actions: `DiffSectors`, `DiffPreCommits` |
| `MinerDiff_proofs` | TLAPS proofs | `CodesInv`, `Inv`, `PreCommitStrategyTotal`, `CodesDistinct`, `SectorStrategy` |
| `VerifregExtractor` | `Extract`, `NewVerifiedRegistryExtractorContext`, `HasPreviousState`, `ExtractVerifiers`, `ExtractVerifiedClients` | a fixed registry history `chain`, the creation height `born`, the extracted heights, and the four output tables. Action: `Extract(e)` for any height, in any order |
| `VerifregExtractor_proofs` | TLAPS proof | `Inv`, `ExtractTableFacts`, `NewContextFacts` |

Note on `MessageProcessor`: the store operations are marked `spec_modelled` in
the map.

`PROJECT.json` "map" names the source lines of every definition.

Abstractions, in order of importance:

- **Time.** It is a shared integer clock.
  - A claim has expired when `claim < now`.
  - A context is done when `now >= claimUntil`.
  - The deadline is the lease expiry, as in the code.
  - The clock is relative. `Tick` advances `now` up to `MaxTime`; at the
    horizon it moves every claim and deadline one unit earlier instead
    (never below 0). Every comparison the code makes between a claim, a
    deadline and `now` keeps its result, so the clock never stops and the
    state space stays finite. With `MaxTime = 1` every past time collapses
    to 0, which is still faithful: the code only asks whether a time has
    passed.
- **Message extraction.** A message is a model value with a gas limit. The
  float ratios of the gas economy are kept as their integer numerators over
  the common denominator `len(blocks) * BlockGasTarget`. Go's map iteration
  order is a nondeterministic choice of the next block.
- **Extraction outcomes.** An extraction is abstracted to its outcome: `ok`,
  or an error kind (`transient` or `permanent`). The error text is not
  modelled.
- **Tipsets.** A tipset is identified by its height.
- **Diff containers.** They are functions from a few keys to small records.
  The structural walkers are abstracted to "same result when both sides are
  in v3 format, decode error otherwise".

## Runs

| Run | Checks | Result |
|---|---|---|
| `mp_scheduler` | under `LiveSpec`: `LeaseExclusion`, `CompletionIsFinal`, `ImplementsLeaseSpec` (the scheduler implements `LeaseSpec`), `EventuallyAllCompleted` | pass (481k distinct states, 2.5 min) |
| `mp_transient` | `TransientFailureNotCompleted` | violation (finding 1) |
| `mp_lease_error` | `EventuallyAllCompleted` with one process | violation (finding 7) |
| `gap_find` | `GapsAreReal`, `FindCompleteness` | pass (126k states) |
| `gap_fill_error` | `FailedGapStaysOpen` | violation (finding 2) |
| `gap_fill_race` | `FilledIsFinal`, with two fill jobs | violation (finding 6) |
| `msg_extract` | `RecordsComplete` | pass (1816 states) |
| `msg_gas_totals` | `GasEconomyAsDesigned` | violation (finding 5) |
| `diff_precommits` | `PreCommitDiffCorrect`, `SectorDiffCorrectUnlessBothLegacy` | pass (40k states) |
| `diff_sectors` | `SectorDiffCorrect` | violation (finding 3) |
| `verifreg_facts` | `ExtractedFactsHold` | pass (≈9k states) |
| `verifreg_replay` | `ReplayMatchesState` | violation (finding 4) |

`MC_MessageProcessor` extends both `MessageProcessorLive` and
`MessageProcessorLease`, so that one run checks the scheduler's safety, its
refinement and its progress on the same instance. `TypeOK` of the scheduler
is proved (`TypeCorrect`) rather than checked.

Bounds, and why they are enough:

- **Scheduler:** 2 processes, heights {0,1,2} with bounds 1..2, lease length
  2, batch size 2, the relative clock with `MaxTime = 1`, and 1 crash or
  lease error (4 heights in `mp_transient`).
  - Height 0 lies outside the bounds.
  - A batch can be cut short by its deadline.
  - A lease can expire while its holder is still mid-batch, and another
    process can re-take it. This is the case `LeaseExclusion` and
    `CompletionIsFinal` are about.
  - With two faults both processes could stop for good (finding 7), so the
    progress property needs a bound of one. The safety properties were also
    checked with two crashes and symmetry (396k states) while the model was
    built.
  - Symmetry is not used in `mp_scheduler`: it is unsound for liveness in
    TLC.
  - Four heights give 29M states in 6 minutes; three keep a height outside
    the bounds and a batch that covers the whole in-bound range.
- **Message extraction:** two blocks, two messages, two gas limits and two
  base fees. This covers a message included in both blocks, in either
  order, and a serialisation error mid-loop.
- **Gap auditor:** heights 0..3 with a null round at 1, and one task.
  - This is enough for gaps between reports and below the oldest one.
  - Reports can be written while a find run is between its two queries and
    its persist.
  - One fill job is used in `gap_find`. `gap_fill_race` uses two.
- **Miner diff:** every one of the 16 ordered pairs of miner versions,
  crossed with every pair of two-sector containers.
- **Verified registry:** every history of 3 heights over one address and two
  datacap values, and every creation height. This covers an entry added,
  modified and removed at heights 1 and 2.

`CHECK_DEADLOCK FALSE` is set only for the two pure, one-shot models (the diff
and the extraction of a finite chain), which really do stop.

Every property of a passing run has a mutant in `PROJECT.json`. The mutant is
a plausible bug in the mapped code, and TLC finds the property violated when
the mutant is substituted:

- A lease query ignoring `claimed_until` breaks `LeaseExclusion`.
- A mark without the deadline breaks `CompletionIsFinal`.
- Dropping the null-round check breaks `GapsAreReal`.
- Dropping the below-oldest loop breaks `FindCompleteness`.
- Dropping the `pre`-is-v2 check breaks `PreCommitDiffCorrect`.
- Writing a modified entry's old datacap breaks `ExtractedFactsHold`.
- The lease query ignoring `claimed_until` also breaks `ImplementsLeaseSpec`.
- Leasing only when a full batch is leasable breaks
  `EventuallyAllCompleted`: the last tipsets are never taken.
- Dropping the `msgsSeen` check breaks `RecordsComplete`: a message in
  two blocks gets two message rows.
- Giving v2 miners the v3 bitwidth in `SectorsAmtBitwidth` breaks
  `SectorDiffCorrectUnlessBothLegacy`: a v2-v3 pair then has equal
  bitwidths and reaches the v3 walker, which fails on the v2 side.

## Findings

Each violation run shows a place where the code and the design (`spec.md`)
disagree, or where the code is wrong:

1. **Transient failures are completed** (`find.go:250`).
   - `processBatch` marks every failed item complete with its error, so the
     scheduler never retries it.
   - §7 of the design says a transient failure leaves the item un-completed.
2. **A failed fill closes the gap** (`fill.go:55`).
   - The error text replaces `GAP` and `updateGaps` writes it back, so
     `queryGaps` never returns the gap again.
   - §4.3 says the gap stays `GAP`.
3. **The sectors diff tests the wrong actor codes** (`diff.go:239`).
   - `arrayRequiresLegacyDiffing` compares miner codes with the *market*
     actor's code IDs, so v0/v2 miner AMTs are sent to the v3 walker.
   - The comment on the function says that walker cannot read them.
4. **Height 1 is treated as genesis** (`verifreg.go:42`).
   - `HasPreviousState` is false at height 1, so the state there is dumped
     instead of diffed.
   - A verifier removed at height 1 never gets a `Removed` event.

5. **The gas totals are swapped, and the base fee is wrong** (`find.go:385`).
   - `extractMessageModels` adds every inclusion to `totalUniqGasLimit`,
     before the duplicate check, and only first sightings to
     `totalGasLimit`.
   - So `GasLimitUniqueTotal` holds the total of all inclusions, and the
     waste ratio `(total - unique)` is never positive: the opposite of the
     column names and the design's gas economy.
   - The next base fee (`find.go:420`) is computed from this inflated
     `totalUniqGasLimit`. The protocol's rule, which the design names
     (§4.2), counts each distinct message of the tipset once: lotus's
     `ComputeBaseFee` keeps a `seen` set of message CIDs. So a message
     shared by two blocks gives a different base fee. The variable's name
     and the comment at line 369 ("will include duplicate messages") show
     the intent.
   - TLC finds `GasEconomyAsDesigned` violated with one message in both
     blocks: the base fee, both totals and the waste are all off.
6. **Two fill jobs can undo a fill** (`fill.go:93`).
   - `updateGaps` writes back, by primary key, the status of every row that
     `queryGaps` returned, whatever the row holds now.
   - A failed job's error text replaces the `FILLED` that a concurrent job
     wrote. §5 says the gap ledger is never read-then-written.
7. **A lease error stops the process** (`find.go:225`).
   - `processBatch` returns `(true, err)` when the lease query fails, and
     this ends `Run`'s `RepeatUntil` loop for good.
   - With one process, one database error leaves the remaining tipsets open
     forever. §7 says failures never leave the processing loop.

## Fairness

`MessageProcessorLive` adds fairness to the scheduler:

- **Weak fairness on `Tick`.** Real time passes.
- **Weak fairness on each process's loop step** (`LeaseBatch`, `EndBatch`,
  `ProcessItem`, `MarkComplete`, `MarkFailed`). `Run` calls `processBatch`
  again and again until it returns true, and `processBatch` walks its batch
  with nothing else to wait for.
- **Strong fairness on `ProcessItem` and `MarkComplete`.** The clock can
  disable these two steps (the context's deadline passes), so weak fairness
  would let every lease expire before its work is done.
  - This is an assumption about the environment, not a guarantee of the
    code: the lease is long enough for an item to be extracted and marked,
    and the database does not reject every mark.
- **Crashes and lease errors** are faults, bounded by `MaxCrashes`, and
  never forced.

Under these assumptions, with two processes and one fault,
`EventuallyAllCompleted` holds: a crashed process's tipsets are reclaimed
when its lease expires, and the other process takes them. With one process
a single lease error is enough to violate it (finding 7).

## Proofs

`MessageProcessor_proofs` proves the following for every value of the
constants, under `Assumptions`: non-empty sets of processes and heights,
natural bounds, and positive lease length and batch size.

- **`TypeCorrect`:** `Spec => []TypeOK`.
- **`LeaseExclusionHolds`:** `Spec => []LeaseExclusion`.
  - `LeaseExclusion` is not inductive on its own. The inductive invariant is
    `IInv == TypeOK /\ IdleEmpty /\ ClaimHeld /\ LeaseExclusion`.
  - `IdleEmpty`: a process that is not mid-batch holds nothing.
  - `ClaimHeld`: while a process's context is live, the store still carries
    its own claim on every tipset it holds.
  - `ClaimHeld` is the heart of the argument. A lease takes only rows whose
    claim is `< now`. The claim of every live holder is `claimUntil > now`.
    So a lease never takes a tipset that a live process holds.
  - Steps that only shrink what a process holds are handled once, by the
    lemma `ShrinkingStep`.
- **`CompletionIsFinalHolds`:** `Spec => CompletionIsFinal`.
  - The proof strengthens `IInv` with `CurNotInBatch` and `HeldOpen`.
  - `HeldOpen`: a tipset held with a live context is still open.
  - The only step that writes a status is `MarkComplete`, and it runs with a
    live context on a held tipset. By `HeldOpen` that tipset is still open.
  - `LeaseExclusion` ensures nobody else holds it, so `HeldOpen` survives.

- **`ImplementsLeaseSpecHolds`** (`MessageProcessorLease_proofs`):
  `Spec => ImplementsLeaseSpec`. It assumes in addition
  `LeaseAssumptions`: `NoWorker` is not a process, and `Heights` is finite.
  - The initial state maps to `LeaseSpec`'s initial state (lemma
    `InitRefines`).
  - From `CInv`, each step of the scheduler maps to a `LeaseSpec` step or a
    stutter (`StepRefines`, with one lemma per action):
    - `LeaseBatch` maps to `Acquire`. `ClaimHeld` makes every leased row
      unowned. `IdleEmpty` shows the process owned nothing.
    - `MarkComplete` maps to `Complete`. `HeldOpen` shows the row was open,
      and `LeaseExclusion` makes the marking process its only owner.
    - `ProcessItem` maps to `Persist` or a stutter.
    - `MarkFailed` maps to `Abandon` on a live context, else a stutter.
    - `Tick` and `Crash` map to `Expire` of the processes whose context
      ends.
    - `Idle`, `LeaseError` and `EndBatch` are stutters: `EndBatch` drops
      only an empty batch or one whose context is already done.
  - `Owner` uses `CHOOSE` over the live holders. `LeaseExclusion` makes that
    set empty or a singleton, and the lemmas `OwnerOfEmpty` and
    `OwnerOfSingleton` evaluate it.
  - `TickFacts` collects what the relative clock's horizon step preserves:
    the order of claims and deadlines against `now`, and the statuses.

### Gap auditor (`GapIndexer_proofs`)

These hold for every chain length, set of null rounds, set of tasks and
number of concurrent fill jobs, under `GapAssumptions`.

- **`GapsAreRealHolds`:** `Spec => []GapsAreReal`.
- **`FindCompletenessHolds`:** `Spec => []FindCompleteness`.

Both rest on one inductive invariant,
`CInv == TypeOK /\ KeysReal /\ GapsAreReal /\ PendingComplete /\ FindCompleteness`.

- `GapsAreReal` is not inductive on its own. A gap row is written from
  values held in locals: the find run's `heightGaps` and `skipGaps`, and a
  fill job's `todo` and `filled`.
- `KeysReal` says that every key in those locals, and every report, is at a
  real epoch. Reports are written only for tipsets, and `FillGap` reports at
  a key taken from a real gap row.
- `FindCompleteness` is not inductive either. `PersistGaps` sets `lastMax`
  to the `seenMax` of a run in progress.
  - `PendingComplete` says that, between `FindProcessingGaps` and the
    persist, `heightGaps` covers every real epoch below `seenMax` with no
    report.
  - `FindProcessingGaps` establishes it through the lemma
    `FindEpochGapsComplete`: every unrecorded height below some recorded
    height lies below `Oldest(R)`, or between a recorded `b` and
    `NextAbove(R, b)`.
  - That lemma takes `b` as the greatest recorded height below `h`.
  - `TipSetByHeightFacts` shows that a real epoch passes the null-round
    check.
  - `PendingComplete` survives until the persist because reports only
    accumulate (`ReportedHeightsGrow`).
  - `FindCompleteness` survives the fills because `updateGaps` writes only
    statuses other than "none", so it never deletes a row.

Least and greatest elements come from the well-foundedness of `<` on `Nat`
(`WFMin`, `NatLessThanWellFounded`), in the lemmas `MinExists` and
`MaxExists`. Induction itself is not used.

For the provers, `findEpochGaps`'s two `CHOOSE`s are the top-level operators
`Oldest` and `NextAbove`. Their facts are proved once (`OldestFacts`,
`NextAboveFacts`), and every later step treats them as opaque.

### Pre-commit diff (`MinerDiff_proofs`)

- **`PreCommitDiffCorrectHolds`:** `Spec => []PreCommitDiffCorrect`, for
  every set of sectors and every container content.
- The inductive invariant adds only that both codes are miner codes.
- The argument is the lemma `PreCommitStrategyTotal`. For two miner codes,
  either `mapRequiresLegacyDiffing` holds (a v0 or v2 code on either side),
  or both HAMTs are in the v3 format. So the decode error is never reached.
- **`SectorDiffCorrectUnlessBothLegacyHolds`:**
  `Spec => []SectorDiffCorrectUnlessBothLegacy`. It is the exact reach of
  finding 3: the sectors diff is right if and only if the two states are
  not both v0/v2.
  - `CodesDistinct` derives from `DiffAssumptions` (the six code CIDs are
    pairwise distinct, as real CIDs of different actors are) that no miner
    code is a market code. So `arrayRequiresLegacyDiffing` reduces to
    "the bitwidths differ".
  - `SectorStrategy` computes `DiffSectors`'s result for two miner codes:
    the decode error when both are pre-v3 (equal bitwidth 3, v3 walker),
    the diff otherwise. A v2-v3 pair is saved by its different bitwidths;
    two v3 states are read by the walker.
  - The same `Inv` serves both theorems.

### Message extraction (`MessageExtraction_proofs`)

- **`RecordsCompleteHolds`:** `Spec => []RecordsComplete`, for every set
  of blocks and messages, in every block order. Once `Finish` has run,
  the message rows are exactly the tipset's messages, each once, and the
  block-message rows are exactly the inclusions, each once.
- It assumes, through `MsgLists`, that each block's message list has no
  repeats. The property is stated in the same terms: the block-message
  rows are keyed by block and message, so a repeat in one block could not
  be two inclusions anyway.
- The inductive invariant `IInv` describes the loop mid-way:
  - `Taken` are the blocks already begun (`Blocks \ todo`).
  - `Visited(b)` is how many of `b`'s messages have been visited. For the
    current block `blk`, `vmm` is the suffix not yet visited (`VmmSuffix`).
  - `VisitedIncl` are the inclusions visited so far.
  - `RecordsSoFar`: `bmsgModels` lists `VisitedIncl` without repeats;
    `msgModels` lists its messages without repeats; `msgsSeen` is that set.
- The dedup step (`<2>seen` in `VisitMessageIInv`) is the heart: a message
  is appended to `msgModels` exactly when it was not yet among the visited
  inclusions' messages.
- Lemmas `AppendRange`, `TailFacts` and `SecondsAddOne` are the sequence and
  set facts used. `SequenceTheorems` reaches `RECURSIVE` through `Functions`,
  so they are proved here.

### Verified registry extractor (`VerifregExtractor_proofs`)

- **`ExtractedFactsHoldHolds`:** `Spec => []ExtractedFactsHold`, for every
  address set, chain length and registry history.
- The inductive invariant is `TypeOK /\ ExtractedFactsHold`.
- The lemma `ExtractTableFacts` shows that both branches of `ExtractTable`
  (the dump and the diff) yield rows and events at height `e` that agree
  with the current table.
- `NewContextFacts` shows that the context's current state is `chain[e]`.

TLC checked each strengthened invariant (`IInv`, `CInv` of both proof
modules) on its run's instance before it was proved.

The following are only model-checked:

- **The gas sums of `MessageExtractionGas`.** They are sums over sets
  (`MapThenSumSet`), which are `RECURSIVE` through `Folds`, so the module
  is for TLC only. Its property `GasEconomyAsDesigned` is a violation run
  (finding 5). A proof about the sums would need induction over data, with
  fold theorems whose operator parameters the provers cannot instantiate.
- **`ReplayMatchesState` of `VerifregExtractor`:** a violation run.
- **Liveness and `ENABLED`:** `EventuallyAllCompleted` and anything about
  `ENABLED`. No prover backend handles them.
- **Recursive definitions:** what they compute for every input. Induction
  over data needs operator parameters that the installed provers cannot
  instantiate.
- **Every module that declares a `RECURSIVE` operator.**

## Not modelled

- **The message models and persistence wrappers** (`src/model/...`,
  `src/unnamed/part_00[1-3]`): column mapping. Their insert-do-nothing
  behaviour is the `persisted` flag.
- **The migration** that adds table and column comments: DDL only.
- **The CLI commands** (`gap.go`, `log.go`): argument parsing. The runs they
  start are modelled.
- **`fetchReceipts`** and the receipt rows: a straight copy of the lotus
  answer, with no control beyond its error return.
- **The float conversions of the gas economy**: they are kept as integer
  numerators. No property is about rounding.
- **Per-task gaps.** `detectProcessingGaps` (`find.go:89`) takes the
  distinct heights that any task reported, as §4.3 prescribes. So a height
  where one task reported and another never ran is not a gap for the
  missing task. The model has one task, and this hazard is recorded in
  `PROJECT.json` rather than checked, because the code does what the
  design says.
- **The processing-message and processing-report lists** that `processItem`
  builds: row mapping. Their persistence is the `persisted` flag.

## Plan for the next sittings

1. **`findEpochGaps` as the code's loop.** Write it as a `RECURSIVE` operator
   over the descending report list, in a TLC-only module, checked against
   the set definition `FindEpochGaps` over all small report sets.
2. **More proofs.** `Spec => []TypeOK` for the gap auditor as its own
   theorem, and the gas sums with a fold written as a recursive function.
3. **Composition.** Compose the scheduler with the gap auditor through the
   report table, and check that a tipset the scheduler completes is never
   reported as a gap.
4. **Larger instances** of the liveness run (three processes) when time
   allows.
