# phoenix-gate in TLA+

phoenix-gate decides, in process and before it runs, whether a tool call of an AI
agent may go ahead: *allow*, *deny*, or *ask* a human (the "Founder"). These modules
model the parts of it that keep state, check them with TLC on small instances, and
prove what matters most for every value of the constants with TLAPS.

Run `tlc -workers 2 -config <run>.cfg <module>` for a run and `tlapm <module>.tla` for a
proof module, in this directory. `PROJECT.json` lists the runs with their modules, the
source lines each definition stands for, the hazards and which property covers each,
the mutants (a plausible bug for every property, defined in the module it would sit in)
and the theorems.

## Inventory

| Component | State | Operations | What makes it correct |
|---|---|---|---|
| Gate (`phoenix_gate/gateway.py`: `gate_tool_call`, `approve_gate_token`) | `_LOCAL_PENDING`, `_LOCAL_GRANTS`, `_LOCAL_USED_TOKENS`, `_SESSION_APPROVAL_PROMPTS`, all under `_LOCAL_LOCK` | classify, consume a grant, ask APE, mint a token, count the prompt, receipt; approve, expire | a yes allows one call, the right one, given in time; flood caps hold; an exception or a restart loses an approval and never adds one |
| Receipt ledger (`gateway.py`: `write_receipt`, `verify_receipt_chain`, `load_receipts_verified`) | a JSONL file and its `.tip` sidecar, no lock | read last hash, append, recount, rewrite sidecar; verify; verify and read again | what was reported is there when the file verifies; a break never heals; an undisturbed write makes the sidecar agree; a reader gets at least what it checked |
| Session memory (`phoenix_locks.py`: `_SESSION_FRAGMENTS`, `_SESSION_SECRET_TAINT`) | a rolling window of calls and a taint per session, under `_SESSION_LOCK` | scan for a composed wipe, scan the taint, observe | the second half of a wipe, and outbound calls after a secret read, are denied; no lockout beyond the window |
| Lock classifier (`phoenix_locks.py`: `classify_lock`) | none of its own | normalise, decode, match patterns | order of its stages; the patterns are string processing |
| Policy environment (`phoenix_locks.py`: `_policy_env`, `insecure_policy_env_warnings`; `gateway.py`: `_consume_supply_env_warnings`) | a write-once dictionary of sealed environment values and a flag, no lock | read through the seal, reset, warn once | while the switch is on, one answer per variable once its first readers are done; a softened policy is told to somebody |
| APE client (`ape_client.py`) | none | verify, approve, health | every outcome is a reply, an `ApeError`, or (a reply that is no object) an escaping exception |
| Mock APE server (`mock_ape_server.py`) | approvals, grants, used tokens under `STATE.lock`; a thread per request | verify, approve, prune | one yes, one allow; in time; the cap counts living questions only |
| Hash-allowlist runner (`kits/hash-allowlist-runner/runner.py`) | a git tree, an allowlist and a receipt file, shared with other processes | check layout, config, status and flags; read twice; compare with HEAD; execute; receipt | what ran was reviewed; no second run under a receipt; the receipt is true |
| Review gate (`kits/review-gate/review_gate.py`) | records, and the pending verdict and sha of its parser | parse lines into records, evaluate | only a PASS that the file says of this head opens the gate; a last FAIL closes it |
| Token bucket (`kits/safe-helpers/token_bucket.py`) | tokens and time of refill | take, refill | never more let through than capacity and inflow, also when the clock steps back; refusals do not delay recovery |
| Export scrubber, dry-run sender, Kintsugi audit kits, leak check, templates, Hermes simulation and demo, exports | none | text processing, reports, scripted callers | nothing for a state machine to say |

How they interact: `gate_tool_call` calls `classify_lock` (which reads the sealed policy,
and scans and extends the session memory), then consumes a local grant or calls the APE
client, which talks HTTP to APE; it may mint a token and count a prompt, and ends in
`write_receipt`. The Founder answers a question where it was put: `approve_gate_token`
for a local token, `ApeClient.approve` for one of APE. Everything is called from any
number of threads. The kits are separate processes.

What is hard here: several critical sections per call, so threads interleave between
them; grants and tokens that expire, are overwritten, are lost to an exception or to a
restart; a receipt file and an environment seal that are read and written without a
lock; requests whose client gave up while their handler goes on; a tree that is edited
between two checks of the runner; a parser whose pending state decides a merge.

## Modules

Each component's module declares its CONSTANTS with named assumptions, one action per
critical section, system call, statement or handler, and its properties. A mutant
stands before the definition it is a buggy form of.

| Module | Models | Correspondence |
|---|---|---|
| `PhoenixGate` | `gate_tool_call`, `approve_gate_token` | One action per critical section under `_LOCAL_LOCK` (`ConsumeGrant`, `Mint`/`MintRefused`, `Prompt`/`PromptRefused`, `Approve`/`ApproveExpired`) and per call out of the process (`AskApe`, `VerifyReply`, `VerifyFails`, `Annotate`). `Return` is the receipt line and the return to the caller; `Raise` is an exception that escapes, at any point the code can raise at; that call is never answered. `Restart` is the process ending and starting again: the dictionaries are empty and the threads gone (no line of the source does this). A `Call` is its own fingerprint. |
| `TaintedGate` | the gate with the secret taint of its sessions | `Classify` joins `Begin` with `_observe_session`; the lock of an outbound call depends on what its session read. |
| `OneShotApproval` | what an approval promises, no threads, no clock | `Ask`, `Grant`, `Spend`, `Lose` |
| `GateApproval` | the mapping of `PhoenixGate` to `OneShotApproval` | `Approval == INSTANCE OneShotApproval WITH life <- ..., about <- ..., passes <- allowedBy` |
| `MockApe` | `handle_verify`, `handle_approve`, the client's requests and timeouts | One action per critical section of `STATE.lock`, each with the prune it starts with. `GiveUp` is the client's timeout: the handler goes on and its reply is dropped; `ClientsDie` is the end of the process that made the requests. `Approve` reads the clock twice, as the code does. |
| `GateOverApe` | the gate, `ape_client.py` and the mock APE together | Joint steps of `PhoenixGate` and of an INSTANCE of `MockApe`: `Ask` posts, `Deliver` turns a handler's reply into the gate's (`ReplyOf`, `StatusFails`), `TimeOut` is an `ApeError` for the gate while `Serve` goes on; a refused connection is the same with a handler that does nothing. The mock's replies are objects or error statuses, so a reply that raises `AttributeError` in the client is met in `PhoenixGate` alone. `GateRestarts` kills the gate and leaves APE as it is (`APE!ClientsDie`). |
| `ReceiptLedger` | `write_receipt`, `verify_receipt_chain` | One action per file operation: `ReadLast`, `AppendReceipt`, `Count`, `OpenTip`, `WriteTip`. `Crash` and `CrashInAppend` stop a writer anywhere; `Cut` and `Alter` are changes to the file from outside. A hash is the sequence of bodies it commits to. |
| `ReceiptReader` | `load_receipts_verified` beside those writers | Its three reads: the file (`ReadChain`), the sidecar (`ReadTip`), the file again (`Load`). |
| `SessionMemory` | the three critical sections of `classify_lock` | `ScanCompose`, `ScanTaint`, `Observe`; calls are classes (first half, second half, secret read, outbound, ...), and `Near` is the set of runs of calls a compose pattern reaches across. |
| `PolicyEnv` | `_policy_env`, its callers in `gate_tool_call`, the warnings | One action per statement of `_policy_env`; `UseStrict`, `UseUnknown`, `WarnStrict`, `WarnUnknown` are its callers; `Edit` assigns to `os.environ`; `Reset` (`reset_policy_env_seal`) and `ResetWarnings` (`reset_supply_env_warnings`) are plain assignments that may come at any time. |
| `AllowlistRunner` | `main` and `decide` of the runner | One action per system call or git process; the script has a start (`Execute`) and an end (`Completed`), a receipt any number of partial writes (`WritePart`) before the last, and a run can die in either; `Edit`, `Commit`, `Litter`, `Flag`, `Configure` and `List` are an editor between any two of them. |
| `ReviewGate` | `parse_verdict`, `_parse_text`, `evaluate` | One action per kind of line the loop tells apart; `EndOfText` is the last flush, `Evaluate` the decision. |
| `TokenBucket` | `take`, `_refill` | `Allow` and `Deny` at any reading of the clock. |
| `MC*` | constants of the small instances; the runs of the gate are instances of `TaintedGate` | |
| `*Proofs` | theorems and lemmas | |

### Abstractions

- Fingerprints and SHA-256 are collision free; tokens from `secrets` never repeat.
- The patterns of the classifier and of the mock's policy are sets of calls (`HintsOf`,
  `Left`, `Right`, `Traits`, ...): which call matches what is chosen by the instance, the
  order in which the classes are looked at is the code's. Whether a pattern matches the
  strings it should is not a question these modules can answer.
- Caps, TTLs and switches are constants of every module but `PolicyEnv`, which shows when
  that is right: a lookup that begins after the first readers of its variable are done, and
  finds the seal switched on, is answered what the first such lookup was promised, until a
  reset (`OneAnswer`). Before that, and with the switch off, a call may see another value;
  `CannotSoften` shows that the switch alone is enough to soften a policy that was firm.
- In `PolicyEnv` a statement is atomic (the interpreter switches threads between
  bytecodes; no statement of `_policy_env` reads and writes the shared dictionary at
  once). A setting is "firm" or "soft", what its parser makes of the string, and the two
  variables of `classify_lock` stand for all. Pins on numbers (TTL, flood cap) are bounds
  on the constants of the other modules.
- A compose pattern reaches over so many characters of one line (160, 100 or 120). `Near`
  holds the runs of calls, from a first half to a second one, that some pattern spans; the
  instance chooses it, so that one long call in between, or none, can end the reach. All
  that is assumed is that leaving calls out of a run brings its ends no further apart
  (`ReachAssumption`). Beyond the reach the code lets a second half pass, and so does the
  model: `SecondHalfDenied` speaks of halves that are near.
- A receipt's contents, reasons and wording are left out. In `PhoenixGate` the receipt
  and the return are one step: what a token in a receipt allows before the return is the
  same `Approve`, one step later. `Raise` keeps the case where the receipt line stood and
  the caller got an exception.
- In `ReviewGate` a line is what the regular expressions find on it (a verdict, a sha),
  and a file that is one JSON object is one line of its own kind.
- In `TokenBucket` amounts are whole units; the rounding of floats is left out.
- The runner's refusal reasons are one verdict.
- Clocks are small integers; both clocks of the gateway are one.

Bounds, each a constant or a guard: `MaxTime` (readings of the clock), `MaxRestarts`,
`MaxReceipts`, `MaxFaults`, `MaxCalls` (observed calls), `MaxEdits`, `MaxResets`,
`MaxLines`, and the sizes of the token pools.

## Runs

| Run | Checks | Bounds and why they are enough |
|---|---|---|
| `Gate` | `TypeOK`, `OneShot`, `AllowIsFounded`, `TokenOnlyWithAsk`, `PendingCapped`, `AskCapped`, `ImplementsApproval` | Two threads of one session under a flood cap of one: the second mint already meets the cap, the second prompt too, and both threads can want one grant. An anonymous secret read, which is refused and still taints, and an outbound call whose lock turns from ask to deny with it; the clock past a TTL of one, one restart at any point; two tokens, one for each life of the process. Deadlock is off: the tokens run out. |
| `GateOverApe` | `LinkTypeOK`, `EveryAllowHasItsYes` | Two threads, two handlers, a store of one, a token for each store, one restart of the gate. A call about which both sides ask and one about which only the gate does: questions are put at either side, and a request that timed out occupies a handler while its thread has already fallen back to a local token. Deadlock is off: the tokens run out. |
| `MockApe` | `TypeOK`, `OneShot`, `AllowIsApproved`, `PendingCapped`, `PendingIsAnswerable`, `RefusedOnlyWhenFull` | Two handlers, a call per branch of the policy and a malformed body, a store of one, two tokens, TTL one, four clock readings: a question expires in the store, in a race with its approval and between the two readings. Deadlock is off: the tokens run out. |
| `Receipts` | `TypeOK`, `VerifiedMeansComplete`, `SettledVerifies`, `BrokenChainStaysBroken`, `SoloWriteExtendsChain`, `HandedKeepsChecked`, `HandedIsWhole` | Two writers beside a reader, three receipts, two faults: a fork needs two receipts, a crash that a later write repairs three, and the reader's two reads can have a whole write or a fault between them. Deadlock is off: the receipts run out. |
| `PolicyEnv` | `TypeOK`, `OneAnswer`, `OperatorsSeeTheSoften`, `NoLateLookupFails`; deadlock checked | Two threads are the two first readers of the race; two edits turn a variable soft and back, or the switch off and on; one reset, of the seal or of the warning flag, at any point of any call. |
| `Session` | `TypeOK`, `SecondHalfDenied`, `NoOutboundAfterSecret`, `LockoutEnds` | Two threads, five classes of call, four observed calls over a window of two: the window rolls twice, and another thread's call is observed between the two halves of a wipe, within a pattern's reach (`note`) or ending it (`post`, which is long). A denied secret read taints, with calls in between that roll it out of the window. Deadlock is off: the calls run out. |
| `Runner` | `TypeOK`, `RanWasReviewed`, `RunOwnsItsReceipt`, `ReceiptIsTrue` | Two runs that share a receipt path, two contents, four edits: enough to change script, HEAD and list and back again around one check. A run may die under its script, before its receipt, or with part of it written (a decision and no hash). Deadlock is off: runs end. |
| `ReviewGate` | `AllowIsSaid`, `LastFailRefuses` | Every file of up to five lines over two shas: a sha line, a verdict, another sha line, another verdict and a line between any of them. Deadlock is off: a file ends. |
| `TokenBucket` | `NeverOverspends`, `DenialIsEarned`; deadlock checked | A capacity of four with a refill of two per reading: costs below, at and above the capacity, refills that meet it and that fall short, six readings in any order. |

Three runs look for a violation, and find it: the code does other than a doc or comment
says.

| Run | Property | What the code does |
|---|---|---|
| `GateGrantAge` | `GrantsExpire` | A grant allows its call at any age: only the pending token is aged (`gateway.py:544`). |
| `SessionSplit` | `SplitNeverPasses` | Two halves of a wipe classified at the same time do not see each other (`phoenix_locks.py:1415`). |
| `PolicySoften` | `CannotSoften` | With the switch of the seal turned off in mid-session, a variable that was sealed firm is answered from the environment again (`phoenix_locks.py:558`; the comment at 530-532 says it cannot be softened). |

What else the modules show of the code, without a run of its own:

- `PhoenixGate.Prompt` only counts up: prompts are counted for the life of the process,
  not while they are outstanding (`gateway.py:124`).
- `ConsumeGrant` comes before the lock's hard deny is looked at (`gateway.py:939`), so a
  call that a taint denies passes on an earlier yes to that very call;
  `TaintedGateCorrect` proves that nothing else lets it pass.
- A cut of the receipt file under a write in progress is laundered by that write's
  sidecar (`gateway.py:700`), and two writers fork the chain without any fault
  (`gateway.py:692`). `VerifiedMeansComplete` and `SettledVerifies` therefore speak of
  files that verify, that were not cut, and of writes that ran alone.
- The warnings of a softened policy are lost when the one call that took them raises, or
  when the environment changes while they are collected. `OperatorsSeeTheSoften` promises
  nothing after that.
- A first reader of the policy can meet a `KeyError` when another one replaces the
  dictionary; a lookup that begins later cannot (`NoLateLookupFails`).

### Fairness

No specification assumes any, and no liveness is claimed. The code does not justify it: an
exception leaves `gate_tool_call` without an answer (`Raise`); `urlopen`'s timeout is per
socket operation, so a peer that drips its reply can hold a thread; the runner starts its
script without a timeout. What the modules say is what is true of every prefix of a run.

## Proofs

The theorems hold for any number of threads, calls, sessions, tokens, restarts, receipts,
faults and edits, under the named assumptions of each module (sets are finite where they
are counted, caps are positive, null values are outside the sets they stand beside).

- `GateProofs`, the approval path, in four parts.
  - The gate alone, under any reply and any lock. `OneShotInv` says where a token's
    authority is: pending, in a grant, in the hands of a thread, or used up, and never in
    two of these. `OneShot` alone is not inductive: nothing in it keeps two grants from
    carrying one token. `AnswerInv` ties what a thread holds to what was minted and
    approved (`AllowIsFounded`, `TokenOnlyWithAsk`); `AskInv` adds the threads that are
    about to answer "ask" to the questions asked, and bounds the sum by the prompt count
    (`AskCapped`).
  - What the gate implements and what implements it. `ImplementsApproval`: each action of
    the gate is a step of `OneShotApproval` or a stutter. `TaintedIsGate`: each step of the
    tainted gate is one of the gate. `GateOverApeIsGate`: whatever APE's handlers, timeouts
    and restarts do, the gate sees a reply, a failure or an annotation that `PhoenixGate`
    already allows for; `LinkInv` adds to `LinkTypeOK` that a handler whose reply is
    awaited is not idle and works on the call of the one thread that waits. The theorems
    about the gate carry over to both (`TaintedGateCorrect`, `GateOverApeCorrect`).
  - APE under the gate. `ApeUnderGateIsApe`: the same composition, seen from the other
    side, is a behaviour of `MockApe`. It needs `ShownIsTold`: a token the gate shows is
    one that a reply brought, so the Founder approves nothing a client of `MockApe` could
    not. With an INSTANCE of `MockApeProofs` its theorems hold of the store under the gate
    (`ApeUnderGateCorrect`).
  - `EveryAllowHasItsYes`, by counting. A yes is, one after the other, a grant in one of
    the two stores, in the hands of a thread, and an answer that was given. `Counted` says
    for each call that what was passed, the threads that carry a yes (also one whose reply
    is still on its way from a handler), and the grants that stand, are together no more
    than the yeses to the tokens of both stores. Each step moves one from a place to the
    next, loses it, or adds one on both sides; the property drops all but the first
    summand. `LocalLife` and `RemoteLife` keep a token from being minted or agreed to twice.
- `MockApeProofs`. `ApeInv`: a pending token is as it was minted and not used; a grant that
  stands was given to a token a client was told, for that call, in time, and has allowed
  nothing yet; a handler about to allow holds such a grant. `PendingCapped` counts with the
  theorems on finite sets. `RefusedOnlyWhenFull`: `RefuseMint` alone gives that answer, and
  what the prune before it leaves has not expired.
- `ReceiptLedgerProofs`. Types, `BrokenChainStaysBroken`, and `VerifiedMeansComplete` from
  `CompleteInv`: a reported body, and one whose writer is past its append, has a line that
  carries its hash, or was swallowed by an unterminated line. Both show when a body is
  changed or a line is garbage, so in a file that verifies that line is the receipt.
  `SettledVerifies` and `SoloWriteExtendsChain` follow from what the locals of a lone
  writer say of the file at each of its steps (`Writing`) and from the agreement of file
  and sidecar before and after it (`Agreed`). For the reader, `ReaderInv`: what was checked
  is still there, line by line, until the file is cut or altered, but that an append may
  turn an unterminated last line into garbage, which the second read refuses; every line
  carries a hash that its writer made.
- `SessionMemoryProofs`. `MemoryInv`: the window is the tail of the history of observed
  calls. `CaughtInv`: of a call past its compose scan, every remembered half that is in the
  window and in reach was seen by that scan, although other calls were pushed in since: what
  the scan saw was a shorter run, and by `ReachAssumption` a pattern reached over that too.
  `WipeInv`, `SecretInv` and `LockoutInv` say what a scan made by a call under way has
  already established; the three properties follow when the call is observed.
- `PolicyEnvProofs`. `SealInv`: what was promised of a variable is what the dictionary
  holds, and out of the reach of a race (`Settled`); a late lookup is due exactly that, and
  has been answered it if it found the switch on. `Faithful` and `Promise`: until the
  promise is void the seal agrees with the environment; once the flag is set, every soft
  setting was told or is in the list of a thread that has not returned yet, and before that
  some call is still under way.
- `AllowlistRunnerProofs`. `RunnerInv`: who made a receipt; what the buffer of a run held
  when it was checked; that nothing ran before its script was started; and that what is
  written of a result so far tells nothing of a script that was not run.
- `TokenBucketProofs`. `SpendInv` adds the tokens that are left to the cost let through
  since any time, and bounds the sum by the capacity and the inflow from that time.
  `RecoverInv`: since the last take let through, the bucket is full or holds at least what
  flowed in.
- `ReviewGateProofs`, for files of any length. `SaidInv`: what is pending comes from lines
  that were read with no verdict since, and a record that names a sha says what a line of
  the file says (`AllowIsSaid`). `FailInv`: once the last verdict of the file is read, and
  it is a FAIL that the gate must heed, it is the last record or is pending, until the
  decision is made; `evaluate` takes the last record that concerns the head, so that is the
  one it takes (`LastFailRefuses`). The induction is over the parser's steps, so nothing
  about sequences has to be proved by induction.

`YesInv`, `SaidInv` and `FailInv` were checked as invariants of the runs' instances with
TLC before they were proved.

Only model-checked: the three runs that look for a violation. Every property of the
passing runs is proved. There is no liveness to leave to TLC (see Fairness).

## Plan

Built: the gate with its abstract approval, its taint and its APE; the mock APE; the
ledger with its reader; the session memory; the policy environment; the runner; the
review gate; the token bucket. What is left, most important first:

1. The gate's `Return` composed with the ledger, so that a refused receipt and a lost
   answer are one behaviour.
2. An abstract ledger (an append-only sequence of reported receipts) that the alone and
   undisturbed writer implements.
3. The freshness thresholds of `watcher_health` as operators.

Runs are kept to one per question; a new component shares or replaces one.

## Not modelled

- The classifier's normalisation, decoding and regular expressions, the export scrubber,
  the leak check, the dry-run sender and the audit reports of the Kintsugi kits: stateless
  text processing.
- HTTP framing, body and header limits of the mock APE beyond "malformed"; `health`.
- Hardened git arguments and the parsing of git's output in the runner; what other files of
  the tree hold at the moment its script reads them.
- `sim_hermes_loop`, `demo_loop`, `__init__`, the governance templates: scripted callers,
  re-exports and documents. Any sequence of calls the callers make is a behaviour of
  `PhoenixGate` already.
- Growth of memory: used tokens, prompt counts and session windows are never evicted by the
  code, and the models keep them likewise.
