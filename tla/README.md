# Verification of sandbox-probe and its reference broker

sandbox-probe is a command line harness that tells whether an agent sandbox
contains what runs in it. It runs payloads inside the sandbox, reads two logs
of the egress broker in front of it, and ends with a report and an exit status
that a pipeline gates on. Its own rule is that *a thing that could not be
measured must never read as a thing that held*. Most of what can break that
rule is a matter of order and of partial failure: which outcome is merged into
what, which log line belongs to which run, which sandbox answered, what a payload
saw before the network changed. That is what these modules model, check and, for
every safety property a run checks, prove.

Source paths below are relative to the repository.

## The system

| part | source | state it keeps | operations | hard behaviour |
|---|---|---|---|---|
| registry | `src/sandbox_probe/probes/__init__.py` | `_REGISTRY` | `register` at import, `all_probes` | a clash of ids, a probe that never runs |
| command line | `src/sandbox_probe/cli.py` | none beyond one run | parse, load the target, select, run, print, exit | coverage of a subset run, two separate verdicts |
| run loop | `src/sandbox_probe/runner.py` | the outcomes so far | ask each selected probe in the order of its id | a probe that raises |
| report | `result.py`, `render.py` | none | merge, exit code, JSON, table | errors next to findings, a control that did not hold |
| findings | `finding.py` | none | sort | two findings that tie |
| target | `src/sandbox_probe/target.py` | the config file | load and validate, exec with a timeout, read a log, reset and wait | what the validation lets through, lost answers, payloads that outlive their exec, a restart that has not happened yet |
| bounds probe | `probes/bounds.py` | a marker file in the sandbox, across runs | read the caps, write, reset, look, remove | a marker of another run, an unwritable workspace, a sandbox on its way down |
| attribution probe | `probes/attribution.py` | a line count of `requests.log` | count, cross, read, compare | stale lines, late lines, rotation |
| detection probe | `probes/detection.py` | line counts of both logs | count, cross, read twice, compare | the same, on two logs that are written and read in different orders |
| network probe | `probes/network.py` | none | one exec: address, name, lookup, c2 hosts, control; a verdict | a network that changes under the payload, deadlines, two parsers of one endpoint |
| filesystem probe | `probes/filesystem.py` | marker files, while the payload runs | one exec: paths, process table, sockets, markers; a verdict | processes that come and go during the scan, markers that stay |
| credentials probe | `probes/credentials.py` | none | one exec: environment, files, metadata service; a verdict | an undefined status, a service that is too slow |
| inner protocol, evidence | `inner.py`, `evidence.py` | none | parse the marked line, check shapes, cap lists, clean target-supplied text | output that is lost, cut or of another shape; the element at the cap |
| broker | `reference/broker/broker.py` | `requests.log`, `events.log`, connections | decide, log, alert, drain, answer | handler threads, pipelining, stalled clients, crash between two writes |
| sandboxes, tests, CI | `reference/`, `fixtures/`, `tests/`, `.github/` | | | |

Interaction. `main` imports the probe modules, which register themselves, and
hands the selected ones to `run_all`. A probe calls `Target.run_inside`, which
starts a process in the sandbox and has nothing but its stdout and a timeout. The
network, filesystem and credentials probe rest on one such exec, whose last marked
line is their evidence. The payload of the attribution and the detection probe
sends requests through
the broker, whose handler threads append to the two logs; the probes read those
logs from outside through `request_log_command` and `events_command`. The bounds
probe is the only one that changes the sandbox, through `reset_command`. There is
no shared memory between the harness and the broker: the log files are all they
have in common, and other clients write to them as well.

What makes each part correct:

- run and report: exit status 0 means every registered probe measured its
  invariant and it held; nothing found is lost; every reader is told the same;
- attribution and detection: a clean answer rests on lines this run caused;
- network, filesystem, credentials: a clean answer means that every check was made,
  came back whole and was negative; every count is true;
- bounds: exactly the missing limits are told; each of the two verdicts on
  disposability rests on this run's own
  marker and on a sandbox that was really started anew;
- broker: every received crossing is recorded once, with one decision, before it
  is answered, and only a recorded denial raises an alert.

`PROJECT.json` lists the hazards behind those statements, each at its line.

## Modules

| module | models | notes |
|---|---|---|
| `Report` | `result.py`, `render.py` | operators only; the exit code, the JSON document and the table are separate translations, as they are separate code |
| `Harness` | `cli.py`, `runner.py`, the registry | a run of the tool; a probe is known by its contract |
| `HarnessProofs` | | theorems about `Harness` |
| `Ledger` | | abstract: what the broker promises of every crossing |
| `Broker` | `reference/broker/broker.py` | threads, connections, logs; implements `Ledger` |
| `LogWindow` | `_lines`, `_parse_lines`, the window | operators shared by both log-reading probes |
| `Payload` | `cross_via_proxy`, `cross_direct` | the crossings inside the sandbox |
| `Attribution` | `probes/attribution.py` | extends `Payload` |
| `AttributionProofs` | | theorems about `Attribution` |
| `Detection` | `probes/detection.py` | extends `Payload` |
| `DetectionProofs` | | theorems about `Detection` |
| `Sandbox` | `target.py` (exec, reset) and the sandbox as environment | |
| `Caps` | `probes/bounds.py`, the cgroup files | operators only |
| `Bounds` | `probes/bounds.py`, the marker protocol | extends `Sandbox` and `Caps` |
| `BoundsProofs` | | theorems about `Bounds` |
| `BrokerProofs` | | theorems about `Broker`, and that it implements `Ledger` |
| `InnerResult` | `inner.py`, `evidence.py` | the marked line, shapes, caps on lists; the variables common to the next three |
| `InnerResultProofs` | | lemmas about it |
| `TargetConfig` | `target.py` (load_target) | operators only; with the payload's own parser of `blocked_endpoint` |
| `Network` | `probes/network.py` | extends `InnerResult` and `TargetConfig` |
| `Filesystem` | `probes/filesystem.py` | extends `InnerResult` |
| `Credentials` | `probes/credentials.py` | extends `InnerResult` |
| `Promise` | | abstract: what `run_all` relies on when it asks a probe |
| `OneExec` | the three of them under `run_all` | composes them; implements `Promise` |
| `OneExecProofs` | | theorems about `OneExec` |
| `FindingOrder` | `finding.py` | operators only |
| `FindingOrderProofs` | | theorems about it |
| `MC*` | | instances for TLC |

### Harness and Report

`registry` is `_REGISTRY`, `outcomes` the dictionary of `run_all`, `args` the
parsed command line together with whether the target config loads. `Register` is
one import of a probe module; the second module that declares an id ends the
interpreter. `ParseArgs` is `main` up to the call of `run_all`; `ProbeReturns` and
`ProbeRaises` are one turn of its loop; `PrintReport` is the rest of `main`.
`Interrupt` is Ctrl-C, which is no `Exception` and ends the process.

What a probe does is not modelled here: it may answer whatever its contract
allows. The contract is what every probe module promises, that *no measurement is
never a clean outcome, and a broken invariant is a finding unless something went
wrong*; the history variable `truth` records what was the case. Findings and errors
are represented by the id of the probe that reports them. Whether the single
probes keep the contract is the business of their own modules; `Promise` states it
as a specification, which `OneExec` implements.

Findings are a set here and everywhere else. The code keeps lists and sorts them
(`sort_findings`). `FindingOrder` translates the sort key, with each text a number, its
place in the order of texts; that two different findings never tie, and that a
sorted list of a set is unique, is what makes the set enough.

### Broker

One handler per connection (`pc`, `current`, `decision`, `closing`), a client's bytes as a
sequence of heads and bodies. `TakeDecision` is `host_of`, `_load_allowlist` and
`decide`; `LogRequest` and `LogEvent` are the two `_write`s of `log_decision`, with
anything in between; `Drained` and `CannotDrain` are the two results of `_drain_body`,
and a stalled client leaves both disabled; `Respond` answers and goes on with the
connection or ends it; `ConnectionReset` is a read or a write that raises because the
client is gone. `FileFails` (the allowlist cannot be read, or a `_write` fails), `Crash`,
`EditAllowlist` and the clients are the environment.

A request target is a text: a sequence of tokens, which are words and the
punctuation `host_of` looks at. A client composes it around the name of a host from a
scheme, userinfo, a port and a path (`Composed`, RFC 3986); the broker sees the text
(`Target`), and `HostOf` cuts it up as `host_of` does, netloc first, then the last `@`, a
bracketed literal, the first colon. `decide` applies `host_of` to the result again
(`Matched`), and so does the model. The history `host` of a request is what the
properties compare with; a request that names none (`<<>>`) may have any target.
`urlsplit` refuses a URL with one bracket and not the other (`Unparsable`) and may refuse
others with brackets (`Refusable`), which ends the handler before anything is logged.

`_drain_body` goes by the first `Transfer-Encoding` and the first `Content-Length` line.
`framing.first` is what those say: no body, one of a length, or one that cannot be
trusted; `framing.more` is whether more bytes follow than they say, because a second
header of a kind announces them. Those are drained by nobody and are parsed as a
request line, in the code and in the model.

`versions` are the contents the allowlist file has had; the handler reads the last one
(`allowlist`). `inForce` is history: the versions that were there while a crossing was
being decided, from its request line to its record.

`Ledger` is the promise without threads and clients: record once, alert only on a
recorded denial and once, answer only what is recorded and, if denied, alerted.
`Broker` implements it under the mapping that forgets the host (`L` in `Broker`).

### One-exec probes

`probe` is the probe that `run_all` asks, `stage` what it or its payload does next,
`outcome` what it returns. Each check of a payload is an action of its own, so that
the environment can move in between:

- `Network`: `Load` is `load_target`; `CheckEndpoint`, `CheckHost`, `CheckCanary`, `CheckC2` and
  `CheckControl` fill the result dict `got` in the order of the code. `net` says what
  becomes of a packet to a public address, which names resolve, which of those
  connections are let through, which peers refuse, and what the proxy does; `NetworkChanges` replaces it
  between two checks. A connection that would be opened may miss the deadline, and
  is then in the history variable `slow`. The c2 hosts are joined by commas and cut
  again, as the harness and the payload do.
- `Filesystem`: `LookAtPaths`, which ends with the listing of `/proc` or its failure, then
  `StatProcess` and `OpenEnviron` for each process, two system calls between which it
  may exit, change its user or leave its pid to another (`ProcessChanges`); a stat may
  also be denied, and what was not listed or not determined is in the history
  variable `skipped`. Then `LookForSockets`, `WriteMarker`, `RemoveMarker` and
  `RecordMarker` for each candidate directory and for the workspace. `fate` says what
  becomes of a marker: no file, a file that cannot be written (a full disk), one
  that cannot be removed, or neither. `markers` are the files that lie around.
- `Credentials`: `LookAtEnvironment`, `LookAtFiles`, `AskImds`. A variable is known by the
  tests that `looks_secret` makes of it.

The exec may be lost at any of these steps (`NetworkLost` and its like). If the
payload gets to its end, what arrives is the line it printed, a line with other
JSON, or an object in which keys are missing or of another type (`Bodies` in
`InnerResult`); the verdict (`NetworkVerdict` and its like) is a function of what
arrived and follows every return of `run`. `garbled` records, for the properties
only, whether it was what had been printed. `ListFindings` is the cap on lists with
the finding that counts the rest; candidate paths, which the harness supplies, are
not capped.

`TargetConfig` knows an endpoint by its form (no colon, a bracketed literal, a port
that is missing, not a number, out of range, ...), so that the validator and the
payload, which split it with different code, can disagree. A config file is
unreadable, undecodable, not JSON, not an object, or an object with the faults
`load_target` looks for.

`OneExec` lets `run_all` ask any of the three. `KeepsPromise` is the refinement of `Promise`
in which a probe that raised is answered for by `run_all`.

### Log-reading probes

A log is a sequence of lines `[host, value, src]`; `src` is history that no probe
sees: an earlier run, this run, another client. `value` is what the probe asks of
a line. Lines that do not parse, or name other hosts, are one kind of line, which
counts and is no entry. The broker of these modules may log a crossing well,
badly or not at all, late, and after the payload has given up, since the probes
are there to tell a bad broker from a good one; a crossing stays `pending` until
the broker has handled it, and only then is there an answer to read. A baseline
read is one action with three histories: read, missing (no file yet), failed.
`PayloadReports` may happen at any time, because the sandbox may lie about having
run the payload.

The two hosts a target config names are assumed to differ; `load_target` does not
insist on it, but a config that has them equal asks for a contradiction.

### Bounds and Sandbox

`Caps` gives a sandbox its limits and a cgroup hierarchy (unified, the two layouts of
the older one, or none that can be seen), the files the kernel shows for them, and
the code's reading of those: `ReadFirst`, `CgroupCapped`, `PidsCapped`, `CpuCapped`,
`CapFindings`. No limit is the word `max`, -1, or a number beyond any limit, depending
on the file.

The sandbox restarts asynchronously: a requested restart goes through `stopping`, in
which execs are still answered, `down`, and `up` with the next `generation`. It keeps or
wipes its workspace, which may be read-only. Its identity (PID 1's start time)
changes with each start (`distinct`), never changes (`frozen`, a restored snapshot) or
cannot be read (`silent`). An exec that gets no answer may not have run, may have
run, or may still be about to run (`late`) until the sandbox dies. `marker` holds the
runs whose write left the file there; the code sees only whether it is empty.
`ReadIdentity`, `RunCommand`, `CommandReturns`, `Confirm` and `CheckFails` are `Target.reset`.

`wroteIn` and `seenIn`, the generations in which this run wrote and looked, `seen`, whose
marker it found, and `overtaken`, whether a late payload took effect meanwhile, are
history that only the properties read.

## Runs

| run | question | result |
|---|---|---|
| `harness` | Are the exit statuses 0 and 3 earned, do all readers agree, is nothing lost, does `run_all` implement `Promise` for each probe? | holds |
| `harness_unreachable` | Is an unreachable target exit status 1, as `README.md` says? | violated: it is 2 |
| `broker` | Do the logs agree, is every crossing recorded, is a body that was announced ever parsed as a request, is what is allowed listed and what is denied not, does `Broker` implement `Ledger`? | holds |
| `broker_unparsed` | Does every request line reach the log, as the docstring of `Handler` says? | violated |
| `attribution` | Does a clean answer rest on this run's lines, and every verdict on some line; does the read race with the log? | holds |
| `attribution_baseline` | Is a broken baseline read "not forgiven", as the comment says? | violated |
| `detection` | What does a clean answer mean, does every verdict rest on the window, and does a proved finding survive later failures? | holds |
| `bounds` | Are both verdicts truthful, is a marker left behind ever silent, are exactly the missing limits told, does every run end? | holds |
| `bounds_marker` | Is the marker removed "on every path"? | violated |
| `one_exec` | What does a clean answer of the credentials, filesystem and network probe mean, are counts true, does each keep the promise? | holds |
| `network_typo` | Does every accepted c2 host get tried, as "a config typo must fail loudly" says? | violated |
| `filesystem_marker` | Is every marker left behind reported, as the comment says it must be? | violated |

### Properties

- `ContainedIsEarned` needs the registry, the exception handler, the merge and the
  coverage rule together: dropping any of them breaks it.
- `ReadersAgree` compares the exit status, computed in `cli.py` from the report, with
  the document, computed in `render.py` from the report and the metadata.
- `FindingsAreMeasured`: status 3 is earned as well. A run that found something and
  could not measure something else has to end with 2, so 3 means that nothing is
  missing.
- `AsksOnce` is a refinement per probe: what `run_all` has of it is `Promise` again,
  now as the caller sees it. A probe that raised is answered for, once and for
  good, and never by a clean outcome.
- `LogsAgree` and `LedgerSpec` relate the two files and the answers, which separate
  steps of concurrent threads produce.
- `NoBodyReadAsRequest` is about the body that the first framing headers of a request
  announce, however clients pipeline, stall, claim a length or hang up. It is not
  about bytes that only a repeated header announces: `broker.py:145-148` read the first
  header of each kind, keep the connection, and those bytes are parsed as a request
  line.
- `AllowedIsListed` and `DeniedIsUnlisted` compare the record with the name the client
  wrapped in its target, and with the versions of the allowlist that were in force
  while that request was being decided, so that a list kept from an earlier request
  breaks them. The wildcard rule is stated with `Covers` (one label more) and not with
  the code's comparison of suffixes and dots.
- `EveryCrossingIsRecorded` is liveness: a client that stalls in its body cannot keep
  its crossing out of the log, because it is logged first. Its exceptions are a file
  that fails, a crash, and a target `urlsplit` may refuse; `broker_unparsed` shows that
  the last one is real.
- `CleanIsThisRuns`, `CleanMeansAlerted`, `CleanMeansSeparated`, `SeparationNeverStale` say what
  a clean answer rests on. Their preconditions are the limits of the method: the
  baseline read did not fail (`baseline # "failed"`), and nobody else wrote (`~crowded`).
  `attribution_baseline` shows that the first of those limits is real; the second is so
  by the shape of a log line, which does not say who caused it. Rotation is a limit
  only of the separation verdict.
- `VerdictsRestOnLines` and `VerdictsRestOnWindow` have no such preconditions: whatever
  was misread and whoever else wrote, each verdict, good or bad, has a line that
  says so, and the two ways to be misled are told apart by that line (`Accounted`).
- `AnsweredIsNotReportedUnlogged`: reading the answer before the log is what keeps
  the second read from racing with the broker.
- `PersistsIsTruthful` and `CleanMeansDisposed` are the two verdicts of the bounds
  probe. Both hold with a sandbox that answers on its way down, which is why
  `Target.reset` compares identities. If the identity could not be read, the
  fallback is weaker, and the properties say exactly by how much. A payload of an
  earlier run that removes the marker during this one is the one way to a clean
  answer for a sandbox that disposes of nothing.
- `CapsAreTold` compares what is reported with the limits themselves, through the
  files of whichever hierarchy shows them.
- `CleanMeansContained`, `CleanMeansConfined`, `CleanMeansNoCredentials` say what a clean answer
  of the one-exec probes is worth, and where it stops. A network that changed under
  the payload is not covered, and a connection that was opened after the deadline
  reads as none (`slow`, `tooLate`). A refusal of the literal may be its peer's, over an
  open route: `README.md:515` asks for an endpoint that "answers or refuses", and one
  that refuses by itself makes an uncontained sandbox read as a contained one.
  Of the process table only the processes within `scan_limit` that were there
  throughout count, and only those the scan could list and whose owner it could
  determine (`InReach`). Where it could not, it counts nothing, as
  `test_scan_reports_nothing_when_proc_cannot_be_listed` and
  `test_scan_skips_a_process_whose_owner_cannot_be_determined` assert, and the answer may
  be clean although the scan was not made.
- `CountsAddUp`, `ForeignCountIsReal`, `OpenedIsReported`: numbers and lists in the report are
  neither short nor long, at the cap and while processes change hands; the count of
  foreign environments may be short by the processes that were skipped.
- `EndpointIsAttempted`: whatever `blocked_endpoint` the config is accepted with, the payload
  finds an address and a port in it.
- `FailedRemovalIsTold`: a marker that was written and stays is in the report.
- `KeepsPromise`: any answer, of any of the three, after any loss or damage, is one
  `Harness` may rely on.

### Bounds and why they are enough

- `harness`: three modules and three ids give every pattern of clashes (none, two
  of three, all), any selection, and an order in which a probe that raises comes
  before, between or after others. The properties compare at most two probes, or
  a probe with a module.
- `broker`: two connections with two requests in all: two concurrent handlers, or
  two pipelined requests on one connection, which is what a misread body and a
  double record need. One mishap (`MaxMishaps`), an edit, a file that fails or a crash,
  between any two steps: the first request decided before an edit and the second
  after it is the case a kept list would get wrong. Of the three requests one is to
  a host that a wildcard covers in one of the two lists, wrapped in userinfo, a port
  and a path with an `@` and a colon in it, with a body of a length; the userinfo of
  the second reads like that host, its own host is a label too deep, and its framing
  cannot be trusted; the third names an address in brackets, which `urlsplit` may
  refuse, and repeats a framing header. The proofs take any requests, so composed.
- `broker_unparsed`: one connection and one kind of request.
- `attribution`: up to two lines of earlier runs and three lines before other
  clients stop, so that the log can shrink, stay, or grow back over the baseline
  after a rotation. `detection`: the earlier lines are those that could mislead the
  probe, and one line of another client, because the logs are two.
- `one_exec`: `ListLimit` 1 with up to three secrets, two c2 hosts and three pids, so
  that lists are at, below and beyond the cap (all candidate paths and environments
  are enumerated; five kinds of variables). `ScanLimit` 2 of three pids puts a process behind
  the scan. One pid changes hands (`MaxChurn`), one change of network (`MaxChanges`), each
  between any two steps: the properties are about what one change can hide. Every
  form of endpoint, every fault of a config that is otherwise good, the three
  shapes of a c2 list (none, two entries, one with a comma and one empty).
- `network_typo`, `filesystem_marker`: the same, one probe at a time.
- `bounds`: five setups of limits, from the lowest limit to the highest, in each
  hierarchy; `Ceiling` is 4 in place of 2^62 (TLC's integers have 32 bits; the proofs
  take any value). Three runs, so that a marker or a payload of one run can reach over a
  whole run in between; two checks of the new sandbox instead of 60 (the count
  only ends the wait).

Deadlock is not checked in any run: each is a program that ends, or a bounded
environment that runs out of requests.

### Fairness

`broker`: weak fairness of each handler thread, which the operating system's
scheduler gives; none of clients, edits, failures or crashes. A stalled client
disables its handler's step, so fairness does not push through a read that has no
data. `bounds`: weak fairness of the probe's steps, since every exec and every
command of the harness has a timeout (`_run`); none of the sandbox, which may stay
down for good, and none of the operator who runs the tool again.

## Proofs

Every theorem below is for all values of the constants: any number of
connections, requests, edits, faults, modules, runs, processes, names, and logs of
any length. The assumptions are the named ones of the modules: bounds are natural
numbers; requests are composed as RFC 3986 has it around a host that is a name, or
name none, and allowlist entries are sequences of labels; worlds, networks and
config files are of the types the modules state; the two hosts of a target differ;
the process table is finite; and `OneExec` has an environment, a config and a network for a probe that is
not asked to keep.

| module | theorems about | invariant and why it is needed |
|---|---|---|
| `HarnessProofs` | `TypeOK`, `ContainedIsEarned`, `ReadersAgree`, `NothingFoundIsLost`, `FindingsAreMeasured`, `AsksOnce`; `StatusOrigin`, `ClashNeverRuns`, unreachable targets, subset runs | the registry holds exactly the modules imported so far, each under the id it declares, and no two declare the same one; nothing is asked before all are imported; every recorded outcome keeps the contract with what was the case; status and document are those computed from the outcomes. `StatusOrigin` adds where a status comes from if no report was printed, `NothingMeasured` that no probe of a target that cannot be reached measures anything |
| `AttributionProofs` | `TypeOK`, `WindowIsFresh`, `CleanIsThisRuns`, `AnsweredIsNotReportedUnlogged`, `VerdictsRestOnLines` | after a baseline that did not fail, lines of earlier runs are only at positions up to `before` (a rotation moves them down, an append adds none); without other writers no line is theirs; the lines a clean answer was drawn from are in the log; a host is sent to once, so an answered crossing is settled and its line, if any, lies behind the baseline (`AnswerInv`); the line a verdict was drawn from was in the window and is still in the log, since the run is over (`VerdictInv`) |
| `DetectionProofs` | `TypeOK`, `CleanMeansAlerted`, `CleanMeansSeparated`, `SeparationNeverStale`, `ProvedFindingIsKept`, `VerdictsRestOnWindow` | the same of both logs; and what the read of the events took out of them: `delta` is this run's, still in the log unless it was rotated, and complete for the allowed host once that crossing was answered; the findings fit `delta` (`Fits`), and the pair of request lines that opened the separation check is not an earlier run's (`PairIsFresh`) |
| `BoundsProofs` | `TypeOK`, `CapsAreTold`, `PersistsIsTruthful`, `CleanMeansDisposed`, `LeftMarkerIsAnError`; `BoundedWork`, `NeverAsked` | payloads that are still out belong to this run or an earlier one, and this run's own write is out only after the run ended with an error; from the write to the second look the marker is this run's alone until a restart wipes it, and a restart ends what could put it back; an identity that differs is that of a later generation |
| `BrokerProofs` | `TypeOK`, `NoBodyReadAsRequest`, `LogsAgree`, `AllowedIsListed`, `DeniedIsUnlisted`, `LedgerSpec`; `NothingIsDropped` | a crossing is in one place, once in one stream or with one handler; what is recorded was read; what a handler has written by the time it is where it is; heads and bodies alternate as announced across the stream, what the client still owes and what the handler works on, unless the connection is about to be closed. `Listed` adds that every decision, made or recorded, is the one that a version of the list calls for which was in force while its crossing was decided (`Justified`); that needs what `HostOf` makes of a composed target, which is the name in it |
| `OneExecProofs` | `TypeOK`, `CleanMeansNoCredentials`, `CleanMeansConfined`, `CleanMeansContained`, `CountsAddUp`, `OpenedIsReported`, `EndpointIsAttempted`, `FailedRemovalIsTold`, `ForeignCountIsReal`, `KeepsPromise`; `ReportIsExact`, `StrayMarkers`, `PlainIsTried`, `FindingsAreFound` | for each stage, what the part of the result dict that is filled in by then shows about the sandbox; and of every outcome, that silence means the invariant holds and damage means an error or a failed control. Six more invariants build on it: no check begins unless the config was accepted (`EndpointInv`); what is noted of removals is what lies there, but for the marker about to be removed (`MarkerInv`); of the pids the scan is done with, the count lies between those in reach and those met (`CountInv`); the count and what is left to scan fit the limit (`ScanFits`); of the places the payload is through with, it noted those it wrote in, and the markers that lie there are those that stay (`ExactInv`); what it noted of files and of the metadata service is still so when the report is made (`FoundInv`) |
| `FindingOrderProofs` | `OrderIsTotal`, `OneOrderOnly` | the order of tuples is total, transitive and irreflexive; two sorted lists of one set agree at each place |
| `InnerResultProofs` | lemmas only | what is printed is read back; a misshapen key is noticed; shown and cut add up |

Each module has the same layout: the parts of the inductive invariant, one lemma
or step per action, the invariance of `IInv`, then one theorem per property.

There are three refinements. `LedgerTheorem`: the mapping forgets the host of a
line, so the proof needs that an appended line is appended in the image as well
(`RequestsSeenGrow`, `EventsSeenGrow`); the guards of the ledger's actions are parts of the
broker's invariant. `PromiseTheorem`: every step in which one of the one-exec probes
returns is a `Return`, because `Judged` is the contract. `AsksOnceTheorem`: the loop of
`run_all` implements `Promise` for every probe it may ask, also when the probe does not;
with `PromiseTheorem` the two sides of the call meet at one specification. The
remaining probes do not implement `Promise` as it stands, and that is a fact about them:
what a verdict of theirs is about, the log or a sandbox with a late payload, keeps
moving after the answer, so that no state of theirs says for good what was the case.

### Where the documented claims end

Each run that expects a violation refutes a sentence of the documentation. What is
the case instead is proved, so that a reader knows how far the sentence is off:

| run | theorem | what holds |
|---|---|---|
| `harness_unreachable` | `UnreachableIsIncomplete` | the status is 2, and the document says that the run is incomplete |
| `attribution_baseline` | `CleanIsThisRunsHolds`, attribution's `VerdictsTheorem` | a clean answer rests on lines of this run unless the baseline read failed or others wrote, and on some lines that say so in any case |
| `broker_unparsed` | `NothingIsDroppedTheorem` | a crossing leaves its handler unrecorded only through a bracket in its target that `urlsplit` may refuse, a file that failed, or a crash |
| `bounds_marker` | `OnlyALostWriteIsLeft` | a removal is asked for on every path but that of the first exec whose answer is lost, and that run has an error and no findings |
| `network_typo` | `PlainTheorem` | an entry is answered for exactly if it is a single name |
| `filesystem_marker` | `StrayMarkersTheorem` | a marker is untold of exactly if its write failed after the open and the place is not reported as readable |

### What is only model-checked

Liveness, `EveryCrossingIsRecorded` and `EveryRunEnds`, is outside what the proof system does
with fairness, but the safety half of each is proved, and fairness has little left
to add. `BoundedWork`: each step of the probe brings the end of its run nearer, by the
count `StepsLeft`, and no step of the sandbox moves it away, so that a run takes at most
`MaxAttempts + 8` of them. `NothingIsDroppedTheorem`: a received crossing leaves its handler
only for `requests.log`, through a fault that is noted or for a target that `urlsplit` may
refuse, and nothing another thread or, once it has sent the request, a client does
takes it away. What fairness adds is that the next step is taken.

That Python's `sorted` gives a sorted list is its promise; TLC evaluates `SortFindings` on
every order of some sets of findings. Every other property of a passing run has a
theorem.

## Not modelled

- `safe_text`: the cleaning and the length of one line of target-supplied text; no
  verdict depends on it.
- Wording, layout and escaping of output; time stamps; argparse's own exit status
  2 for a command line it cannot parse.
- Environment variables whose name begins with `PROBE_`: the probe skips them by
  name, and so do the properties.
- What `urlsplit` makes of the text between two brackets (it depends on the version of
  Python): the model lets it refuse or accept. A literal in brackets is decided by
  its text before the first colon, since `decide` applies `host_of` to it again, so an
  allowlisted one is denied; `AllowedIsListed` and `DeniedIsUnlisted` are about names. A
  target without a scheme whose text is not a name (`/files.pypi`) is decided as it
  stands, and may match a wildcard; it names no host, and they do not cover it either.
- Torn writes of the broker (`_write` is one short write under a lock) and the
  exhaustion of its threads by stalled clients, which the container's pids limit
  decides.
- The container configuration of the two sandboxes, the tests and CI: no state of
  their own. The sandbox is the environment of `Sandbox` and of the one-exec probes.

## Plan

1. Done: all components with state of their own; the proofs above, which state every
   safety property of a passing run.
2. `Broker` and `Attribution` composed over one log. The broker of the log-reading
   probes is already more general than `Broker`, so their safety properties carry
   over; what a composition would add is the host as the config writes it and as
   the broker logs it (capitals, a port), which `host_of` normalises on one side only.
