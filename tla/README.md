# TLA+ models of the CJP mirror network

This directory holds TLA+ specifications of the programs in `packages/`, TLC
configurations that model-check them on small instances, and proofs of their
safety for every instance, checked by TLAPS. `PROJECT.json` is the index: which
definition models which lines, what every run checks, and where the code is
exposed to what.

## The system

A static site is released as an IPFS directory. Signers sign a `latest.json`
that names its CID, a version and a time stamp (`publisher sign`), and announce
it through the git host, IPNS and Nostr relays (`publisher publish`). Mirrors
(`packages/mirror`) poll all of these, check that enough trusted signers signed,
pin the CID in their own kubo node, unpack the site into the directory nginx
serves, and send heartbeats to the relays; mirrors also read each other's
heartbeats and publish attestations of them. In the visitor's browser the site
checks itself against the same announcements (`site/js/verify.js`) and shows the
mirrors that are alive (`mirrors.js`, `trust.html`).

| Part | State it keeps | Operations | Talks to |
|---|---|---|---|
| Mirror daemon: `daemon.go`, `config.go`, `main.go` | `state` in memory (key, CID, version), the state file, two mutexes, the signers loaded at start | `newDaemon`, `Run` and its four tickers, `poll`, `heartbeat`, `updatePropagation`, `updateAttestation` | all below |
| Announcements and signatures: `latest.go`, `signing.go` | none | `fetchLatest` (first URL that answers), `allSigs`, `verifyThreshold` | clearweb URLs |
| Nostr: `nostr.go` | none | `fetchUpdateFromNostr` (newest event of any relay), `broadcastHeartbeat` | relays |
| Relay pool: `relaypool.go` | one connection per relay, under a mutex | `getOrConnect`, `markDead`, `publish`, `Close` | relays, from several goroutines |
| IPFS client: `ipfs.go` | none of its own; kubo's pins, the served directory | `PinAdd`, `PinRm`, `Ping`, `FindProvs`, `GetTar` | kubo, the disk |
| Attestation: `attestation.go` | two replaceable events of this mirror on the relays, `peers.json`; nothing in memory | `buildAttestation`, `publishAttestation`, `writePeersFile` | relays, the disk |
| Publisher: `packages/publisher` | `latest.json`, the signer's key | `keygen`, `sign`, `publish`, `verify` | kubo, relays |
| Site: `verify.js`, `mirrors.js`, `trust.html`, `forms.js` | the page, a pasted `latest.json` in the browser's storage | choose and verify a release, aggregate heartbeats and attestations, post forms | relays, the page's origin |
| Deployment: compose, nginx, strfry | volumes, restart policy, limits | | |

What is hard in it:

- *Concurrency in one daemon.* Every tick of a ticker starts a goroutine. `poll`
  reads the state, waits up to minutes for kubo, and then writes the state; only a
  `TryLock` keeps two of them apart. Heartbeats read the state meanwhile; three
  kinds of goroutines write into the directory that `GetTar` is replacing.
- *Crashes.* A signal, a crash or a restart of the container ends the process
  between any two calls: after the unpin and before the save, after the truncation
  of the state file and before its write, in the middle of a promotion. The next
  process may find the state file gone, or fail to read it although it is there.
- *Partial failure.* A pin may fail or be carried out although its answer is lost;
  a save or a `GetTar` may fail and `poll` goes on.
- *Ordering.* Announcements come from several sources, the newest one is chosen
  before its signatures are checked, a site may be rolled back to an old CID.
- *No coordination between signers.* A signing round exists only in copies of a
  file that people pass on, merge and edit, and relays take events from everyone.
- *Nobody sees everything.* Relays hold different parts of what was sent, answer
  with the newest few hundred events, and are asked one after another while others
  publish; mirrors lose their keys and come back to them; each browser picks its own source.

What makes each part correct:

| Part | Properties |
|---|---|
| Daemon | holds, saves and advertises only what a threshold signed; never goes back while it runs; never holds or would come back to something kubo does not cover, but for a saved state that some start could not read; records nothing that is not pinned; adopts what stays published; its heartbeat settles on what it holds |
| Relay pool | leaks no connection, never hands out a closed one, never drops one that did not fail, and recovers |
| Served directory | never mixes two releases; what it shows is all of the release the mirror holds, and nothing in between; a populated release stays whole; the snapshot files come back and settle |
| Publisher | a met threshold stands for that many people who signed this very content, or for one at least where an entry was repeated by hand; a relay that refuses keeps the update from no other |
| Attestation | a peer record is exact about what was heard; an attestation refers to nothing later than itself; the archive never outruns the current state; no key endorses itself, and a mirror does not establish itself before its third key |
| Browser | ticks a page only for content a threshold of people signed, with the same exception |
| All together | a mirror and a browser, or two mirrors, accept different builds under one version only if a signer signed both, or with the same exception |

## The modules

| Module | Models | Remarks |
|---|---|---|
| `Signing` | `signing.go`, `latest.go` (mirror), the rule that all programs share | no state; a signature names its key and its message and is good exactly for that message |
| `Mirror` | what a mirror promises to the network | abstract; implemented by `Daemon`, and by each mirror of `Network` |
| `SiteDir` | what `GetTar` promises about the served directory | abstract; implemented by `ServeDir`, by `Daemon`, and by each mirror of `Network` |
| `Daemon` | `daemon.go`, `config.go`, `nostr.go`, `latest.go`, pins in `ipfs.go` | one daemon and everything around it |
| `RelayConn` | `relaypool.go` | one `relayConn`; a pool is one copy per relay, and they share nothing |
| `ServeDir` | `GetTar`, `updatePropagation`, `writePeersFile` | entry by entry; `Daemon` sees the same directory as one value, `served`, and both implement `SiteDir` |
| `Publisher` | `cmd_sign.go`, `cmd_publish.go`, `latest.go`, `nostr.go` (publisher) | copies of `latest.json` and the broadcast loop |
| `Attestation` | `attestation.go`, heartbeats in `nostr.go`, `load()` of `trust.html` | any number of mirrors over any number of relays |
| `Network` | `verify.js`, the paste form of `trust.html`, and the whole way of a release | extends `Publisher`; its mirrors are those of `Mirror` |
| `MC*` | instances for TLC | |
| `*Proofs` | theorems and proofs | one for each of `Daemon`, `RelayConn`, `ServeDir`, `Publisher`, `Attestation`, `Network` |

### Daemon

`mem` is `d.state`, `disk` the state file, `pins` what kubo has pinned, `served`
the directory, `advert` the last heartbeat that a relay took from this mirror, which is
what a reader sorting by time shows (they are events of kind 1, which relays keep
side by side). `pc[p]` is where a goroutine running `poll()` is, with its
locals `http`, `nostr`, `latest`, `prev`; `pollMu` is the mutex. One action stands
for what `poll` does between two points where others can act: the start
(`PollStart`; a `TryLock` that fails changes nothing), the two concurrent fetches,
the early returns (`Reject`) or their opposite (`Accept`), the ping, the pin, the
unpin, the update of the state, the two halves of `os.WriteFile`, the two halves of
`GetTar`, the heartbeat. kubo carries out a pin or an unpin in a step of its own
(`KuboPins`, `KuboUnpins`), so that it may be done without the daemon learning of
it, and the daemon may give up without it having been done. It does so while the call
lasts or not at all: kubo drops a request whose client has gone. `RecordsOnlyPinned`
rests on that. `Exit` ends the process
anywhere and forgets what is in memory; `Start` is `newDaemon`.

`loadState` returns the empty state for any error of reading the file, and `newDaemon`
saves nothing: `Start` may come up with what is in `disk` or without it (`Loadable`), with
a key of its own, and `disk` stays. Two history variables say what that means for the
properties. `loaded` has every signers file a process has run with, so that
`Provenance` asks for a threshold of signers that were loaded and not of those that are
deployed. `passedOver` is set when a start comes up without a state that is there, and
cleared when a save gets to open the file. While it is set, the file may name a newer
release than the process holds, of which nothing need be pinned any more, and
another key: `NeverLosesRelease` and `DiskNeverAhead` say that this is the only way to get there.
The history decides no step.

The environment uploads any announcement to any URL, announces and expires events,
and deploys signers files, at any time. `Announce` asks only for a signature, as
`publisher publish` does (cmd_publish.go:28).

A fetch from Nostr sees any subset of the events (the relays that answer in time),
and returns one of the newest; equal versions are a nondeterministic choice.

### RelayConn

`relay` is the field, `held[c]` the connection a goroutine has in its hands. The
two critical sections of `getOrConnect` and the one of `markDead` are steps; dialing
and sending are outside the mutex. `Conns` are names: one is used again when its
connection was closed and nobody refers to it. `Drop` is the network.

### ServeDir

`live[e]` says of which release the top-level entry `e` of the directory is.
`GetTar` is extraction to staging, `ReadDir`, removal, promotion, entry by entry,
with failure possible at each. `Rank` is the order of names in which `os.ReadDir` lists
them. A top-level directory counts as one entry: it is
renamed in one call and, as an abstraction, removed in one step (`RemoveAll` of a
directory can fail halfway; the release it is of does not change by that).
`updatePropagation` runs any number of times at once; two writes into one open file
may leave the bytes of both (`Garbled`). A file that `GetTar` unlinked swallows what
is still written to it. `writePeersFile` writes and renames; only one runs at once,
because `updateAttestation` is guarded by its ticker's period and its timeouts.
`Restart` is the end of the process and its start, which may find in the state file
the last release, an older one (a save failed since), or none (lost or not readable).
A tar that ends without an error is taken to be whole (`ListOld`).

`SiteDir` says what all this amounts to for anyone else: `held` is the release the
mirror holds, `site` the one that is up, all of it, or none. Of `ServeDir`, `site` is
`ReleaseIn(live)`: the release of which the directory has each entry and no other one.
The first removal takes it down, the last rename puts it up. Of `Daemon`, `site` is
`served`, and `None` while that is `Partial`. That justifies the two steps that stand
for all of `GetTar` elsewhere (`PromoteStarts` and `PromoteEnds`, `TakeDown` and
`Populate`).

### Publisher

`file[s]` is the copy of `latest.json` in the checkout of `s`. `Sign` is the whole of
`cmdSign`: continue the round in the file if the CID is the same, otherwise start a
fresh one with the clock's time and the next version, drop a legacy signature, refuse
a second entry of a key, append. `Share` hands a copy on. `WriteTorn` is an
interrupted write, after which the next `sign` starts again at version 1 (`cmdSign`
drops the error of `readLatest`). `Publish` reads the file once; `Accepts`, `Refuses`,
`Hangs` and `TooLate` are the rounds of the loop over the relays, which share one
30-second context. `made` records every signature ever made: it is what lets
`ThresholdMeansPeople` speak of people and not of entries.

Not every announcement comes of these commands. latest.json is a text file that people
merge and edit, and relays take any event. `Strays` are the announcements that no command
writes: any content with any entries. One of them may be around (`Circulate`) once the
signatures in it that are good for what it says have been made; from then on it is on
relays, a signer may take it for the own latest.json (`Take`) and sign, share and publish
it, and in `Network` anyone may push it or paste it. Entries are counted and not signers
(signing.go:66-78, verify.js:178-193, trust.html:287-298), so what a threshold stands for
has two parts. A trusted signer of this very content is there always. There are as many
different ones as the threshold asks for unless a stray of the same round repeats an
entry (`Repeated`). `sign` itself never does that.

### Attestation

`beats[r]` and `atts[r]` are the heartbeats and attestations that relay `r` holds;
`said` is the sequence of all attestation events there ever were, so that a place in
it is an event id and an event can only refer to earlier ones, as a hash can. A key
is a mirror and a number. A new key is saved with the first adoption only, so that
what a process leaves in the state file (`Leaves`) is its key, what it found there, or
nothing. `Restart` brings the mirror back with the key in the file, or, if the file is not
there or cannot be read, with the next one (`ensureNostrKey`), while the file keeps the old
one for a later start. `used` counts the keys a mirror has had.

`work[m]` is one `updateAttestation`: the relay it is at (`i`), the query it is in
(`phase`), its `peers` and `seen` so far, and `got`, which the code does not have: the
heartbeats that came in, by relay, for `RecordsAreExact` to compare with. Every event
that a query yields is a step (`HearsBeat`, `SeesAtt`), and so is the end of a query,
which comes whenever it likes: at the end of stored events, at the timeout, or with an
error. `Answer` is what a relay yields: the newest `Cap` events since the window began,
although the code asks for 5000. `PublishCurrent` and `PublishDay` are the two events
of one attestation: any relays may acknowledge each, none ends it after the first. Both
carry the time taken at the start of `publishAttestation`. A relay takes no event that
is too far ahead of its own clock (`Acknowledge`). A new event of a key and a tag
replaces the old one (`Holds`); that relays choose between two of the same second by
their ids is left out, for 45 seconds lie between any two of one mirror.

`Endorsers` and `Established` are the two layers of endorsement that `trust.html` adds
up, over whatever subset of the events a browser gets (`Answers`). Its map from event
ids to attesters and the `pubkey` that a reference carries agree for mirrors that run
this code, and are one here.

At most one `updateAttestation` of a mirror runs at a time: they are six hours apart
and last minutes.

### Network

`Network` extends `Publisher`: signers, files and relays are its variables, and its
`Next` is one disjunct of `NetNext`. `host` is what the git host serves, which anyone
with push rights replaces by any announcement there is (`Push` asks for no signature). Relays
hold what was published and what else is around (`OnRelays`). A
mirror is `up`, `trust`, `held` and `saved`, the variables of `Mirror`, which comes up with what it saved or with nothing, and the `site`
it serves, which follows what it holds late or never: `TakeDown` is the removal of the
old files, after which a visitor finds no page there, and `Populate` the promotion of
the new ones, which may not come. `NetworkMirrorsImplementMirror` and
`NetworkMirrorsImplementSiteDir` say that each of them is a `Mirror` with a `SiteDir`,
and `DaemonImplementsMirror`, `DaemonImplementsSiteDir` and `ServeDirImplementsSiteDir`
that the program is one, so what is shown here rests on the daemon as it is.

A visit is one run of `verify.js`: the source of `latest.json` (`Candidates`: a pasted
one, else the host, else the newest of the relays that answer; the host may fail to
answer at any time), the signatures (`Checks`; `NoCrypto` where the page has no
`crypto.subtle`), the manifest (`Manifest`, `NoManifest`), and the page, fetched once
more from what the mirror serves by then (`Hashes`, `PageBlocked`). `Paste` checks
before it stores, and nothing removes what is stored but `Clear`. A page is what its
build says it is (`PageOf`), and comparing hashes is comparing pages.

## The runs

| Run | Shows | Distinct states |
|---|---|---|
| `daemon` | `Provenance`, `NeverLosesRelease`, `DiskNeverAhead`, `RecordsOnlyPinned`, `NoDowngrade`, `ImplementsMirror`, `ImplementsSiteDir` | 678,960 |
| `daemon_live` | `TypeOK`, `HeartbeatsProvenant`, `EventuallyAdopts`, `HeartbeatCatchesUp` | 79,288 |
| `relay_conn` | `TypeOK`, `HandsOutLive`, `NoLeak`, `LoserIsAlone`, `OnlyFailedDropped`, `Recovers` | 7,480 |
| `serve_dir` | `TypeOK`, `OneRelease`, `PopulatedIsWhole`, `ImplementsSiteDir`, `SnapshotsSettle` | 201,074 |
| `publisher` | `TypeOK`, `ThresholdMeansPeople`, `ReadyIsAccepted`, `ReachesAllUp` | 1,293,371 |
| `attestation` | `TypeOK`, `RecordsAreExact`, `NothingFromTheFuture`, `CurrentStateLanded`, `EstablishedByOthers` | 1,191,262 |
| `network` | `NetTypeOK`, `HeldMeansPeople`, `BadgeMeansPeople`, `SplitMeansDoubleSigned` | 396,370 |
| `already_pinned`, `any_relay`, `auto_update`, `one_relay_hangs`, `distinct_signers` | one violated statement of the repository each, see Findings | stop at the first counterexample |

Every property of a passing run has a mutant of the code, defined next to the
operator it replaces (`Op_WhatIsWrong`), that violates it.

### Bounds, and why they are enough

- `daemon`: three signers of whom two must sign, a second signers file that revokes
  one (and by which one of the releases has too few signatures), two starts, two goroutines,
  and the history A, B, A again
  under a new version. Two starts give one crash with everything before and after
  it, with the state file read or passed over. A third start, which may read again what the second
  passed over, and a signers file that is not readable (`Unreadable`) are left to the
  proofs. Two goroutines are what a mutex needs to matter. A rollback is the only
  case in which a new version has an old CID, and three releases contain it. Announcements
  come and go, and a poll may be answered with none or with one that is gone by the time
  it acts; the constraint `OneAnnounced` leaves out states in which relays hold several at
  once (`daemon_live` has them).
- `PollView` leaves out `hb` and `advert`: no guard reads `advert`, `hb` feeds only
  the heartbeats, and no property of the two runs that use it names either (heartbeats
  have `HeartbeatsProvenant` in `daemon_live`), so states
  that differ in nothing else have the same futures.
  `Goroutines` is a symmetry: nothing distinguishes two polls. Both are used in runs
  without liveness only. The type invariant is in `daemon_live`, where nothing is
  left out.
- `daemon_live`: two releases, one goroutine, one URL, two starts, no directory: the liveness
  properties are about retries, not about races, and a poll that is left waiting
  for the mutex changes nothing. Both releases meet the one signers file, so what
  `HeartbeatsProvenant` finds out there is whether a heartbeat pairs a CID with its version;
  that nothing unverified is adopted is for `Provenance`, in `daemon`, where some releases do not
  meet the file and the directory is served. The proofs have both for all of them.
- `relay_conn`: two callers. A race of dials, a late failure and a closing pool need
  two; three names let each caller hold a connection while a third is in the pool.
- `serve_dir`: two releases that share one entry, one of which has another; two
  `updatePropagation` goroutines, which suffice to overlap and to garble.
- `publisher`: two signers, two builds, three signatures with the one that the first
  file carries (enough for a co-signature and a new round, or for two competing
  rounds), two versions, two time stamps, `--version` absent or 1, two relays and one broadcast. The first file is of
  the current or of the legacy format; mirrors ask for one or two, and trust one key
  or both. The one stray is of the first file's round: its entry twice, and one of the other
  signer that is good in another round only. Deadlock is not checked here: once the bounds are spent, nobody signs.
- `one_relay_hangs`: the same without strays, and with the signature of the first file only.
- `attestation`: two mirrors, of whom one ends and comes back (`Restarting`), with its
  key or with the second one it may have (`MaxKeys`), and from that to the first again; the other's
  clock is one ahead; a relay that both use, and one that only the first has; three
  events in all, which is two heartbeats and an attestation that lists both, or both
  events of one attestation and one that refers to them, or an attestation by each of
  the three keys there may be. The constraint `Returns` keeps one kind of restart, a state
  file that one start fails to read and another reads: a mirror that comes back with its key is
  to others as before, and one that has lost its file is like one that reads it no more.
  An attestation by each key is what `EstablishedByOthers` needs, and TLC
  does reach states with an established key; a mirror with three keys, its exception, is left to the
  proof. A relay answers with one event, so that
  the cap bites as soon as it holds two of different times; the window has no length, a
  day and time itself have two moments. Both mirrors may query at once. Deadlock is not
  checked: once the bounds are spent, nobody publishes.
- `network` and `distinct_signers`: two signers, both of whom mirrors and browsers ask for;
  three builds, of which two compete for the second version: two rounds that start from the
  same file get one number; five signatures, which is two such rounds and the first file's; one
  relay, one mirror and one visitor. A
  mirror and a browser suffice for a split, and TLC does reach states in which they
  accept different builds under one version, each signed by both. The one stray, of a second-version
  round with the entry of one signer twice, is what relays hold; broadcasts (`MaxPublishes` is 0) are the
  subject of `publisher`. Two constraints keep it small:
  `RelaysUp` (relays that refuse or hang are the subject of `publisher`) and `Roles` (nobody's
  file is torn, `s2` has no part in the first round, and of the rounds that compete `s1`
  starts the one about `B` and `s2` the one about `C`). Deadlock is checked.
- The runs of the findings use the smallest instance that shows them.
- `MaxStarts`, `MaxTime`, `MaxVersion`, `MaxSigned`, `MaxPublishes`, `MaxKeys`, `MaxEvents`,
  `MaxQuerying`, `Restarting` and the finite `Polls`, `Conns`, `Writers` are the only bounds of the modules, and the proofs hold for every
  value of them.

### Fairness, and why the code justifies it

- Daemon: tickers start polls and heartbeats (`WF` of `PollStart`, `BeatReads`),
  every call has a timeout so that a poll always gets on, well or not
  (`WF` of `PollStep`), the container has `restart: unless-stopped` (`WF` of
  `Start`). Nothing says that a call succeeds; but the first URL, kubo's ping, its
  pin and its answer, and a heartbeat that are tried again and again succeed again
  and again (`SF`). Nothing is assumed of saves, of `GetTar` or of the relays that
  are asked for updates. `HelpfulSpec` adds the latter two, for two findings, so that
  the code and not the environment is to blame.
- RelayConn: per caller, tickers and timeouts (`WF`), and a relay that answers again
  and again (`SF`), which `Recovers` needs only once drops have ceased.
- ServeDir: tickers and ends of goroutines (`WF`); `findprovs`, the write and the
  rename work again and again (`SF`). Nothing is assumed of `GetTar`, which may hang.
- Publisher and Network: commands are run by people, pages are opened by people; no
  liveness is stated.
- Attestation: queries and publications may all fail, and the code is content with that
  ("best-effort"); no liveness is stated.

## The proofs

All theorems are of the form `Spec => []Inv` or `Spec => Property`, for every value
of the constants that satisfies the named `ASSUME`s of the module (releases have
natural versions and are not one of the marker values; `Signers` is finite; the
first file carries one signature, over what it says; the callers of one pool are
finitely many; and so on). Few of the invariants are inductive alone; each module proves a stronger `IInv` with one lemma
per conjunct, one step per action.

- `DaemonProofs`. `IInv` adds to the checked invariants what a poll under way knows:
  it holds the mutex (`Locked`); its release is trusted by this process (`Trusted`);
  what it compared with the state still holds when it acts (`Ahead`), which is what
  the mutex is for; after the update the state is its release (`Adopted`); before the
  old CID goes the new one is pinned (`Replaced`), which, with `Ahead`, makes
  `NeverLosesRelease` survive the unpinning; a process and its file have a key
  (`Keys`); while files are replaced the directory shows no release (`Promoting`).
  `RecordsOnlyPinned` needs `Replaced` to begin with and then the mutex: only the poll
  that adopted the release could unpin it, and that one has unpinned its old CID before.
  `Provenance` covers pins and the directory too, since only what a poll past its early
  returns carries gets there; it outlives the process because what is loaded stays in `loaded`
  (`VerifiedStays`). `NeverLosesRelease` and `DiskNeverAhead` are shown while `passedOver` is
  not set: `Start` sets it when it leaves the file behind, and after the
  truncation that clears it there is no file to speak of. Proved: `TypeOK`, `Provenance`, `HeartbeatsProvenant`, `NeverLosesRelease`,
  `DiskNeverAhead`, `RecordsOnlyPinned`, `NoDowngrade`, and two refinements: every step
  of the daemon is a step of `Mirror` or a stutter (`ImplementsMirror`), and a step of
  `SiteDir` or a stutter (`ImplementsSiteDir`). For the second, `Adopted` says that what
  `GetTar` puts up is what is held, and `Promoting` that nothing is up before.
- `RelayConnProofs`. `FreshIsOpen` and `LoserIsAlone` (a connection about to be
  installed is open and nobody else's) carry `NoLeak` and `HandsOutLive`, for any
  number of callers. `OnlyFailedDropped` follows from the types. `FewConnections` is a
  count on `NoLeak`: the connections not yet in the pool are at most as many as the
  callers that dial; and while the pool has one, some caller does not (`SomeoneRests`),
  because the caller that put it there finds it again for as long as it is there.
- `ServeDirProofs`. `Staged`, `Removing` and `Promoting` say what staging, the
  listing and the directory are in each phase of `GetTar`; `OneRelease` and
  `PopulatedIsWhole` follow, whatever fails and wherever the process ends. For
  `ImplementsSiteDir` the invariant also says that no entry is there that its release
  does not have (`Genuine`: so a directory with a removed entry is not a release, nor
  one with a missing one), that nothing is there yet of what is still to be promoted,
  and that `GetTar` works for the release that is held (`Calling`), which is what the
  mutex is for. Each step is then shown to take the directory down, to put it up, to
  leave it, or to change what is held, one lemma each.
- `PublisherProofs`. An announcement is `Coherent` when every entry over what it says
  was made by its key (`Genuine`); when no key has two entries, unless a stray of its round
  repeats one (`Single`); and when every entry is over what it says, unless there is a
  stray of its round (`Plain`). That is kept by `Sign` (the
  round is continued unchanged; a key signs once), a stray is coherent by itself being
  around (`CirculateStep`), and copying keeps it everywhere
  else. The entries that count then have a trusted signer each (`CoherentEnough`), and where nothing is
  repeated they map one to one to people (`EntriesArePeople`), by the
  library's theorems on cardinality.

- `AttestationProofs`. Heartbeats and attestations on the relays are never further ahead
  than the tolerance (`BeatsOK`, `SaidOK`), because relays refuse them; hence so is all
  that a build under way has seen (`WorkOK`), and, as it takes its own time last,
  `NothingFromTheFuture`. `RecordsAreExact` is inductive with the types: one more copy
  changes the bounds and the count of one key. `CountedOncePerRelay` bounds the count from
  the other side: a copy is told by the relay it came from, of which only those asked so far
  come into question (`HeardOfAsked`), and by its time, so that there are at most relays
  times heartbeats. For `CurrentStateLanded`, `WorkOK` says that
  a build that is about to send its archive entry has a current state of its time on some
  relay. `EstablishedByOthers` follows from who can refer to whom: no event ever refers to
  its own key, whichever keys the mirror had before and comes back to, so that two endorsers from
  one mirror are two keys beside the endorsed one, of the `used` that it has had.
- `NetworkProofs` stands on `PublisherProofs`. Whatever is taken from a file, the host, a
  relay or a paste is `Coherent`, so what passes the check is backed by people
  (`VerifiedIsBacked`), and stays so, since no signature is withdrawn and what goes around
  does not go away (`BackingMonotone`). `SplitMeansDoubleSigned` is then a count: where no entry is repeated, two sets of signers as
  large as two thresholds that meet have a member in common. `NetworkMirrorsImplementMirror`
  and `NetworkMirrorsImplementSiteDir` are refinements for each mirror, whatever the others
  do (`WhoMoves`).

Only model-checked: liveness (`EventuallyAdopts`, `HeartbeatCatchesUp`, `Recovers`,
`SnapshotsSettle`), which the prover cannot do under fairness, and the violated
statements. Not run but proved: `CountedOncePerRelay`, `FewConnections` and the two refinements of
`NetworkProofs`, whose abstract specifications the runs `daemon` and `serve_dir` check
against the program.

## Findings

Five statements of the repository that the code does not keep. Each has a run with
the shortest counterexample TLC finds.

1. *"the current CID always pinned"* (README.md:220), *"Already pinned"*
   (daemon.go:253). `poll` unpins the old CID before it saves the new state. A process
   that ends in between comes back with the old CID in its state, unpinned; if that
   release is fetched again, `poll` says it is pinned and returns. (`AlreadyPinned`)
2. *"as long as ANY relay [...] has the publisher's signed update event, we ingest
   it"* (daemon.go:179). The newest announcement is chosen before its signatures are
   checked, so one that was published with too few of them hides a valid one as long
   as some relay keeps it. (`IngestsFromAnyRelay`)
3. *"so clearweb mirrors auto-update"* (daemon.go:289). The state is saved before
   `GetTar`; when `GetTar` fails or the process ends before it, later polls return at
   the CID comparison, and the directory stays behind until the next release.
   (`ServesWhatItHolds`)
4. *"don't depend on any single CDN's availability"* (publisher/nostr.go:12). All
   relays share one context of 30 seconds in sequence; if the first does not answer,
   none of the others gets the update. (`SurvivesOneRelay`)
5. *"Minimum number of distinct valid signatures required before showing"* the tick
   (verify.js:43). Valid entries are counted, by verify.js as by the daemon and the paste
   form, and two entries of one key count as two: a merge of two copies of latest.json, both of
   them signed by one person, gets the tick of two. With a threshold of one, as it
   is now, that makes no difference. (`DistinctSigners`)

## Not modelled, and why

- Signatures, hashes and keys are symbolic: a signature is good for its message and
  can be made only by its key.
- `latest.CID[:12]` (daemon.go:231), parsing of configuration and of relay events:
  about the bytes of one value, which the models keep abstract.
- What `updatePropagation` counts, the body of peers.json, the URLs and countries that
  attestations carry: data that nothing reads back.
- `mirrors.js`, the scores and lifetime statistics of `trust.html`, `forms.js`: display
  computed from the answer of the moment, and a form that is sent once.
- The stripping of script tags before hashing (verify.js:256): about the bytes of a page.
- IPNS publication: its failure changes nothing else in the publisher.
- `keygen`, `verify`, the build script, the pages, the bundled scripts, the
  deployment files: sequential, or content, or configuration.
- Relays that let events of attestations expire (README.md:263 speaks of 30-90 days): what is
  said of the archive and of endorsements is about relays that keep what they have not replaced.
- The length of tickers' periods (config.go:88 takes `POLL_INTERVAL=0s`, for which `time.NewTicker` panics).
- Old CIDs that stay pinned after a failed `pin/rm`: in the model, but the code
  promises nothing about them.

## Noticed while modelling

Not findings with a run, but worth a look by whoever maintains the code.

- ipfs.go:239-240 says that "each file flips from old to new instantly": all old entries are
  removed before the first new one is renamed. That is why `SiteDir` has `TakeDown` and `PutUp`.
- config.go:96 says that "State persists across restarts". `loadState` starts from nothing after any error of
  reading the file, also one that passes (config.go:105-108), and then under a key that nothing saves. The
  process may so adopt an older release than the saved one, which a later start comes back to
  when that is no longer pinned.
- `newDaemon` does not save the key it makes: until the first adoption, every start has another one.
- ipfs.go:223 and 225 drop the errors of `MkdirAll`, and `tar.Reader` takes the end of a stream
  between two entries for the end of the tar: `GetTar` may report as populated what is not all of the release.
- attestation.go:60 says that "deduplication and aggregation happen above": heartbeats
  are not deduplicated, and `heartbeats` counts one per relay that has a copy. That is
  why `RecordsAreExact` bounds the count and does not fix it.
- attestation.go:77 asks for 5000 events, strfry.conf:41 allows 500. With a heartbeat a
  minute, 500 are the last eight hours of one mirror, or one hour of eight of them; README.md:206 says
  30 days.
- attestation.go:49-51 says that any verifier can fetch a referenced event. References are
  to replaceable events, which relays drop when the next one arrives.
- README.md:216 calls peers with two attesters "independently observed by multiple
  mirrors". A mirror that has had three keys, say by three starts before its first adoption, may endorse one of them with the two
  others; `EstablishedByOthers` says that this is the only way.
- `buildLifetime` (trust.html:547-556) counts events and not attesters, so that the same
  event from two relays raises a peer's ratio, above one if there are enough of them.
- verify.js:113-115 says that the highest-versioned valid release wins. The order of the
  sources decides, and the first one is final even if its signatures do not verify.
- The page is fetched again for hashing (verify.js:251), so the badge is about what the mirror
  serves by then, which need not be what the visitor sees. The answer's status is not looked
  at: between `TakeDown` and `Populate` the page is gone, and a visitor of an honest mirror
  reads that it "may be serving modified content" (verify.js:266-268).
- `keygen` overwrites `signing.key` without asking, and before `signing.pub`
  (cmd_keygen.go:34-37).

## What is left

- `Attestation` with three mirrors and a larger `MaxEvents`, which a longer run could
  check; the proofs already cover both.
- The aggregation of `mirrors.js` as an operator against a reference definition.
- Liveness of the whole network: that mirrors agree once publishing stops. It needs
  `EventuallyAdopts` of each, under fairness, and so stays with TLC.
