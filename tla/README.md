# Verification of ibmcloud-volume-file-vpc

TLA+ models of the library that provisions IBM Cloud VPC file shares for the
CSI driver, the TLC runs that check them on small instances, and TLAPS proofs.

## 1. The system

The library is called by a CSI driver. Every call opens a session, and the
goroutines of concurrent calls share one process. A session turns a call into
HTTP requests to the VPC file service (RIaaS), which answers at once and works
asynchronously afterwards, so most calls end with a polling loop.

| component | state | operations | hard behaviour |
|---|---|---|---|
| retry loops (`file/provider/util.go`) | package variables `retryGap`, `maxRetryAttempt`, `maxRetryGap`; per call `i`, `err` | `retry`, `retryWithMinRetries`, `FlexyRetry`, `FlexyRetryWithConstGap`, `skipRetry` | unsynchronised update of the shared gap; which errors end a loop; what a loop returns when it gives up |
| REST client (`common/vpcclient/client`) | a session's token and default values; a request being built; the goroutine and pipe of a file body | `NewRequest`, `PathParameter`, `AddQueryValue`, `Invoke`, `copyBody` | goroutines on one client; what an error says about the service; a body that breaks off |
| HTTP clients (`common/vpcclient/vpcfilevolume`) | none | one function per request | lost answers; errors that are not `*models.Error`; errors that are dropped |
| file service (external) | shares and targets with a status | POST, GET, DELETE | asynchronous settling, unique names, one target per VPC |
| volumes (`create_volume.go`, `delete_volume.go`, `get_volume.go`, `wait_for_valid_volume_state.go`) | the call's local state | `CreateVolume`, `DeleteVolume`, `GetVolume`, two waits | retry of a request whose answer was lost; a wait that runs out of attempts; concurrent create and delete |
| access points (`*_volume_access_point.go`) | the call's local state | create, delete, get, wait for both | nested loops; lookup then act; lookup by id and by VPC differ |
| tags (`update_volume.go`) | share tags, etag | `UpdateVolume` | read, merge, conditional write |
| expansion (`expand_volume.go`) | share size | `ExpandVolume` | bytes and GiB; a resize that takes time; others resize too |
| snapshots (`*_snapshot*.go`) | snapshots of a share | create, delete with its wait, get by id and name | lost answers; the share goes away meanwhile |
| listing and lookups (`list_*.go`, `get_subnet.go`, `get_security_group.go`) | none | one page per call, or page loops without a bound | the collection changes between pages; malformed links |
| start-up (`volume_provider.go`, `init_provider.go`, `registry.go`) | configuration, registry, providers | `NewIBMCloudStorageProvider`, `InitProviders`, `Register`, `Get` | which provider is there for which configuration |
| sessions (`provider.go`, `iks/provider`, `riaas`) | shared API configuration, client provider | `GetProviderSession`, `OpenSession` of both providers, `New`, `Login` | unlocked writes to the shared configuration; half-open dual session |
| PV watcher (`pkg/watcher`) | none | `updateVolume`, one goroutine per event | events of one volume overtake each other |
| messages (`common/messages`) | a table | `GetUserError` | codes that are used and not in the table |
| token exchange, node metadata | configuration | I/O | little |

What makes the components correct: a loop makes the attempts it promises and no
more, and always returns; success of a call means something about the service
that a later call can rely on; a failed call has a cause; concurrent calls on
one share neither hand out the same share twice nor block each other; and
goroutines that share a provider, a client or a package variable get their own
sessions, requests and pauses.

## 2. Modules

```
RetryPolicy        error classes, skipErrorCodes, when each loop stops (no state)
  RetryEngine        the four loops run by goroutines that race on retryGap
    RetryEngineProofs  theorems about RetryEngine
    MCRetryEngine
  VolumeTags         UpdateVolume: user tags added under an etag
    (TagSet)           what it promises: an atomic addition to a set of tags
    MCVolumeTags
    PVWatcher          the PV watcher and the IKS update, on top of VolumeTags
      VolumeTagsProofs   theorems about VolumeTags, its refinement of TagSet, and PVWatcher
      MCPVWatcher
  FileShareBackend   the file service: shares, targets, outcomes of requests (external)
    FileShareClient    what a request through common/vpcclient comes back with
      ShareLifecycle     CreateVolume, DeleteVolume and their waits
        ShareLifecycleProofs  with lemmas about requests and the service
        MCShareLifecycle
        AccessPoints       access point operations, while others work on the volumes
          AccessPointsProofs  (with ShareLifecycleProofs)
          MCAccessPoints
  Messages           the catalogue of messages
    RetryLoop          one loop of an operation, as a record (with RetryPolicy)
      ShareDataService   one share, its size and its snapshots (external)
        Expansion          ExpandVolume
        Snapshots          snapshot operations
          ShareData          both on one share
            ShareDataProofs
            MCShareData
      PagedService       a collection that is read in pages (external)
        Listing            lists, page loops, lookups by name
          ListingProofs
          MCListing
    Providers          start-up: configuration, providers, registry
      Sessions           sessions opened by goroutines on the shared providers
        SessionsProofs
        MCSessions
MultipartBody      the body of a file upload: a goroutine and a pipe
  HttpClient         requests of goroutines on one REST client
    HttpClientProofs
    MCHttpClient
```

An error is a record of its Go type (`nil`, `*models.Error`, anything else) and
its codes, because that is all the loops look at.

**RetryEngine.** `pc`, `engine`, `i`, `err`, `stop` are a goroutine's loop;
`Enter`, `Sleep` and `Exhaust` are the loop head, `Call` the callback and the
branch on its result. `retryGap = 2 * retryGap; if retryGap > maxRetryGap {...}`
is four steps (`LoadGap`, `StoreDouble`, `CompareGap`, `CapGap`), since no lock
protects it; the comparison may use the stored register or a fresh load, both
of which a compiler may produce. `tries`, `slept` and `calls` are history.

**FileShareBackend / FileShareClient.** A request is a set of outcomes (the new
state of the service, error, value). `Invoke` adds the faults: the service acts
and the answer is lost (an error that is not a `*models.Error`), or the service
does not act (`FaultErrors`: a connection error, a retryable code, a code the
table lists as not worth a retry). A request and its answer are one step: the
session that waits for an answer changes nothing that others can see. Statuses
move `pending -> stable` and `deleting -> gone` at any later time, or never.

**ShareLifecycle / AccessPoints.** Each session holds a record for its current
operation. Every step is one request of the loop the operation is in, and
`LoopEnds` of RetryPolicy decides whether the loop goes on. Sleeping is
the interleaving of the others. An invalid request ends before the first
request to the service: in ShareLifecycle validity is a flag of the call, in
AccessPoints such a call is the action `RefuseRequest`. `hit`, `made`, `at` and
`ready` are history used by the properties only. A panic leaves its session in
`pc = "panicked"`; in the process it would take everything else down with it.
AccessPoints extends ShareLifecycle: its sessions (`ApSessions`) and those for
volumes (`Sessions`) work on one service, so that a share may be created with
its first access point, or be deleted, between two requests of an access point
operation. It begins with any shares and access points that others have left.
A request, also one to create, names its access point by id, by VPC, or by
subnet only, which no lookup matches (`HowNamed`). An answer 404 is all that
`DeleteFileShareTarget` lets through, and as a `models.Error` by value, which
for its callers is no `*models.Error` (`NotFoundOnly`).

**VolumeTags / TagSet.** One share, whose etag changes with every change of it.
`GetFileShareEtag` is the read together with all the callback does before its
next request (status, `ifTagsEqual`, merge), `UpdateFileShareWithEtag` the
conditional write with its possible answers: refused because the etag is old,
done, done with the answer lost, not done. `Elsewhere` is any other client of the service.
Tags are model values; `SubTag` says which tag is part of the text of which,
because `strings.Contains` on the joined list asks just that. The service
stores a set of tags: the duplicates that `append` makes tell nothing apart.
`start`, `since` and `hit` are history.

**PVWatcher.** `setup` is the driver's configuration: whether its provider is
the dual one, and whether its volumes pass `validateVolumeRequest`. `Event` is
an update of the one PV, with the tags made from it, and the goroutine it starts.
The goroutine compares (`SkipEvent`), opens a session
(`GetProviderSession`: none, both halves, or the VPC half alone, and `getTags`
behind it, which panics on a PV without `ClaimRef`; with the plain VPC provider
it returns here, `pv_watcher.go:207`), runs the `FlexyRetry` loop of the IKS
update (`validateVolumeRequest` before it, `IksUpdateVolume`, `IksPanics`) and
then the steps of VolumeTags with the tags of its own PV (`UpdateTags`). A panic
is recovered by the deferred function, so it ends this goroutine only
(`hpc = "recovered"`). Size and iops are one number, since both only count as
"changed". `before`, the handlers that had ended when an event came, is history.

**ShareData.** The service keeps one share with its size, the size it is being
resized to, and its snapshots; other clients resize and delete the share at any
time. `ExpandVolume` compares GiB with bytes as the code does, and the rounding
up is done in integers that wrap (`GiB` is 4 and integers have 6 bits in the
run, so that sizes below, at and above a GiB and an overflow all happen).
`Expansion` and `Snapshots` use `RetryLoop`, whose `Attempted` is one pass of
any of the four loops. `hit`, `made` and `atStart` are history.

**Listing.** A page is the items from `start` on, up to the limit, with a link
to the next one. The service refuses a limit that is negative or above its
maximum, which is why the lists clamp and check theirs. The link may lack its
`start=` (a fault), which the lists take for the last page and the lookups
report like an item that was not found. `got`, `twice`, `atStart` and
`bad` are history. One reader is enough: readers change nothing, so a second
one is to the first what the changes by others already are.

**Providers / Sessions.** `boot` walks through `NewIBMCloudStorageProvider`
for each configuration; each of its calls may fail. A provider has a base URL,
a client provider and a request id, and is never locked. A Go string is two
words, so `WritePtr`/`WriteLen` and `ReadPtr`/`Login` are separate steps and a
racing reader may see half of one id and half of another. The dual provider's
session is opened half by half (`on` is the provider at work). `crossed` is
history: another goroutine wrote the same provider's id within this one's
window. A configuration without an IKS section ends in `panicked`
(`volume_provider.go:90` reads `conf.IKS.Enabled` without the check that line 66
has); whether the reader of the configuration, which is in another
repository, can leave it out is not known here.

**HttpClient / MultipartBody.** The value a caller puts into a request is the
caller itself, so that mixing shows. `Invoke` is the end of `Request.Invoke`,
what an answer is turned into; before it come `Before`, `Body` and
`HTTPRequest`, and `Act`, `Refuse`, `DoFails` are the service and the
transport. A gateway may answer in place of the service, but not with a JSON
body of errors: that is the assumption behind "`*models.Error` means refused".
The result, `ErrorTellsWhatHappened`, is the fault model that `FileShareClient`,
`ShareDataService` and `PagedService` use for each request.

Operators that begin with the comment "Mutant" are deliberately wrong forms of
the definition that follows. They are not used by the specifications; putting
one in the place of that definition must make the named property fail.

## 3. Runs

| run | bounds | shows |
|---|---|---|
| `retry_engine` | 2 goroutines, one loop each, limits 3, 2 and 12, gap 10, ceiling 15 | `AttemptBudget`, `GapSettles`, `NoBusyRetry`, `LoopTerminates` for every pair of loops and all answers |
| `share_lifecycle` | 2 sessions, 2 operations each, 1 name, 2 share ids, 1 target, 2 attempts, 2 faults | `CreatedShareIsUsable`, `NoSharedOwnership`, `LeakNeedsFault`, `DeletedShareIsDoomed`, `VolumeOpEnds` |
| `deletion_wait_panic` | 1 fault | violation: a connection error in the deletion wait panics |
| `access_points` | 2 sessions for access points and 1 for volumes, 1 operation each (see below), any initial access points, requests by id, VPC or subnet, 2 targets, 2 VPCs, 2 attempts (8 in the waits), 1 fault | `CreatedTargetIsTheOneAskedFor`, `LosingCreatorAdopts`, `DeletedTargetIsDoomed`, `WaitsTellTheTruth`, `EveryRequestBringsItFurther` |
| `delete_target_error` | the same without the session for volumes | violation: a failed DELETE is reported as success |
| `volume_tags` | 3 goroutines, 3 tags of which one is part of the others, 2 attempts, 1 fault, 1 edit by others | `UpdatedTagsCovered`, `RefusedOnlyWhenOvertaken`, `NoLostTags` (refinement of TagSet) |
| `pv_watcher` | 2 events with a handler each, dual or plain provider, volumes that pass the validation or not, 2 sets of tags, 2 faults, 1 edit, 2 sizes, 2 attempts | `BoundVolumeIsTagged`, `SuccessEventIsTrue`, `IksFollowsTheVolume`, `HandlerEnds` |
| `empty_session` | 1 event, 1 fault | violation: a session without IKS half panics |
| `share_data` | 1 goroutine expands, 2 work on 2 snapshots under 1 name; sizes up to 3 GiB, 2 attempts, 1 fault, resizes and deletion by others | `ExpandedShareIsLargeEnough`, `DeletedSnapshotIsDoomed`, `SnapshotAnswersAreTrue`, `NoStraySnapshot`, `DataOpEnds` |
| `listing` | 1 reader, any collection of up to 5 items, pages of 1 or 2, limits from -1 to above the maximum of 2, which the service refuses, 2 changes by others, 1 fault or malformed link | `ListingIsComplete`, `LookupIsTrue`, `ReadingEnds` |
| `sessions` | 12 configurations, then 2 goroutines, any number of sessions, 2 request ids or none | `SessionIsWhole`, `OwnRequestID`, `ReadyProviderIsRegistered` |
| `http_client` | 2 goroutines, any number of requests, 4 kinds of body, files of 0 or 2 chunks | `ErrorTellsWhatHappened`, `RequestsDoNotMix`, `UploadIsWhole` |

Two attempts are the smallest limit with a first, a repeated and a last attempt
(three for the gap, which the first retry does not change). Two sessions are
enough for every race between a reader or writer and one other writer. One
race needs a third: `delete_volume.go:47` looks for access points and then sends
the DELETE, and an access point may be created in between, on which a third
session waits. The bound `FewAtOnce` of `access_points` therefore lets any
two of the three sessions run with a fault and two targets, and all three when
the volume is being deleted, without a fault and with one target and one VPC.
At most one of them is a wait (`OneWaits`): a wait changes nothing in the
service, so a second one makes no difference to the first. It
is the service's refusal to delete a share that is in use which makes this race
harmless: without it `DeletedTargetIsDoomed` and `WaitsTellTheTruth` fail. One contended name and two share ids give a lost
answer a duplicate to run into and a share to leave behind. Deadlock is not
checked: the drivers stop when their bounded calls are made, and a panicked
session stays where it is.

Three goroutines in `volume_tags` let one be overtaken twice, which is what
uses up two attempts. In `pv_watcher` two faults can hit both halves of a
handler's work, or both handlers.

`IksFollowsTheVolume` says how far the events of one volume may overtake each
other: goroutines of two events may reach IKS in either order, and IKS then
keeps the older metadata, but only that of an event handled at the same time,
never again that of an event whose handler had ended before. The comment in
`pv_watcher.go:174` wants the parallelism between volumes; nothing orders the
events of one volume.

`BoundVolumeIsTagged` is about this handler's own PV and its tags, with the dual
provider: with the plain one the handler logs a message and returns, so a bound
PV gets neither tags nor an event (section "What else").

`OwnRequestID` is as strong as the code allows: a session opened for a request
sends that request's id unless another goroutine wrote the shared configuration
in its window, and a session opened without an id (the PV watcher opens its own
with `context.Background()`) sends whatever was there last, possibly two
halves of different ids.

That access point operations end is shown by an action property rather than by
liveness: each request brings the operation further in its two nested, bounded
loops, so it cannot go on for ever (`EveryRequestBringsItFurther`). This allows
the symmetry the two sessions need.

The symmetry of `access_points` permutes its two access point sessions, the
targets and the VPCs (its bounds only count them), that of
`volume_tags`, `sessions` and `http_client` the goroutines (and the request
ids), which the specifications treat alike; these runs check no liveness.
A failed start-up and the panic of a copier are further states where the system
really stops.

**Fairness** is weak fairness of a session's (goroutine's) own steps, once it
is inside an operation (a handler, once its event has come): sleeps end, HTTP calls return (the client has a
time-out) and the Go scheduler runs every goroutine. Nothing is assumed of the
service: it may never settle a share or a target, and every call must end even
so. No call has to begin. In `listing` the caller is assumed to follow the
tokens it is given; the collection changes a bounded number of times.

### What the violations are

1. `delete_volume.go:103`: the type assertion panics on any error that is not
   a `*models.Error`.
2. `delete_file_share_target.go:57`: every error but 404 is dropped. Without
   faults `DeletedTargetIsDoomed` holds.
3. `iks/provider/provider.go:121`: the "empty session" has no `Apiclient`, and
   the IKS update of the watcher calls through it. The panic is recovered, but
   the tags, which only need the VPC half, are not set and no event is recorded.

### What else a reader should know of the code

The models have these behaviours; the properties say what holds all the same.

- `delete_volume.go:106`: when its attempts are used up `FlexyRetry` returns the
  error of the last one, which is `nil` when the GET still finds the share, so
  `DeleteVolume` may report success while the share is `deleting`, although the
  comment at line 101 says "Keep retry, until GetVolume returns volume not
  found". `DeletedShareIsDoomed`: the service has accepted the deletion.
- `delete_snapshot.go:78`: the same unchecked type assertion as in
  `delete_volume.go:103`. A connection or decoding error in the wait for the
  deletion of a snapshot panics, after the deletion was accepted
  (`pc = "panicked"` in Snapshots). It is the same mistake, so it has no run of
  its own.
- `delete_volume_access_point.go:50`: a request that names only a subnet passes
  the validation, its lookup matches nothing, and success is reported with the
  access point still there. `DeletedTargetIsDoomed` is about the access points
  that a request names by id or VPC. A request to create that carries the id of
  an access point gets that one, whatever its VPC.
- `pv_watcher.go:207`: with the plain VPC provider the session is no
  `IksVpcSession`; the handler logs "Failed to get the IKS-VPC session" and
  returns, and a bound PV has neither tags nor an event.
- `get_subnet.go:82` and `90`, `get_security_group.go:81` and `89`: a next link
  that cannot be parsed or has no `start=` is reported with the code for "not
  found", although later pages were not read. `LookupIsTrue` says that the pages
  before had no match.
- `wait_for_delete_volume_access_point.go:55`: a wait by VPC fails even when
  nothing is left, since only the lookup by id can succeed.
- `update_volume.go:82`: the existing tags are searched as one string, so a tag
  that is part of another one counts as present and is not added.
  `UpdatedTagsCovered`: the tag or one that contains it is there.
- `expand_volume.go:46`: the size in GiB is compared with the capacity in
  bytes, so the early return for a share that is large enough (comment at line
  45) hardly ever applies, and a smaller size is sent to the service instead.
  `ExpandedShareIsLargeEnough`: success still means enough capacity. It does not
  notice the missed early return, nor that the number of GiB is returned when
  the early return is taken.
- `GetUserError` gives an error with blank code and text for `UpdateFailed`,
  `VolumeProfileEmpty`, `EndpointNotReachable` and `Timeout`, which the
  catalogue does not list.
- `body_provider.go:89`: after a failed `CreateFormFile` the contents are copied
  to a nil writer, which panics in a goroutine nobody recovers; and when
  `http.NewRequest` fails nobody closes the pipe and the copier stays. Nothing
  in the repository uploads a file.
- `GetFileShareTargetByName` passes the name of the target as the id of its
  share; nothing calls it.

A smaller matter is not a violation of anything the repository promises per
sleep: a session that reads `retryGap` between the doubling and the cap of
another sleeps on a value above the ceiling. `GapSettles` says that the
overshoot never outlives that update. Nor is `retryGap` ever reset: after one
slow operation, every later one of every session starts with the grown gap.

One assumption about the service deserves a note. The comment in
`create_volume_access_point.go:57` says that it answers a second access point
in a VPC with `shares_target_vpc_duplicate`, and the runs take that code
(`DuplicateTarget`): it is not in `skipErrorCodes`, so the losing creator of a
race looks again and finds the winner's access point. `skipErrorCodes` also
lists `shares_target_one_per_vpc` as not worth a retry. Were that the answer,
the loser would fail and `LosingCreatorAdopts` with it.

## 4. Proofs

`RetryEngineProofs` proves, for any number of goroutines, any limits of at
least one, any positive gaps and any set of errors:

- `TypeCorrect`: `TypeOK`.
- `AttemptsCorrect`: `AttemptBudget`. The property speaks of the end of a loop;
  the inductive `LoopInv` adds, for every point in the loop, how `tries` follows
  from `i` and that a loop which is still running was not told to stop.
- `GapCorrect`: `GapSettles`. It is not inductive: knowing that somebody is
  comparing does not tell that the comparison will find the overshoot. `GapInv`
  adds that this goroutine's register holds the very value of `retryGap`, or it
  is already about to store the cap.
- `PauseCorrect`: `NoBusyRetry`, from `PauseInv` (every gap in a variable or a
  register is at least `Floor`) and `LoopInv`.

`VolumeTagsProofs` proves, for any number of goroutines and attempts, any tags
and containment relation, any requests, and any number of faults and edits:

- `TagInvariant`: `TagInv`, the conjunction of `TypeOK`, `UpdatedTagsCovered`
  and four parts. `ReadInv`: as long as the etag a goroutine holds is the
  current one, so are the tags it read. `WantInv`: what it is about to write
  was requested. `CallInv`: a result belongs to a call that ended, and every
  call begins with attempt 0. `OvertakenInv`: on a quiet share each failed
  attempt has seen one more write than the one before.
- `CoverCorrect` and `OvertakenCorrect`: `UpdatedTagsCovered` and
  `RefusedOnlyWhenOvertaken`, which are not inductive without these parts.
- `TagsImplemented`: `Spec => NoLostTags`, that is, VolumeTags implements
  TagSet. Only the conditional write and the edits by others change the tags;
  by `ReadInv` a write that is accepted merges with the current tags.

- `WatchInvariant`: `WatchInv` for the handlers of the PV watcher, with
  `BoundTheorem`, `SuccessTheorem` and `IksTheorem` for the three properties of
  `pv_watcher`. It contains `TagInv` (a handler does to the calls of
  UpdateVolume what UpdateVolume itself does, or nothing but a fault).
  `HandlerInv`: a panic needs a PV without ClaimRef or half a session, and that
  a fault; the tags a handler asks for are those of its PV. `NoteInv`: the notes
  say what UpdateVolume returned. `EventInv`: the handlers that had ended when
  an event came stay ended, and only changed events get past the comparison.
  `IksInv`: from its own update on, a handler finds at IKS what an event said
  whose handler had not ended before, since one that has ended sends nothing.

`ShareLifecycleProofs` and `AccessPointsProofs` hold for any number of sessions,
operations, shares, targets, names, VPCs, attempts and faults. Both rest on the
first part of `ShareLifecycleProofs`: whatever a request comes back with, shares and targets only
move onward (unused, pending, stable, deleting, gone) and keep their names. So
what a session knows of its share survives the steps of the others, and each
step is proved by looking at the session that takes it.

- `VolInvariant`: `VolInv`, from which follow `UsableTheorem`,
  `OwnershipTheorem`, `LeakTheorem` and `DoomedTheorem`. It adds to the
  properties what the loops in between know: a wait for a valid share has a
  share that this call made, a deletion wait one whose deletion was accepted,
  and the shares made by two sessions are different.
- `ApInvariant`: `SharedInv`, the conjunction of `VolInv` and `ApInv`, from which
  follow `ApTypeTheorem`, `AskedForTheorem`, `TargetDoomedTheorem` and
  `WaitsTheorem`. `ApInv` adds that a share has at most one live target in a VPC,
  that a share with a live target is not being deleted, and that what was named
  by a request at its beginning still is. Neither half looks at the steps of
  the other's sessions one by one: all that `VolInv` needs of an access point
  step is that shares and targets move onward (`VolOthers`), and all that
  `ApInv` needs of a volume step is that they do and that the condition on the
  service, `ServiceOK`, is left true (`VolService`, `ApOthers`).
- `SharedVolumesTheorem`: the four properties of the volume operations hold
  while others create and delete access points of the same shares.
- `FurtherTheorem`: the action property `EveryRequestBringsItFurther`, so that
  no access point operation makes infinitely many requests, whatever its limits.
- `AdoptsTheorem`: `LosingCreatorAdopts`, from `RaceInv`, which says what a
  creator that tries again finds in its way. It has two hypotheses, and the
  property is false without either: `maxRetryAttempt >= 2`, since with a single
  attempt the loser of a race never looks again, and a code for duplicates that
  `skipErrorCodes` does not list as hopeless (see the note in section 3).

`ShareDataProofs` proves `DataInvariant` and from it `LargeEnoughTheorem`,
`SnapshotDoomedTheorem`, `AnswersTheorem` and `StrayTheorem`, for any number of
goroutines and snapshots and all sizes and capacities. `DataInv` adds
that the size a caller waits for is on its way (`ExpandOK`), which loop belongs
to which operation (`LoopOK`), what was made before the last attempt (`MadeOK`)
and that a deletion which is waited for was accepted (`DeadOK`). The early
return that compares GiB with bytes is harmless: it returns a capacity that is
at least the one asked for and at most the share's. A rounding up that
overflows gives a size below one GiB, which the service refuses.

`SessionsProofs` proves `SessInvariant` and from it `ReadyTheorem`,
`WholeTheorem` and `OwnIDTheorem`, for any number of goroutines and request ids
and every configuration. `SessInv` follows the call step by step: what the
start-up has made, which provider a call is on and, as long as nobody crossed
it, that each word of the id it wrote is still there (`IdOK`).

`HttpClientProofs` proves `HttpInvariant` and from it `RequestsDoNotMixTheorem`,
`ErrorTellsTheorem` and `UploadIsWholeTheorem`, for any number of goroutines and
files of any length. `HttpInv` says what a request carries at each step, and how
much of the body has been read at each step of the copier.

`ListingProofs` proves `ReadInvariant` and from it `CompleteTheorem` and
`LookupTheorem`, for collections and pages of any size, any number of readers,
changes by others and faults. A page is an initial part of what is left, and its
link names the first item that is not on it; hence the inductive part of
`ReadInv`: a reader has seen, of the items that were there all the time, those
below the start of its next page, and nothing at or above it. An item is
therefore neither skipped nor read twice. `FailInv` adds that a list which fails
met a fault: the limits it sends are always ones the service takes. `FurtherTheorem` proves
`PagesLeadFurther`, the safety half of `ReadingEnds`: a page loop, which has no
bound of its own, only ever goes on to a later page.

All these invariants were checked by TLC on the instances of section 3 before
they were proved.

The assumptions are those named in the modules, which TLC evaluates in every
run. Beside the types of the constants they are:

- `NoErrorAssumption`, `NilAssumption`, `NoResultAssumption`,
  `SnapshotAssumption`: the value that stands for "none" is no result, error,
  client or snapshot;
- `FaultAssumption` (ShareDataService): only the service itself says that a
  share or snapshot does not exist. A gateway that answered with that code in
  its place would make DeleteSnapshot report success for a snapshot that stays;
- `ExpansionAssumption`: the largest size of a share, in bytes, fits an int64.

Checked by TLC only, on the instances of section 3: liveness (`LoopTerminates`,
`VolumeOpEnds`, `HandlerEnds`, `DataOpEnds`, `ReadingEnds`), which is out of the
reach of the prover. Every other property of the passing runs is a theorem.

## 5. Not modelled, and the plan

Left out for good: wording and logging, the text of URLs and bodies, debug
dumps, node metadata (labels of a Kubernetes node, read once), samples, fakes
and the end-to-end tests. Left out because nothing in the repository calls
them: `tokenGenerator`, `getPrivateEndpoint`, `WithPathParameter` and
`WithQueryValue` of the REST client. The exchange of refresh tokens for IKS
(`exchangeForAccessToken`) runs in a retrier of another repository and is not on
the way to a session.

What would come next is an abstract specification of a share's life (created,
published to VPCs, unpublished, deleted) that ShareLifecycle and AccessPoints
together implement.
