# TLA+ models of the BingoCloud driver (pkg/multicloud/bingocloud)

This directory holds TLA+ models of the BingoCloud client in
`src/pkg/multicloud/bingocloud` and the TLC configurations that check them.
The other providers' files in the source tree are CLI shells
(`aws/shell`, `incloudsphere/shell`, `openstack/shell`, `volcengine/shell`).
They parse arguments, call a client and print the result, so they have no
state of their own to model.

## The system

The client talks to the cloud through one function, `invoke` (bingo.go:258).
It applies a read-only guard, signs the request (`sign`) and POSTs it. It then
converts the XML reply to JSON, turns `item` and `member` wrappers into arrays
(`setItemToArray`) and unwraps either the error envelope or `<Action>Response`.
It never retries. A call can therefore end in one of five ways:

- **ok**: the call succeeded.
- **apierr**: the provider refused the call with an error envelope.
- **lost**: the request never took effect.
- **noreply**: the cloud acted but the caller got an error (timeout, read or decode failure).
- **readonly**: the read-only guard refused the call before sending it.

Everything else is built out of sequences of such calls:

- **Client construction** (`NewBingoCloudClient`): `isAccessible`, then
  `GetRegions`, then `getAccountUser`. The last step runs `DescribeQuotas` and
  keeps its owner id, or `""` if the call fails.
- **Disk listing** (`GetIDisks` → `GetDisks`): a `DescribeVolumes` NextToken
  loop, followed by a filter on storage and owner.
- **Disk reset** (`SDisk.Reset`), in order:
  1. create a volume and wait until it is ready;
  2. for each attachment: look up the instance, detach the old volume, attach the new one;
  3. delete the old volume.
- **Sub-accounts**: `CreateAccount` (list access keys, create, add role, tag),
  `GetSubAccounts` (tags, quotas, access keys per tag) and `DeleteAccountTag`.
- **Load balancer backends**: add, remove, sync and refresh a backend, and
  remove every backend of a group. Each operation is a small sequence of
  `DescribeTargetHealth`, `RegisterTargets` and `DeregisterTargets` calls.
- **Load balancer deletion** (`DeleteElb`): listeners, then each listener's
  target group, then group deletions, then the load balancer itself.
- **Health-check codes** (`ToOnecloudHealthCode`): a pure conversion of the
  matcher string.
- **Monitoring** (`GetResourceStatistics`, `GetMetrics`): a NextToken loop
  that accumulates datapoints, then groups them by resource and metric type.
- **Snapshots, instance backups, certificates, security-group rules**: create,
  look up by id, `Refresh`, delete, restore, and the rule `Update` that deletes
  and re-creates.

The client shares the cloud with other users and administrators, who create,
delete, register and deregister resources between any two calls. Every
multi-call operation is therefore an interleaving of the client's steps with
the cloud's.

## Modules

| module | models | state | actions |
|---|---|---|---|
| `BingoInvoke` | `invoke`'s read-only guard and outcomes | none (CONSTANTS `ReadOnly`, `Faults`) | `Outcomes(action, accepted)`: what a call can return; `Applied(o)`: whether the cloud acted |
| `BingoClient` | construction and `GetIDisks`/`GetDisks` | volumes with owner and storage (cloud); pc, user, token, accumulator (client) | `IsAccessible`, `GetRegions`, `GetAccountUser` (an error or an empty quotaSet gives owner `NoUser`), `GetIDisks(s)`, `GetDisksPage` (one page per step), `GetIDiskById(s, d)` (one filtered `DescribeVolumes`, then the owner and storage checks), other users' `CloudCreate`/`CloudDelete` |
| `ElbBackend` | backends of one target group | `reg` (target × port → weight, 0 if unregistered), the backend object `obj`, pc | `GetILoadbalancerBackends`, `AddBackendServer` + `AddRegister` + `GetBackendGroup` + `GetBackendHealth`, `Refresh`, `RemoveBackendServer`, `Delete`, `SyncConf` + `SyncRemove`/`SyncOld`/`SyncAdd`/`SyncNew`, `RemoveElbBackends` + `RmList`/`RmEach`, other users' `OtherRegister`/`OtherDeregister` |
| `SubAccount` | sub-account management | accounts, access keys, roles, tags (cloud); pc, request, collected sub-accounts | `CreateAccount` + `CaList`/`CaCreate`/`CaRole`/`CaTag`, `GetSubAccounts` + `GsTags`/`GsQuota`/`GsEach`, `DeleteAccountTag` |
| `DiskReset` | one `SDisk.Reset` call | existing volumes, the new volume's status, attachments, live instances | `Create`, `WaitStatus`, `LoopGet`, `Detach`, `Attach`, `Delete`; the cloud's `Terminate(i)` and `Settle` |
| `ElbDelete` | one `DeleteElb` call | existing target groups, the load balancer | `GetILoadBalancerById`, `GetILoadBalancerListeners`, `GetElbBackendGroups` (one listener per step), `DeleteTargetGroup`, `DeleteLoadBalancer` |
| `ElbCert` | one `SElbCertificate` object and its lazy caches | the cloud's live certificates and the ids uploaded so far (each id an upload of a name and a body); the object's id, `CertificateBody` and parsed `cert` (as the body it was parsed from), the last return value | `GetPublickKey` (via `GetKey`: the cached body, or a `GetServerCertificate` by name whose body is stored), `ParsePublicKey`, `Refresh` (the listed metadata has no body, and `cert` is unexported, so the overlay keeps both), `Delete` (by name); other sessions' `OtherUpload`/`OtherDelete` |
| `Conversions` | `ToOnecloudHealthCode`, `GetResourceStatistics`, `GetMetrics`, `setItemToArray`, the parameter order of `invoke` and the sort in `sign`, `genElbBackendId`/`parseElbBackendId`, `GetElbBackendGroupAttributes` and `GetStickySession`, `CreateElbBackendGroup`'s parameters and the group getters `GetProtocolType`, `GetHealthCheck`, `GetSysTags` | the input only: one value for one conversion per behaviour (a matcher string, statistics pages, a JSON response, request parameters, a backend id's parts, an attribute list, or the options of a new target group) | the conversions as operators, each checked against a reference definition: `FoldLeft` of `AddSegment`/`AddCode`; page concatenation and grouping with `SelectInSeq`; `Norms`/`Visit`/`Lift`, which return the set of results over every order of a dict's keys; `Query` and `Sorted`, which return every outcome of the unstable `sort.Slice`; `Split`, `Itoa` and `Atoi` over character sequences; `ToUpper`/`ToLower` as a character map, `Stored` as the group the cloud returns (a sent parameter parsed into its field, an unsent one at the cloud's default) |
| `DiskListing` | what `GetIDisks` promises its callers | the same cloud and client state as `BingoClient`, without the cursor | construction as one step, `Begin(s)`, `Return` (any set between the volumes that were there throughout the listing and those seen at some point), `Fail`, `Lookup(s, d)` (returns `{d}` only for a volume of storage `s` owned by the user, or fails), and other users' changes |
| `Resources` | snapshots, instance backups, certificates, one security-group rule | the cloud's snapshots (with owner), backups (per instance), certificates, rules; the object the client holds, the last operation and its result | `CreateISnapshot`, `GetISnapshotById`, `SnapshotRefresh`, `SnapshotDelete`; `CreateInstanceBackup`, `BackupRefresh`, `BackupRestore`, `BackupDelete`; `CreateILoadBalancerCertificate`, `CertGet`, `CertRefresh`, `CertDelete`; `RuleUpdate` + `RuleCreate`, `RuleDelete`; other users' `OtherDeleteBackup` |

Each operation module extends `BingoInvoke`. Every call of an operation is one
step that chooses an outcome from `Outcomes(...)`. `accepted` is the cloud's
own precondition; for example, the cloud refuses to delete an attached volume.
The step changes the cloud state when `Applied(o)`. The caller sees success
only on `ok`. Early returns in the code become `Return("err")` disjuncts in
the same step, so every error path is modelled.

`BingoClient` is shown to implement `DiskListing`. The mapping `Phase` merges the three construction steps into one phase. The cursor (`token`, `acc`) is hidden, so a listing of several `DescribeVolumes` pages is one `Return` step of the abstract spec. Both specifications keep the same ghost variables `stable` and `seen`.

The `MC*.tla` modules that compose two components (`MCElb`: `ElbBackend`, `ElbDelete` and `ElbCert`; `MCResources`: `Resources`, `DiskReset` and `SubAccount`) use `INSTANCE ... WITH` and a variable `part`. `part` is chosen in `Init`, and each behaviour runs one component while the others stay in one initial state. This way one run checks both components without multiplying their state spaces.

`Resources` holds four independent object kinds. A variable `kind`, chosen in
`Init` and never changed, selects which kind's actions one behaviour runs,
so the state space is a sum of the four rather than their product.

The `MC*.tla` modules supply model values. `PROJECT.json` maps every
definition to the lines it translates.

## Runs

| run | cfg | expect | what it shows |
|---|---|---|---|
| client_listing | MCBingoClient.cfg | pass | `ImplementsDiskListing`: `BingoClient`'s paged `GetIDisks` implements `DiskListing` under the mapping `Phase`. Each listing ends (the abstract spec's weak fairness), and a successful one returns every volume of the storage owned by the user that existed throughout the listing, and no volume that never existed during it. A successful `GetIDiskById` returns only a volume of the asked storage that the user owns: `listStor` and `listed` hold the storage and the result of the last call, listing or lookup. |
| client_readonly | MCBingoClientReadOnly.cfg | violation | `ReadOnlyAsSpecified`: on a read-only account the guard refuses `DescribeRegions`, a read, so the client cannot even be built. |
| elb | MCElb.cfg | pass | `SyncMovesTarget`: a successful sync leaves its target registered on the new port with the new weight. `RemoveAllClears`: a successful `RemoveElbBackends` leaves none of the backends it listed, unless another user touched them. `ParsedMatchesBody`: a certificate object's cached `cert` is the parse of its cached `CertificateBody`, so `GetFingerprint` and `GetCommonName` describe one certificate through `Refresh`, `Delete` and other sessions' changes. The cached body is not always the object's own: a `Delete` whose reply is lost, then another session's upload under the same name, makes `GetPublickKey` cache the new certificate's body under the old id (see the hazards). `DeleteElb` runs in this model too, with a listener that forwards to no group. It then deletes every group of the account, another load balancer's included (see the hazards). |
| backend_sync_result | MCElbBackendSync.cfg | violation | `SyncReturnsSynced`: after `SyncConf` the object can describe another backend of the group (the `exist` flag is never set). |
| delete_elb_errors | MCElbDeleteErrors.cfg (MCElb) | violation | `DeleteElbRemovesItsGroups`: `DeleteTargetGroup` fails with an API error, `DeleteLoadBalancer` succeeds, and `DeleteElb` reports success with the group still there. The spec (section 7) says no error is suppressed. |
| subaccount_role | MCSubAccountRole.cfg (MCResources) | violation | `CreatedAccountHasRole`: a `CreateAccount` retried after a lost reply or a failed `AddRoleToAccount` succeeds without the role. |
| conversions | MCConversions.cfg | pass | `HealthCodeComplete`: every accepted class is reported. `MetricsComplete`: `GetMetrics` of all pages gives each resource's values per metric type in page order. `NormalizeWrapsArrays`: every `item`/`member` wrapper except `instancesSet` becomes an array with one element per item, whatever the map's iteration order. `NextTokenLifted`: a wrapper's non-empty `nextToken` reaches the response when the response has none. `SignOrderIndependent`: the signed string is the same for every order of the parameter map. `BackendIdRoundTrip`: parsing a generated backend id gives back its parts exactly when neither id, followed by one `:`, contains `::`. `GroupConfigReadsBack`: a target group created from given options reads back their protocol, port tag, health-check switch and, when the check is on, every threshold, interval, path, type and timeout, through `CreateElbBackendGroup`'s upper-casing and number formatting and the getters' lower-casing and parsing. |
| healthcode_exact | MCConversionsExact.cfg | violation | `HealthCodeExact`: "302-302" reports 2xx as well, as do "301,302" and "404,403" with the next lower class. |
| normalize_idempotent | MCConversionsIdempotent.cfg | violation | `NormalizeIdempotent`: an `instancesSet` wrapper with one item is replaced by that item, not by an array, so normalizing the result again changes it. |
| sticky_session | MCConversionsSticky.cfg | violation | `StickyCookieTimeoutParsed`: with `stickiness.lb_cookie.duration_seconds = 60`, `GetStickySession` reports a timeout of 0, because the parse sits under `!ok`. |
| resources | MCResources.cfg | pass | The snapshot, backup, certificate and rule operations of `Resources` run here under every invoke outcome; what they get wrong is recorded in `resources_backup` and in the hazards. `ResetMovesAttachments`: a successful Reset leaves the new volume on every still running instance that had the old one. `ResetTerminates`: Reset returns. `ResetLeavesAtMostOneBare`: with every invoke fault possible, at most one running instance that had the old volume is ever left with neither volume, during Reset and after it fails (Reset detaches before it attaches and returns at the first error). `SubAccountsAsListed`: `GetSubAccounts` returns exactly the tagged accounts whose access keys it could read; `TypeOK` is `SubAccount`'s. |
| resources_backup | MCResourcesBackup.cfg | violation | `BackupRefreshKeepsId`: after the backup is deleted by someone else, `Refresh` overwrites the object with the instance's only remaining backup. |

Each property of a passing run has a mutant in `PROJECT.json`. The mutant is a
plausible bug in the translated code, and TLC finds it. For example:

- the page loop stops after the first page;
- the next token is never passed on;
- the deregistration before re-registration is skipped;
- the removal loop stops after one backend;
- the 3xx test is moved before the 4xx test;
- `WaitStatus` has no timeout;
- the listener's group id is dropped;
- only the last statistics page is kept;
- a wrapper of `setItemToArray` is not turned into an array;
- only `NextToken`, not `nextToken`, is lifted;
- the signer's sort is left out;
- the search for the next `::` starts one character early;
- `GetMetrics` opens a new series for every datapoint;
- the snapshot lookup ignores its id;
- the created rule's error is ignored.

## Bounds

- **BingoClient:**
  - three disks, two storages, two owners, page size 1, so a listing takes up to three pages;
  - other users create and delete any disk between pages.
- **ElbBackend:**
  - two targets, ports {80, 443}, weights {1, 2}, so a sync can move a target between ports and a group can hold another backend;
  - `lost` is left out of `Faults`, because in every handler it is indistinguishable from `apierr` (both leave the cloud unchanged and return an error);
  - `noreply` is kept, because it leaves the cloud changed.
- **SubAccount:** two accounts and two projects. Accounts and tags start in any state that other administrators could have left. It is checked in `MCResources`, whose other parts may stop, so deadlock is not checked. An idle client can always start another operation anyway.
- **DiskReset:**
  - three instances, the old volume attached to any subset of them, in any attachment order;
  - instances are terminated at any point;
  - the new volume settles as available or error;
  - `MCResources` runs Reset twice, as two values of `part`. Part `reset` is fault-free, so `ResetTerminates` does not hold only because some call may always fail. Part `resetfaults` has every invoke fault, for what a failed Reset leaves behind (`ResetLeavesAtMostOneBare`).
- **ElbDelete:** three groups, and listeners `<<g1, g2, g1, "">>`. So two listeners share a group, one forwards to no group (`GetBackendGroupId` is `""`, and `GetElbBackendGroups` then lists every group of the owner), and one group belongs to another load balancer.
- **ElbCert:** three uploads, `c1` and `c2` under name `n1` and `c3` under `n2`. So a name can be reused after a delete, and another name is always around to be fetched by mistake. The cloud starts with any name-unique non-empty set, and the object is one of its certificates. `Faults` holds all three faults. `ListServerCertificates` is taken to return metadata without `CertificateBody`: the code fetches the body lazily when the field is `""`, and the cloud's reply format is not in this tree.
- **MCElb** checks `ElbBackend`, `ElbDelete` and `ElbCert` in one run. It uses symmetry over the two targets, which are interchangeable model values that no property names.
- **Conversions:**
  - codes {0, 200, 302, 404, 503}, up to 2 segments of up to 2 codes, which gives every class, an unparsable code, ranges and lists;
  - statistics: up to 2 pages of up to 2 datapoints over 2 resources, 2 averages and three metric names (one unmapped for some resource types), so groups span pages and the unmapped name yields `""`;
  - responses: a `volumeSet` or `instancesSet` wrapper (`item` or `member`) with one or two items, one of which holds a nested `volumeSet`, with the wrapper's `nextToken` present, empty or absent and the response's own token present or not. `jsonutils.JSONDict.Value` is taken to return a copy, so the loop reads the original values; the library is not in this tree;
  - request parameters: every subset of the `DescribeVolumes` parameters (filter, `MaxRecords`, `NextToken`) in every map order;
  - backend ids: target group and target ids of up to three characters from `a` and `:`, ports 0, 80 and 443, so ids with `:`, `::` and `:::` at each end occur;
  - attribute lists of up to two pairs, with either key and a numeric, multi-digit or non-numeric value, duplicates included;
  - target group options: each of the five listener protocols, ports 80 and 443 (multi-digit formatting), the health check on or off, two health-check protocols, and two values for each threshold so that a swapped pair shows.
- **Resources:** two snapshots, two certificates, two rules; three backups, two on one instance, so a `Refresh` of a deleted backup finds one other. `Faults` holds all three faults. A behaviour may stop once every id is used and no object is held, so deadlock is not checked.

Counters and loops are bounded by these finite sets: a page index, the
listener index, the attachment index.

## Fairness

- `BingoClient` and `DiskReset` assume weak fairness of the client's steps; `DiskListing` assumes weak fairness of finishing construction and of ending a listing, which `BingoClient`'s fairness is checked to imply.
  Each step is a synchronous HTTP call with a five-minute timeout, so once it
  is enabled it completes.
- The cloud's own actions, such as other users or a volume settling, have no
  fairness.
- The two liveness runs use `Faults = {}`. With faults allowed, an error
  outcome is always enabled and would end any loop, so termination would hold
  for that reason alone.
- Calls the cloud refuses still fail in those runs.
- The `ElbBackend`, `SubAccount`, `ElbDelete` and `ElbCert` models check safety only.

## Not modelled

- **Transformations with no control-flow hazard that TLC can reach:**
  - the signer's HMAC and base64;
  - the XML conversion;
  - the field adapters (GetId, GetName, ...).
- **x509 and asn1 parsing** of a certificate body (`ParsePublicKey`'s `pem.Decode` and `x509.ParseCertificate`, `getOtherSANsFromX509Extensions`). `ElbCert` takes every body to be a PEM certificate. Whether the cloud can hold a non-PEM body, on which `ParsePublicKey` panics, is not known.
- **Single-call create and describe operations** of load balancers (`CreateLoadbalancer`, `GetElbAttributes`) and `GetScheduler`. Each one call creates or reads one object and converts its fields. Target group creation is modelled only as the conversion of its options and their read-back (`GroupConfigReadsBack`). `GetHealthCheck`'s HTTP code is left out of that, because creation never sends one.
- **api constants** (`LB_LISTENER_TYPE_*`, `LB_BOOL_ON`, ...) are not in this tree. The listener types are taken to be the lower-case protocol names; the others appear under their Go names.
- **Not in this source tree, so modelled from the spec where needed:**
  - `GetRegions`, `GetInstances`, `GetElbListeners` and `cloudprovider.WaitStatus`.
- **The panic in `listAccessKeys`** on an empty key list is reachable in
  `SubAccount` (`result = "panic"`). It is listed as a hazard rather than
  checked, because it is not known whether the cloud ever sends such a list.
- **Two clients sharing one regions slice** (`SetManagerClient`, `GetIRegions`
  rewriting `regions[i].client`). The model has one client at a time, so an
  owner filter that reads the other client's `user` is listed as a hazard and
  not checked.
- **`Resize`** is a single call. Its `newSizeMB/1024` truncation is listed as a
  hazard.
- **`SDisk.GetISnapshots`** is one `DescribeSnapshots` with no volume filter,
  so every disk reports all of the owner's snapshots. It is listed as a hazard.
- **Disagreements kept as hazards.** The project keeps its runs at twelve,
  and each violation run records one finding. So the following are listed as
  hazards with a note, rather than given violation runs:
  - the certificate name reuse that `ElbCert` reaches, and `Delete` by name removing the new upload;
  - the IPv6 target id in `RemoveElbBackend`;
  - `DeleteElb` deleting every group of the account when a listener has no group;
  - a rule `Update` that leaves both rules or neither;
  - the shared regions slice.
