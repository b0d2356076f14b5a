# acmers in TLA+

`acmers` is an ACME client: it obtains certificates over dns-01 and http-01,
stores and deploys them, and renews them from a timer.  This directory holds
TLA+ models of the parts of it that are hard to test: what happens when
processes overlap, requests fail or lose their reply, a file operation or the
machine dies half way, and many clients write to one DNS zone.  The models are
translated from the Rust source; `PROJECT.json` maps each definition to its
lines.

TLC checks the models on small instances, and the TLA+ proof system proves the
most important results for every value of the constants.

## 1. The system and its parts

`acmers issue` obtains one certificate, `acmers renew` goes over the stored ones
and renews those that are due.  Both do this, each in one process without
concurrency of its own apart from the http-01 listener thread:

    lock.rs      take <home>/.lock, a file with the pid of its holder
    account.rs   load the ACME account of the server, or register one
    order.rs     create an order; for every pending authorization:
    challenge.rs   publish the response: a TXT record through a provider
    providers/     (add_txt), or a file served by a listener on port 80
    dns.rs         poll resolvers until they see the record
                   signal the challenge, poll its status, withdraw the record
    order.rs     finalize, poll the order, download the certificate
    storage.rs   write six files, each atomically (config.rs)
    deploy.rs    copy files to the install paths, run the reload command
    main.rs      release the lock (Drop)

| Part | State it keeps | Operations | What makes it correct | Where |
|---|---|---|---|---|
| Renewal lock | the file `<home>/.lock` and the pid in it, processes | acquire (create, judge and remove a stale file, create again), release by Drop | at most one holder; a dead holder does not block the next run; a run removes its own file only | `RenewalLock` |
| Atomic file replacement | a temporary file, the destination | create, write, sync, chmod, rename, cleanup | readers and reboots see whole files with their final mode | `AtomicFile` |
| Certificate storage and deployment | six files per certificate, install paths, what the service loaded | issue, renew, save, copy, reload, delete | certificate and key always match when loaded; runs of the staging preset and dry runs do no harm; expiry is prevented and interruptions heal | `CertStore` |
| Renewal run | the settings and the issuing server of each certificate, the accounts; which certificates are due, hooks run, port 80 | issue, renew (load, adapt to the flags, decide, hooks, order, store, report), register | hooks enclose the orders; one failure does not stop the others; every due one is ordered once; a renewal goes to the server that issued, and finds its account | `RenewBatch` |
| CA presets and EAB | a table of names, directories and requirements | find, resolve, eab_required | the same answer, whether a binding is needed, from the flags and from what was stored of them | `CaPresets` |
| Issuance | the order and authorizations at the CA, the published responses | the requests of an issuance, polls with budgets | responses stay while needed and are withdrawn on every exit; the order is finalized when ready; what was issued is fetched, with the preferred chain; it ends | `Issuance` |
| DNS messages | the position in a message, the result so far, the clock | send, receive, parse, follow a CNAME, next resolver, sleep | no message makes the parser panic or loop; what was encoded is decoded; the poll ends near its deadline | `DnsQuery` |
| ACME accounts | one file per server, the legacy file, accounts at the servers | load, import, register, save, use | accounts of different servers stay apart; a stored account is not replaced; none is registered twice | `Account` |
| DNS providers | the TXT records of a zone that others write too | add_txt and remove_txt of 200 services | the values of others stay; a client that waits is published; nothing is left behind | `DnsProvider`, `ProviderTable` |

They interact through the file system (lock, account, certificate files), the
order in which `issue_certificate` calls them, Rust's `Drop` (lock file and TXT
record are removed when their guard goes out of scope, also by an early `?`),
and two outside parties, the CA and the DNS service.

Not modelled, with the reason for each in `PROJECT.json`: the command line and
the commands that only print, signing and encoding, the HTTP client as such, the
credential file, the Debian packaging, the tests. Of `renewal.json` only the
fields that choose the server, the challenge and the hooks are.

What is hard, and where: the interleaving of system calls of two runs at the
lock (`lock.rs:13-58`); crashes between any two of the file operations
(`config.rs:145-165`, `storage.rs:7-31`, `deploy.rs:7-48`); commands without the
lock beside those with it (`main.rs:520-624`, `688-697`); requests whose reply is
lost (`order.rs`, `account.rs`, every provider); poll budgets
(`challenge.rs:150-175`, `order.rs:160-200`); guards created after the action
they undo (`main.rs:339-346`); read-modify-write of DNS zones; lengths and
pointers that come from a message (`dns.rs:108-260`); settings that one run
stores for the next (`main.rs:424-462`); port 80 as a resource of the process.  `PROJECT.json` lists these as hazards with the
properties that cover each.

## 2. The modules

    Mutex <-------- RenewalLock <----- MCRenewalLock      RenewalLockProofs
    AtomicRegister <- AtomicFile <---- MCAtomicFile       AtomicFileProofs
                      CertStore <----- MCCertStore        CertStoreProofs
    CaPresets <------ RenewBatch <---- MCRenewBatch       RenewBatchProofs
    DomainProof <---- Issuance <------ MCIssuance         IssuanceProofs
                      Account <------- MCAccount          AccountProofs
                      DnsProvider <--- MCDnsProvider      DnsProviderProofs
                      ProviderTable <-'
    DnsMessage -----> DnsQuery <------ MCDnsQuery         DnsQueryProofs

`Mutex`, `AtomicRegister` and `DomainProof` are abstract specifications, each
implemented by the module next to it.  The modules do not share variables: a
module uses the result of a lower one as an atomic step.  `CertStore` takes a
run to be exclusive (`RenewalLock`) and the replacement of one file to be one
step (`AtomicFile`); `RenewBatch` takes an order to succeed or fail
(`Issuance`) and a certificate to be stored in two steps, `cert.pem` first and
`renewal.json` last (`CertStore`); `Issuance` takes a poll to see the record or
to time out (`DnsQuery`), and a provider call to add or remove one value, or to
fail with or without effect (`DnsProvider` says which providers do).

**RenewalLock.**  `Proc` are runs of the program, `Pid` the identifiers of the
machine, recycled.  Each system call of `Lock::acquire` is a step: `Create`
(`create_new`), `WritePid`, `AlreadyExists`, and for a contender `Open`, `Read`,
`Probe` (`/proc/<pid>`), `Remove`, `Recreate`.  A file is named by the run that
created it, so `linked` is the inode the path names and `judged` the one a
contender has opened; `stolen` records that a run unlinked another file than the
one it judged.  `Release` is `Drop`, which unlinks the path.  Other programs
take and free identifiers.

**AtomicFile.**  Each call of `write_atomic` goes through `Start`
(`create_dir_all`), `CreateTemp`, `WriteSome`/`WriteAll`, `Sync`, `SetMode`,
`Rename`; any of them may `Fail` into `Cleanup`.  The file system journals its
metadata in order: `durable` is the name that survives a power failure,
`Flush` brings it up to `linked`, and the data of a file that was not synced
may be lost (`PowerLoss`).

**CertStore.**  A file's content is the generation (certificate and key) that
wrote it.  A run goes from `issue` through `save` (six files in the order of
`storage.rs`), `deploy` (four paths in the order of `deploy.rs`) to `reload`;
any step can fail or be the last.  `deleting` is `remove_dir_all`, which takes
no lock and goes file by file.  Each generation has the URL it was ordered from.
A run is a staging run by the code's test, `IsStaging`, which compares strings
(`main.rs:117`, `444`): the URL is the preset's, or the staging server's under
another spelling, which is no staging run and is deployed.  Days pass; `Timer` is
the packaged timer.

**RenewBatch and CaPresets.**  Runs of `issue` and `renew`, one after the other,
and `register` at any time.  `issuer` is the server each stored certificate is
from, `renewal` what `renewal.json` says of it, `accounts` the servers with an
account file.  `renew` selects the certificates (`certificate_domains`), loads
and adapts the settings of each (`Adapted`: --server, --test, --dry-run), decides
which are due (days left, ARI, --force), runs the pre-hook, orders, runs the
post-hook, reports; `issue` makes its settings of its flags (`Resolve`) and
orders.  An order is refused before it starts where an account needs a binding
(`EabRequired`); an http-01 order takes port 80 and its thread keeps it until
the process ends.  `torn` are the certificates whose last save was interrupted
between `cert.pem` and `renewal.json`.  `CaPresets` has every function of
`ca.rs`; the table is a constant, to which the runs give `PRESETS`, the table of
the code.

**Issuance.**  `issue_certificate` request by request, with the CA's side
(`authz`, `order`, and the resolvers' view `visible`) moving on its own.
`snapshot` are the statuses read once at the start.  `faults` are the kinds of
fault that may happen in a behaviour: failing requests, a server that takes a
request and never answers (`Silent`, after which the process stays `silent`), a
rejecting CA, silent resolvers, a failing provider, crashes.  After the default chain the alternates
of the Link header that is kept are downloaded one by one (`given`, `fetched`);
a chain matches or does not.

**Account.**  Processes run commands one after the other: `issue` and `renew`
exclude each other, `register`, `revoke` and `show-account` exclude nobody.
Files are found by a name made of the URL (`Slug`), which two servers may share;
the legacy file names its server or none, and then it is `Importable` for any.
Registration may be refused or lose its reply, saving may fail, processes die.

**DnsProvider and ProviderTable.**  `ProviderTable` says of each provider, in six
words, how it finds the zone, how it names the record, whether it trusts a
failed read, what add_txt asks for, whether a refusal is an error, and what
remove_txt asks for.  `DnsProvider` gives the words their meaning: what each
request reads and writes at the four places a record can end up: the challenge
name resolvers ask for, the domain itself, another name of that zone, or a zone no
resolver is led to.  `spot` is where the requests of a client go, decided by its
last look for the zone.  43 providers ask for one candidate name after another and
take a refused request for the answer that the zone is not hosted (`asked`,
`askedAbove`, `shortest`); with them a client may find a less specific zone of the
account (`PassedOn`), in add_txt and again in remove_txt.  A fully qualified name is taken by the service for what it is;
where the code itself doubles or misspells the name the table says `wrong`.
The module is one machine for all providers on purpose: the table is the part
that is per provider, and each row can be compared with one source file.

**DnsQuery.**  `poll_txt` down to the bytes: each turn of a loop of
`parse_response`, `read_name` and `parse_txt` is a step, `pos`, `end` and
`name.at` are the code's indices, and `read` records how far the message has
been indexed.  `then` is where `read_name` returns to.  The environment sends
any message of `Replies` after any time up to the socket's timeout, or nothing.
A message carries its meaning, what it was encoded from, if it is well-formed.
`DnsMessage` says what that means for messages of any length (RFC 1035, section
4), without a parser: `Annotates(m, r)` lets `m` say of each offset what is
spelled there and where the next thing begins, and asks that each of these
claims follow from the bytes there and the claim about one other offset.
`MCDnsQuery` computes the annotations of its messages and has TLC check them
(`ProperlyEncoded`).

## 3. The runs

`expect: pass`; distinct states in brackets.

| Run | Instance | What it shows |
|---|---|---|
| `lock_free` [540,190] | 4 runs, 3 pids, crashes, failing writes, recycled pids | The gap between judging and removing a stale file is the only way to lose exclusion (`ExclusiveUnlessStolen`); a holder's file is the linked one (`HolderIsLinked`); what stays behind is a crashed run's file or an empty one, which no later run removes (`LeftoverExplained`) |
| `lock_serial` [17,161] | 3 runs, 2 pids, crashes; no run starts while another is inside acquire | the lock implements `Mutex`, a complete file of a dead process is recovered (`StaleRecovered`) |
| `atomic_file` [5,920] | 3 calls for one path, I/O errors, crashes, power failures | `NeverPartial`, `OpenedFileIsStable`, implementation of `AtomicRegister` |
| `cert_faults` [2,859,892] | 12 generations, one fault (I/O, crash, deletion), 2 install paths; dry runs, runs of the staging preset and of the staging server under another spelling | The service never loads a certificate with another one's key (`LoadedPairMatches`); what was ordered from the staging preset stays in the store (`PresetStagingStaysInStore`); dry runs touch nothing |
| `cert_heals` [64,745] | 4 days of validity, threshold 2, two faults, timer | `ServedValid`: no expired certificate is served while at most Threshold renewals fail before storing; a torn directory heals; the service catches up with the store |
| `batch_faults` [1,189,509] | one renew, by name or of all, over 2 certificates of every kind; failing orders, saves and deployments, crashes | The hooks enclose the orders (`HooksEnclose`); no failure keeps another certificate from its order (`EveryDueOrdered`) |
| `batch_settings` [242,568] | 1 certificate, 3 runs of issue and renew with any of --ca, --server, --test, --dry-run and a binding, register, failures and crashes | A plain renew goes to the server that issued the certificate and has an account there (`RenewedWhereIssued`); renew is refused for want of a binding only where the server demands one (`NoNeedlessRefusal`) |
| `issue_order` [629,547] | 2 authorizations, both challenges, with and without polls and sleeps; failing requests and one that is never answered; the poll budgets of the code (30 and 60); alternate chains in one or two Link headers | The response is published while the CA may look (`PublishedWhileWaiting`); records are withdrawn on each exit (`NoRecordLeft`); the order is finalized when ready; without --dnssleep nothing is signalled unseen (`SignalledIsAccepted`); an issued certificate is lost only as `IssuedIsDelivered` says; the preferred chain is returned if the client can know of it (`PreferredIsChosen`); implementation of `DomainProof`; an issuance ends, or hangs at a server that answers nothing (`IssuanceEnds`) |
| `account` [2,885,491] | 2 processes, 3 servers, two with one file name, one that needs an EAB; 4 accounts; no legacy file, one that names its server, one that names none; one lost registration | Accounts of servers with different file names stay apart, but for a legacy one without a server (`AccountsStayApart`); with issue and renew alone `StoredStays` and `OneAccountPerServer` |
| `dns_providers` [181,848] | 2 clients, 200 providers, 7 accounts; refused and lost requests, also of those that look for the zone | Values of others disappear only as `MayLose` says (`OnlyItsOwnerRemoves`); the value of a client that waits is where it was added, and where resolvers look if the provider looks for the most specific zone and was refused no lookup it takes for an answer (`UpMeansPublished`); `NothingLeft` |
| `dns_query` [963,203] | 1 and 2 resolvers; messages with and without the value, compressed in several ways, with CNAMEs, each cut off at every byte, with loops of pointers and of CNAMEs; late, early and no replies | The parser stays inside every message (`ReadsInBounds`), what was encoded is decoded (`AnswerIsDecoded`), the poll overruns its deadline by one round at most (`OverrunBounded`) and ends (`PollEnds`) |

`expect: violation`, a disagreement with what the repository says:

| Run | What TLC finds |
|---|---|
| `lock_exclusive` | Without any fault: a run finds the lock of another, which releases it, and finds it gone when it judges it (`lock.rs:20-30`: a missing file is stale); before it unlinks the path a third run has created its own file there. It removes that file and creates one. Both hold the lock, against `renewal-locking/spec.md:11`. |

The type invariant `TypeOK` of every module with variables is a theorem. Two runs
check it as well, because it says more than types there: that the counters of the
summary stay in bounds (`RenewBatch`), and that what a process has read, been given
or stored is an account where the code takes it for one (`Account`).

### Bounds

- **Lock.** A violation of exclusion needs a holder that dies or releases and two
  contenders; the fourth run shows what a later one makes of it. Three pids let one
  be recycled by a contender and by another program.
- **Files.** Two writers race, the third comes after a fault.
- **Certificates.** Generations are recycled once nothing holds them. There are
  more of them than the store, the install paths, the service and a run can hold
  (`GenerationsSuffice`, an assumption that TLC evaluates), so an unused one never
  lacks. In `cert_faults` states that differ only in what is never read again, as
  the age of a certificate that has been replaced in the store, are one (`View`).
  A validity of 4 and a threshold of 2 leave two days for renewal and one
  after; the relation of 90 and 30 days is the same.
- **Batch.** Interactions inside a run are between a certificate and an earlier
  one: two certificates, one run (`MaxRuns`). Those between runs are of one
  certificate and the accounts: one run stores, one stores something else, one
  renews. `log` grows with the orders; it is bounded by N and two hooks.
- **Issuance.** The budgets are the code's own. With two authorizations the
  first can be done or fail before the second begins.
- **Accounts.** `MaxLost` bounds the registrations lost to a reply or a crash,
  `Acct` the keys; a lock holder and a process without the lock are two
  processes. Two servers share a file name and a third does not.
- **Messages.** Every place where a message can be cut off is reached, and every
  way the code follows a pointer: forward, backward, into another name, to
  itself, past the end. Depth and hops have the bounds of the code. A poll has
  at most two rounds, because the deadline is compared after each.
- **Providers.** Every loss needs two clients, the one that loses and the one
  that writes; three were tried as well (5.8 million states) with the same
  result. The seven accounts are the ways a zone can be nested, delegated, listed
  second, or asked for at its apex or below.

### Fairness

Safety runs have none. `lock_serial` lets a run inside `acquire` go on: the
kernel schedules it. `cert_heals` lets the timer start its run each day
(`Persistent=true` in `acmers.timer` makes up for missed ones), a started run go
on, deletions end and days pass; not that a fault stops: faults are bounded by
`MaxFaults`. `issue_order` lets each action of the client happen that is enabled
for ever, and nothing of the CA or the resolvers: polls count their tries. That is
of requests that end, with an answer or an error. The HTTP agent has no timeout
(`http.rs:48`), so one need not: `Silent` is the alternative to the end of each
request, and `IssuanceEnds` says that an issuance ends or has met such a server,
which holds the process, and the lock. `dns_query` lets the only process go on: its
socket has a timeout and a sleep ends.

`CHECK_DEADLOCK FALSE` is set where the system stops by itself: every run or
call has ended.

## 4. What is proved

Each theorem holds for all values of the constants that satisfy the named
`ASSUME`s. The assumptions are about constants only: the null value is no
process, a threshold is below the validity, and so on.

- **RenewalLockProofs.** `ExclusiveUnlessStolen`, `HolderIsLinked` and
  `LeftoverExplained` of `Spec`; `MutualExclusion` and the implementation of
  `Mutex` of `SerialSpec`. Exclusion is not inductive: a holder must be known to
  be the run whose file is linked, a file must hold nothing or the pid of its
  creator, and a run that has judged a file stale must have judged the file of a
  dead process, unless a file was stolen. For `SerialSpec` in addition only one
  run is inside acquire, so that the judged file is the linked one and nothing is
  ever stolen. What a run leaves behind (`LInv`) needs that a file is linked only
  after its run has created it.
- **AtomicFileProofs.** `NeverPartial`, `OpenedFileIsStable`, the implementation of
  `AtomicRegister`. The invariant follows a file through its phases: written in
  full before sync, synced before chmod, chmodded before rename, and only
  renamed files are named or durable.
- **CertStoreProofs.** *`LoadedPairMatches`*: a file saved in this run holds the
  run's generation until somebody deletes it; a copy made is of that generation,
  because its absence ends the run; so a reload finds the run's generation
  (`IInv`). *`PresetStagingStaysInStore`*: a run that deploys was not started with
  the preset's URL, and what it has obtained was an unused number, so no older
  staging certificate goes by it (`SInv`). *`DryRunTouchesNothing`*: a dry run is
  over when it has its certificate. *`ServedValid`*: while only orders fail, the store, the install
  paths and the service agree between runs (`Progressed`), and what they agree on
  has at least Threshold less the failed orders days left, one more once the
  timer has run today (`Margin`). This is proved for operators that force
  renewals or issue anew but do neither dry nor staging runs (`PlainFlags`, as in
  `cert_heals`): such a run, in progress when the timer fires, costs a day that
  no failed order accounts for. *`TypeOK`* includes that an unused generation is
  left, for which fourteen are enough (`ManyGenerations`).
- **AccountProofs.** `AccountsStayApart`, `StoredStays`, `OneAccountPerServer` and
  `TypeOK`. Every account in a file or in a process belongs to a server that file is
  named for, or is the one of a legacy file that names no server (`Owned`): the code
  finds an account by the name of its file and compares nothing else. With issue and
  renew alone a process that registers has found, and still finds, no file and no
  legacy account (`Solitary`), and each account a server knows is in its file, about
  to be saved, in the legacy file, or lost, and a lost one nowhere else (`Placed`).
- **RenewBatchProofs.** *CaPresets*: whether a binding is needed is asked of
  `resolve` by register and of `eab_required`, with the stored name and URL, by
  issue and renew; both say the same (`ResolvedEab`). The proof shows what this
  rests on: no two rows with one name or one directory, and a first row, which
  stands for URLs in no row, that needs none. *Between runs*: `RenewedWhereIssued`
  and `NoNeedlessRefusal`. The invariant (`IInv`) says that stored settings are of
  the issuing server unless `torn`, and that this server has an account (`Agree`);
  that what renew has loaded is what is stored, adapted to the flags, also after
  it has been stored again, because adapting twice is adapting once (`Loaded`);
  and, between the order and the end of the save, that the server ordered from
  has an account (`Storing`). *Within a run*, for any number of certificates:
  `HooksEnclose` and `EveryDueOrdered` from `RInv` (where in the log the hooks
  are, and that the due certificates before the one the run is at are those
  ordered), and the bounds of the summary in `TypeOK` from `Counts`
  (what failed to load is not ordered, so nothing is counted twice).
- **DnsQueryProofs.** `ReadsInBounds`, `OverrunBounded` and the types, for every
  message, any number of resolvers and any timeout. `Place` says that the end of
  a record lies in the message and that questions and answers are counted off
  only if there are any; `Spent` what the resolvers before this one, the queries
  before this one and this query may have taken. `AnswerIsDecoded` is proved from
  `Honest`: a message that is said to mean something can be annotated. The
  invariant `Decoding` says that the parser agrees with the annotation wherever it
  is; of a name, that the labels collected and those that the annotation has for
  the rest are the labels of the name (`Reading`). So no induction over names is
  needed: each turn of the loop uses the claim about one offset. That a name has
  at most 32 pointers is part of the annotation, and needed: `read_name` refuses
  others.
- **IssuanceProofs.** Type correctness, `PublishedWhileWaiting`, `NoRecordLeft`,
  `FinalizedWhenReady`, `PreferredIsChosen`, `SignalledIsAccepted`,
  `IssuedIsDelivered`, and that an issuance implements `DomainProof` step by step.
  The invariant relates the program counter, the authorization the loop is at, the
  snapshot and the CA's statuses: everything before the loop's position is valid
  at the CA, and only the current record is published. `SeenInv` adds that what
  the loop has not signalled is untouched, and that with a poll and no sleep the
  resolvers see what it waits for; `LostInv` what an error can have lost.
- **DnsProviderProofs.** Type correctness, `OnlyItsOwnerRemoves`,
  `UpMeansPublished` and `NothingLeft`, for any number of clients and any provider
  that can be described by the words of the table. `IInv` says that a client
  that will write what it derives from a read still knows all there is
  (`Fresh`), because another one's write sets `raced` and a misread is recorded
  in `failed`; that a set deleted to be written back is empty until it is
  (`Waiting`); that a client whose lookups were answered, or whose provider stops at
  one that is refused, has found the zone the provider looks for (`Placed`); and that
  the value of a client that waits is where that client has put it, or in the hands of
  another that will write it back (`Published`). That this is where resolvers look is
  then a matter of the zone and the name (`Aimed`). While it removes, a client that
  takes a refused lookup for an answer may be at another place than where its value
  is, so for these `Published` ends with the validation. `LInv`, for `NothingLeft`,
  follows the value of a client without a failed request to everyone who has read it:
  it is nowhere but at the spot (`InPlace`), nobody knows one that was not added
  (`Unadded`), a set that is only created where there is none has one value (`Alone`),
  and a value once removed is in no set that will be written again (`Gone`). `ifSame`
  removes nothing from a set with two values, so the proof needs that a provider
  that removes in this way, gcloud alone, also creates only where there is no set;
  `ApiAssumption` states it and TLC evaluates it on the table.

The inductive invariants were checked by TLC on the instances of the runs before
they were proved.

Only model-checked: all liveness (`StaleRecovered`, `TornHeals`,
`ServiceCatchesUp`, `IssuanceEnds`, `PollEnds`), since the proof system supports
neither fairness nor ENABLED here.
Every other property of a passing run is a theorem.

## 5. What the models say about the code

### Providers

`OnlyItsOwnerRemoves` and `UpMeansPublished` hold unless `MayLose`, and the
excuses in it are all needed. They come from these rows of the table:

- *The record of another client is overwritten or deleted whatever happens*:
  providers that add with `replace` or `rezoneOnly`, or remove with `findName`,
  `allOfName` or `rezoneName`. `provider-implementation-pattern.md:233` asks to
  "Preserve existing TXT values when adding new ones"; a name and its wildcard
  need two values at one name. godaddy keeps the other records of the zone but
  replaces those of the challenge name.
- *It is overwritten by a race*: the providers that read and write back
  (`merge`, `rezone`, `probe`). Nothing guards the gap, no conditional request
  is used.
- *A failed read is taken for an empty zone*: `blind` rows (gd, namecheap,
  mijnhost on removal, azure and huaweicloud on adding). The writes of gd,
  namecheap and mijnhost then replace the zone.
- *Deleted first, written back afterwards*: rcode0.
- *The rest is deleted*: aws, when its own value is missing from what it reads.
- *A refused write is not noticed* (`unchecked`): bunny, duckdns, dyn, gd,
  infomaniak, ionos, lua, namecheap, netlify, nsone, online.
- *Never where resolvers look*: names `wrong` (acmeproxy, bh, cpanel, da, he_ddns,
  la, pdns, virakcloud, hosting1984) and `ofDomain` (azure, beget, ipv64, linode,
  nic, regru).
- *Zone*: with `suffix` the first listed zone wins, so a parent can take the
  record of a delegated child; with `above` and `askedAbove` an apex domain is never
  served; `given` takes the domain for the zone; `shortest` (leaseweb) takes the
  parent where both are hosted.
- *A refused lookup is taken for "not hosted"*: the 43 rows with `asked`,
  `askedAbove` and `shortest` (`cf.rs:187`, `huaweicloud.rs:146-158`,
  `sotoon.rs:167-174`). Where the parent zone is hosted too the record goes there:
  add_txt returns Ok for a record no resolver is led to, and when the lookup of
  remove_txt is the one that is refused, the record stays. `UpMeansPublished` says
  that a refused lookup is needed for this.
- *Never removed*: da, jd, hostup and online do not name the record they remove.
- *Left behind by an error*: when add_txt is carried out and its reply lost there
  is no guard yet (`main.rs:339-346`). `NothingLeft` excludes these by `failed`.

### Disagreements with a document that no violation run shows

- `main.rs:382` falls back from a propagation poll that timed out to the sleep,
  10 seconds by default, also when resolvers answered without the value;
  `dns01-validation/spec.md:18-19` says the command fails. `SignalledIsAccepted`
  is stated without --dnssleep for this reason.
- `main.rs:117`, `444`: whether a run is a staging run is decided by comparing its URL,
  as a string, with the preset's. The staging server under another spelling (a slash
  at its end, which `ca.rs:80` trims when it looks for a preset, the host in capitals,
  the port) is not recognised, and its certificates are deployed; `README.md:81-82`
  has deployment skipped for staging certificates. Such runs are part of
  `cert_faults`; `PresetStagingStaysInStore` is stated of the preset's own URL.
- `account.rs:60`, `83`: the server stored in an account file is not compared with the
  one asked for, and two directory URLs with one slug (`/a/b` and `/a_b`) share a
  file; `account.rs:110`: a legacy account without a server is imported for any
  server. `acme-account/spec.md:11` has an account loaded only when its stored server
  is the requested one. Both happen in `account`, and `AccountsStayApart` says that
  they are the only ways for an account to be used at a server that does not know it.
- `main.rs:451`: ARI only brings a renewal forward; `renewal/spec.md:44,56` lets
  it decide.
- `main.rs:465`: the pre- and post-hook are taken from the first certificate that
  has one, due or not, and run in a dry run (`main.rs:473`); `README.md:81` says
  hooks are skipped for skipped certificates and dry runs, and
  `docs/MIGRATION.md:135` that the dry run runs none.
- `main.rs:98`: issue stores --pre-hook and --post-hook but runs neither;
  `deployment-hooks/spec.md:48` has them run around the orders of a command.
- `challenge.rs:213`: the listener thread of an http-01 order serves until the
  process ends, so the second http-01 certificate of a run cannot bind port 80 and
  fails, with nothing wrong at the CA; `renewal/spec.md:37` and `41` have every due
  certificate renewed. It is in `batch_faults`; `EveryDueOrdered` says that the ones
  after it are still ordered.
- `aws.rs:105-110`: with Route 53 remove_txt returns Ok without a request when its
  value is the only one, and otherwise asks to delete the values of the others;
  `docs/PROVIDERS.md:3-4` says it deletes the record.
- `http.rs:175`: of several Link headers the last is kept, so the alternates in
  the others are never looked at (`PreferredIsChosen` is stated of what is kept).
- `order.rs:66`: a badNonce error ends the issuance; no request is repeated.
- `dns.rs:116`: the bit of a truncated response is not looked at and TCP is not
  tried; what did arrive is parsed.
- `account.rs:69`: the error of a renew that needs a binding names flags renew does
  not have.
- `storage.rs:29`: a first issue interrupted before `renewal.json` leaves a
  certificate that renew can only report as failed.
- `order.rs:133-168`: a reply to finalize without a Location makes the client poll
  the finalize URL (`located` in `Issuance`).

## 6. Assumptions

- The file system is local, O_EXCL and rename are atomic, and metadata is
  journaled in order; `/proc` lists live processes.
- The CA follows RFC 8555: it validates only what was signalled and issues only
  ready orders.
- A DNS service carries out each request atomically. What it answers beyond the
  words of `ProviderTable` (paging, delays, logins) is left out, and the provider
  `ultra` with it, since its code does not tell a success from a failure.
- Names and TXT values are ASCII: bytes that are no UTF-8 would be replaced by
  `from_utf8_lossy`, which `AnswerIsDecoded` does not see.
- In `RenewBatch` account files have one name per URL without its trailing slashes;
  what other URLs share a name is a matter of `Account`.
- One home directory belongs to one machine: pids mean nothing elsewhere.

## 7. Plan

Done: the lock, the files, the store, the issuance, the accounts, the providers,
with the abstract specifications of lock, file and issuance; then the choice of
the chain, the runs of issue and renew over what they store, the CA presets, the
DNS messages.

Next, modelling:

1. Composition of `Issuance` with `DnsProvider`: two issuances at one challenge
   name (name and wildcard) through one provider, so that `PublishedWhileWaiting`
   is a statement about resolvers.
2. Composition of `RenewalLock` with `CertStore`: what a stolen lock does to the
   files of a certificate.
3. The remaining pure functions: the PEM splitter of `order.rs`, `envfile.rs`,
   `server_slug` and the directory names.

Then proofs: that the compositions implement what the modules take for granted of
each other (an order of `RenewBatch` by `Issuance`, a saved file of `CertStore` by
`AtomicFile`).

## 8. Running it

    tlc -workers 2 -config lock_free.cfg MCRenewalLock.tla
    tlapm RenewalLockProofs.tla

Each run of `PROJECT.json` names its module and configuration. The longest,
`account`, takes about a minute; so do the proofs of a module at most.
