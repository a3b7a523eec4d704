# A TLA+ verification project for go-jmapsmtp

go-jmapsmtp is a small mail relay: an SMTP server that receives mail for a set
of domains, a JMAP server the users' clients talk to, and an HTTP surface that
creates and deletes accounts, takes PGP keys and lets users bring domains of
their own. It is one Go process. Its state is a directory tree, a few maps in
memory, and claims held by a remote service, the identity anchor. Every request
is a goroutine; one mutex protects three maps and little else is synchronised.
The models here are about what follows from that: what concurrent requests, the
purge goroutine and crashes can do between the steps of each other.

References such as `main.go:449` are to files of the repository. `PROJECT.json`
lists components, runs, mutants, the mapping of every definition to source
lines, findings, hazards and theorems.

## 1. Inventory

| component | files | state | operations |
|---|---|---|---|
| Account registry | provision.go, main.go, auth_env.go | maps `stores`, `aliases`, `dyn`; `auth_token_hash`, `envelope.json` and the mail store per account | provision, delete, login, `addDynAccount`, clean-up and recovery scan at start-up |
| Purge | maintenance.go | none of its own | ticker every 6 h: list directories, test mtimes, evict, remove |
| Identity anchor calls | anchor_on.go, anchor_off.go | claims, held by the anchor | claim, release, `PUT /account/did`, drain |
| Inbound mail | main.go | SMTP sessions, channel `bufCh` | `Rcpt`, `Data`, `Reset`, `bufferEmail`, `drainBuffer` |
| Autocrypt peer keys | autocrypt.go | `<domain>/peers/*.pgp` | `storePeerKey` from inbound mail; `/pgp/peerkey` |
| User PGP keys | wkd.go | `pubkey` and `privkey.enc` files | `PUT /pgp/pubkey`, `/pgp/privkey`, WKD lookup |
| Custom domains | customdomain.go | map `dynDomains`, `_domains/<d>/domain.json` | `/domain/verify-token`, `/domain/add`, `loadDynDomains` |
| DKIM keys | dkim.go | map `dkimKeys`, `key.pem` files | load or generate, sign |
| Outbound mail | main.go, provision.go | pending drafts in the store | create, submit, send per domain; reply-only policy; storage cap |
| Envelope and setup | auth_env.go, main.go, provision.go, cryptenv/ | `envelope.json`, token files, `auth_token_hash` | `GET/PUT /auth/envelope`, `/auth/signup`, `/setup` |
| Inbound TLS | main.go | cached certificate and its mtime | `certReloader.get` |
| Setup page, relay info, metrics | main.go, metrics.go | none | static answers |

How they interact:

- Provisioning, deletion, the purge and start-up write the three maps and the
  account directories; the anchor is called in between, outside the lock.
- SMTP sessions read the alias map at `RCPT`, again for the Autocrypt key and
  again for each delivery; JMAP requests move what sessions have buffered into
  the stores, looked up in a map that the registry changes.
- Delivery reads the key files that `PUT /pgp/pubkey` writes.
- The registry of custom domains decides which domains accounts may be created
  under and which data start-up keeps; the handlers and start-up share
  `loadOrGenerateDKIMKey` and the map of keys.

What is hard about it: checks and the writes they guard are separate steps;
`os.RemoveAll`, `os.WriteFile` and `pem.Encode` are not atomic, and the process
may die within them; a delivered message exists only in memory until some client
asks for mail; a remote claim may be applied although its answer was lost; the
copies of one message share a map. `PROJECT.json` lists the hazards with the
line where each bites and the properties that watch it.

What makes each component correct:

- *Registry*: the maps agree; a static account is never lost; one owner per
  name; an acknowledged owner keeps the credential until the account is removed or
  its domain is lost; nobody else removes it.
- *Purge*: only idle dynamic accounts go, and they do go.
- *Anchor*: an acknowledged DID stays claimed; a drain leaves nothing behind.
- *Inbound*: mail goes to accounts its recipients name, once; acknowledged mail
  is accounted for and arrives; it is sealed to its owner's key.
- *Custom domains, DKIM*: a key is written once; the key shown, used and stored
  is the same; registrations survive restarts.
- *Outbound*: only whom the policy allows gets mail, and what the client wrote;
  the result reported is what happened; the stored copy is sealed and carries
  the id the message was sent with; every submission is reported.
- *Text of messages*: what is signed is what is sent; the header describes the
  body; a block the client encrypted arrives whole.
- *Envelope and setup*: an account can be set up until it is, stays with whoever
  did it, and its token and keys survive password changes and crashes.
- *Inbound TLS*: a certificate comes with its key, and the latest pair is served
  in the end.

## 2. Modules

| module | what it is |
|---|---|
| `Accounts` | registry, purge, anchor calls, crash and start-up |
| `Inbound` | SMTP session, buffer, drain, sealing |
| `CustomDomain` | domain registry, DKIM keys, start-up around them |
| `Outbound` | creation, submission and delivery of outgoing mail |
| `MessageFormat` | the text of one outgoing message, step by step |
| `InboundTLS` | `loadInboundTLS`, the self-signed pair, `certReloader` |
| `Credentials` | envelope, setup token, private key and credential of one account |
| `AccountLife`, `MailTransfer`, `KeyRegister` | abstract specifications; `Accounts`, `Inbound` and `CustomDomain` implement them |
| `MCAccounts`, `MCInbound`, `MCCustomDomain`, `MCOutbound`, `MCMessageFormat` | values and symmetry for TLC |
| `AccountsProofs`, `AccountsOwnersProofs`, `InboundProofs`, `OutboundProofs`, `CustomDomainProofs`, `InboundTLSProofs`, `CredentialsProofs`, `MessageFormatProofs` | theorems |

### Accounts

A name is an address. `hash[n]`, `env[n]`, `dir[n]` are the files of its
directory (`dir` is also the age of the newest one, which is all `lastActivity`
sees); `stores`, `aliases`, `dyn` are the maps; `claim` is the anchor. An owner
is a member of `Cred`, standing for a token and its hash.

Each request is a record in `req` whose `pc` names the next step. Steps are cut
where the code leaves a critical section or makes a file-system or network call:

| steps | code |
|---|---|
| `ProvisionArrive`, `CheckHash`, `ClaimOk` / `ClaimRefused`, `Mkdir`, `Write`, `Register` | `registerProvision`: the map check, the file check, the anchor, `writeAuthHash` in two halves, envelope and `addDynAccount` with the answer |
| `DeleteArrive`, `Unmap`, `Release`, `Remove`, `Rmdir` | `registerAccountDelete`: authentication, the critical section, the anchor, `RemoveAll` in two halves |
| `DidArrive`, `DidClaimOk` / `ClaimRefused` | `registerDidUpdate` |
| `EnvelopeArrive`, `EnvelopeWrite` | `registerAuthEnv`: `PUT /auth/envelope`, and `POST /auth/signup` for a static account |
| `SweepStart`, `Keep`, `Condemn`, `Unmap`, `Remove`, `Rmdir`, `End` | `purgeInactiveAccounts` |
| `DrainStart`, `Release`, `End` | `registerDrainAnchor` |
| `Touch`, `StorePeerKey`, `Age` | mail and time, as the purge sees them |
| `Crash`, `Startup` | any moment; `main()` up to the servers |

`os.RemoveAll` removes the files and then the directory, which stays if a file
has appeared meanwhile; `WriteFile` fails if the directory has gone. Writing
the credential is one step because the empty file in between reads as no
credential. Requests that change nothing (validation, policy) are left out. The
envelope of a provisioning is optional and may fail to be written, with the same
answer 201; and the mail store may fail to open, also with the same answer, and the
account is then not in the maps.

`Startup` deletes what `cleanupOrphanedData` deletes: on a domain that resolves, the
directories without a credential; of a custom domain whose record cannot be read,
everything (`main.go:1053-1058`). `Custom` has the addresses of the custom domains, and any
of them may be unreadable at any start; module CustomDomain has the steps that lead
there.

`live`, `bound`, `unopened` and `overlapped` are history: whom the relay has answered 201
and which DID it has acknowledged, both cleared when a removal begins or the domain is
lost; the accounts whose store did not open, last time; and the addresses on which two
operations have overlapped. Where a promise of the comments needs that operations on
a name do not overlap, the property says so of that name: whatever happens on
others, to this one at other times, or at any time to names that have seen no overlap,
it covers. The run `Accounts_SoleOwner` shows what overlap does.

`Isolated` is a bound: if TRUE, an operation on an address arrives only when no other
one is working on it, which leaves the runs in which `overlapped` stays empty.

`AccountLife` is what a name promises under `Isolated`: it is free, recorded for
one owner, held by that owner once it has been told, a leftover when its removal
has begun or a crash has kept the answer from its owner, and free again; only
a leftover is ever erased. `Accounts` computes the phase from its state: the
name is free if no credential is on disk, recorded if a request is about to
answer 201 for it, held if it has been answered, else a leftover; the holder
is the credential on disk. A crash is `Abandon`, which moves every recorded name at
once; a start-up that loses domains is `Lose`. A drain may release the claims of names that are held, and the maps come and go
with restarts; neither is a step of `AccountLife`.

### Inbound

A transaction goes through `Rcpt`, `Data`, `StoreKey`, `Prepare` and `Buffer` for each
recipient, `Answer`; `Abandon` is RSET, a lost connection or a parse error. `Prepare`
makes a copy, `made[t]`, with the key that is in the file then; a key may be
uploaded, replaced or expire before `Buffer`. A key file is absent, torn, `"fit"` to encrypt
to, or `"unfit"`: it can be read, but `pgpEncryptInline` fails (a key for signing only,
or expired), and the text stays as it is (`main.go:613`). A handler drains with `DrainTake`
and `DrainPut`, between which the message is in its hand only; `DrainPut` may find no
store, or a store that fails, whose error is ignored (`main.go:490`). `text[t]` is the `BodyValues` map that all copies of a message
share (`e := parsed` copies a struct that holds the map): the kind of the body as
sent, or the account to whose key it has been sealed. It stands for the values of
the text parts, which are the only ones the sealing replaces (`main.go:618`): the value
of an HTML alternative stays as it came. So a copy in the buffer or
in a hand has no text of its own; it gets one when it is stored. `acked`,
`dropped`, `excused` and the field `hadKey` are history. `excused` counts copies, and
each when it is lost: in a crash, by a `Put` that fails, with its mailbox, or by a
message of the same id that takes its place.

Accounts are reduced to what this path reads; `UnregisterAccount` is delete and
purge, one step here because module Accounts has the steps. A key upload is two
steps, truncation and writing.

`MailTransfer` says what the path is for: each copy, a pair of a transaction and
an account, is new, then carried, then stored or gone, and never goes back. The
refinement mapping computes this from the buffer, the hands of the handlers, the
mailboxes and `delivered`; a copy that is in two places at once maps to a value
no abstract state has.

### CustomDomain

`file[place][d]` is a `key.pem`, `"site"` under `data/<d>` and `"custom"` under
`data/_domains/<d>`. `loadOrGenerateDKIMKey` is the steps `KeyLoad` (read, or
generate), `KeyCreate` (`O_EXCL`), `KeyEncode`, and `KeySet` for the caller's
assignment to `dkimKeys`; requests run them concurrently and start-up runs them
one key after another. `/domain/add` writes `domain.json` in two steps first.
The HMAC token and secret are functions of the domain, so the model has only
the facts that the TXT record is live and that the secret has been handed out.

`KeyRegister` is the promise behind `file["custom"]`: a domain without a key gets
one, no key is replaced, and only that key is shown. A missing and a torn file
both map to "no key". The steps of the handlers and of start-up are then one
creation, showings, and stuttering.

### Outbound

A submission `sub[s]` is `"new"`, `"checked"` (between the policy checks and the
`Put`), `"sending"` (acknowledged; the goroutine is at work), and then `"sent"`,
`"failed"`, `"refused"` or `"lost"`.

| steps | code |
|---|---|
| `Create` | `OnCreateEmail`: the cap, then the library's pending messages |
| `SubmitCheck`, `SubmitStore` / `SubmitFails` | `OnSubmitEmail`: cap and reply-only rule; `smtpMsg`, sealing, `Put`, answer, start of the goroutine |
| `Unreachable`, `Connect`, `Refuse`, `Take` | `sendEmail`'s loop over domains in map order (or the relay host) and `smtpSend`: no MX or no answer to the dial; connection; any error; the data taken for the recipients not refused, with or without the final answer arriving |
| `Report` | the result logged, and the `Put` under the Message-ID that was sent |
| `Receive`, `Destroy`, `UploadKey`, `Crash` | the rest of the account's life |

A body is the value of its text parts, which is `"plain"`, `"e2e"` (it contains a PGP
block), `"empty"`, or `"own"`, sealed to the account's key, and whether it has an HTML
alternative: the sealing takes that off the list of parts and leaves its value where it
is (`"hidden"`, `main.go:329-338`). A key may be unfit to encrypt to here as well
(`main.go:328`). The From of a message is what its author wrote, the client's
messages included, and the rule that only correspondents may be written to looks at
every From in the store (`main.go:305-311`). `item` is the `msg` the goroutine will put
again, `wire` is `smtpMsg`. Whether the library generates a Message-ID is its business:
`Report` may put or not. `QUIT` is left out. `kept`, `got`, `peak`, `again`, `ok` and
`hadKey` are history.

### MessageFormat

One message, a sequence of header fields and a sequence of body lines, goes
through `InjectAutocrypt`, `InjectChatVersion`, `Wrap`, `SignDKIM`; `Follows` is their
order in `sendEmail`. A line is known by how it starts, which is all that
`bytes.Index` and `bytes.Contains` are used for here. TLC enumerates the messages
in `Init`. The header fields that the rewrapping keeps (`Kept`) are defined by their
positions, the k-th kept field being the one with k kept positions up to its own,
so that they can be reasoned about; `MCMessageFormat` assumes, and TLC evaluates
for every header of up to four fields, that this is what the filter `SelectSeq`
returns. A client may add any field to its draft (`main.go:257-272`): twice, one the relay
inserts itself, or one whose name it writes in other letters than those the relay looks for.

### InboundTLS

The managed pair belongs to another program, which truncates and fills the two
files in any order (`WriteCert`, `WriteKey`); `mt` is the modification time, which
may not advance between the truncation and the filling. Start-up tries that pair
once (`StartCert`, `StartKey`), else loads or writes the self-signed one
(`StartSelf`, `StartSelfKey`, a crash may come in between). `GetStat`, `GetCert`,
`GetKey`, `GetDone` are `certReloader.get` under its mutex; a handshake that finds
the time unchanged takes no step.

### Credentials

`env`, `priv`, `hash` and `token` are the four files of an account; `Torn` is a file
that was truncated and not written. Passwords and wrapping are left out: an
envelope is known by the master secret it wraps, and the presented token, its
hash and the key of `privkey.enc` are functions of the secret. A request is

- a sign-up: `Signup`, `SignupCheck`, `Truncate`, `WriteEnvelope`, `SignupEnd`;
- a provisioning, which looks at the hash only, writes it, and then the envelope
  if it brings one: `Provision`, `ProvisionCheck`, `HashTruncate`, `HashWrite`,
  `Truncate`, `WriteEnvelope`;
- a password change: `PutEnvelope`, `PutAuthenticate`, then the same writes; or
- a private key: `PutPrivkey`, `PutAuthenticate`, `PrivTruncate`, `PrivWrite`;

and any of its writes may fail (`WriteFails`). `Start` and `StartToken` are the token loop of
`main()`, which logs a token whether or not it could be saved. `setups`, `raced`, `lost`
and `unsaved` are history: who set the account up and how; whose requests have been
writing credentials at once; that a file was left half written; that the last start-up
could not save its token.

## 3. Passing runs

Distinct states in parentheses. Deadlock is checked except in the four runs of
`Outbound`, `InboundTLS`, `Credentials` and `MessageFormat`, which really may stop: when
nobody submits, connects or asks any more, or the message is sent.

| run | question | bounds |
|---|---|---|
| `AccountsMaps` (1.5 M) | do the maps agree, does the static account survive, is a name without overlap of its own untouched by overlap on the other, and does the purge do its work? | one static name and its alias, both open to provisioning and purged; two requests, one owner; stores and envelopes may fail |
| `AccountsIsolated` (107 k) | do the promises to an owner hold without overlap, and is the life of each name that of `AccountLife`? | a static account and an address of a domain that may be lost, the directory of peer keys beside them; two requests, two owners, two DIDs; anchor, drain; stores and envelopes may fail |
| `InboundFanout` (286 k) | where does a message to several addresses end up, how is it sealed, and is each copy a transfer in the sense of `MailTransfer`? | three recipients of two accounts in two domains, buffer of 2, two handlers, repeated uploads of keys fit or unfit |
| `InboundPair` (182 k) | what do two messages with one id, or a full buffer, do to each other, and does acknowledged mail arrive? | two transactions of one recipient, one encrypted, buffer of 1 |
| `CustomDomainBoth` (473 k) | is there one key per domain (`KeyRegister`), do configured and custom domains keep apart, do registrations survive? | one domain of each kind, two requests and start-up, four keys, each domain added at most once |
| `Outbound` (368 k) | who gets what, and what does the account learn of it? | two submissions, two messages, one of them with another's address in its From, two correspondents and an invalid address, one incoming message; by domain with a cap of one message, or through a relay under the reply-only rule |
| `InboundTLS` (39 k) | which certificate do handshakes get while it is renewed? | three versions, two handshakes, two crashes |
| `Credentials` (6.8 M) | whose is the account, and what opens it? | two persons, two requests, two crashes |
| `MessageFormat` (319 k) | what happens to the text? | six headers, bodies of up to four lines of five kinds, all combinations of keys |

Why these bounds are enough to be interesting: every race in the code is
between two operations on one name or domain (a third adds no new pair), so two
requests plus the purge, or plus start-up, exercise all of them; two owners are
needed to tell mine from yours; an alias needs a second name. In `Inbound` three
recipients give a first, a repeated and a different account, and a buffer of 2
is full after two copies. Three keys suffice for the key of a file and one in each of
two hands; when all are used up generation is disabled, which only ends the
behaviour. Two submissions are the least that can be in flight together and the
least that submit one message twice; the first message of `Outbound` names
nobody, so that its recipients come from the client's envelope. With a
pair and a renewal each in two files, three versions let a load be overtaken by
one renewal and begin under the next. Two crashes put one between the first and the
second attempt at anything start-up repairs. Four lines hold a PGP block with a
line before or after it. Counters: recipients per transaction (`MaxRcpt`), the
buffer (`BufCap`, 256 in the code), `MaxSub`, `MaxVersion`, `MaxCrash`, `MaxLines`,
`Readd` (a domain may be added again; repeated additions are in the run
`CustomDomain_RegisteredDataKept` only), `Isolated`. Symmetry is used for requests,
owners, DIDs, handlers and keys, never with liveness.

Fairness. `AccountsMaps` assumes weak fairness of the purge goroutine, whose
ticker fires for ever, and of start-up, a supervisor restarting the process;
`PurgeHappens` excuses a process that stops. `InboundPair` assumes weak fairness of
the draining handlers: nothing in the relay drains by itself, so this is an
assumption on clients, and `EventuallyStored` says what their polling gives.
`Outbound` assumes it of the handlers and goroutines and of the answers of the
servers outside `Silent`; a dial has a timeout, an answer has none, so nothing
is assumed of the others. `InboundTLS` assumes that a renewal once begun is
finished, that start-up goes on, and that senders keep connecting.

Several properties are conjunctions of parts with names of their own:
`OwnersServed` of `OneOwner`, `AckedLogin`, `TakenHasCredential` and `EnvelopeOfOwner`;
`ForRecipientsOnly` of `NoMisdelivery` and `PeerKeyInHomeDomain`; `StoredSealed` of
`SealedToRecipient` and `KeyedNeverPlain`; `CopiesApart` of `SentAsWritten` and `KeyedNeverPlain`;
`HeaderCorrect` of `HeaderFitsBody` and `FieldsKept`; `BlockArrives` of `BlockSent` and
what it says of the content type.

What the passing runs show, beyond each property: `AckedAccounted` holds because
drops, crash losses and failed `Put`s are counted as such, each of its own copy. `SealedToRecipient` is what is left of
"sealed to its owner" with the shared map: sealed to *some* recipient.
`KeyedNeverPlain`, in `Inbound`, is about text parts and keys that could be encrypted to
when the copy was made; it survives the sharing because sealing is never undone. The
recipients of an outgoing message get what the client wrote, although it shares
its body map with the copy that is sealed, because the sealed text goes into a map of its
own. An owner whose name has seen no overlap is not locked out, but for the exceptions
`AckedLogin` names: a store that did not open, and an account called `peers`.

## 4. Where the code departs from its documents

Three runs check one sentence of a comment or document each and find the
behaviour of the code that contradicts it.

| run | the shortest story |
|---|---|
| `Accounts_SoleOwner` | two provisions of one free name pass the check together; both get 201 |
| `Inbound_SealedToOwner` | the second recipient's copy holds the text sealed to the first |
| `CustomDomain_RegisteredDataKept` | crash while `domain.json` is truncated for a repeated addition: the next start deletes the domain's accounts |

Where the code does keep its word is what the passing runs check: `OneOwner` (a part of
`OwnersServed`) is `SoleOwner` for names without overlap, `SealedAsDocumented` has
`SealedToOwner` for messages with one recipient, and `CustomDomainBoth` checks
`RegisteredDataKept` where each domain is added once; theorem `DataOutlivesRestart` says
for any additions that only a torn `domain.json` loses data. The exceptions that
other properties make are the code's, too:

- `OwnersServed`, `AckedClaim` and `OwnDeleteOnly` except names on which operations have
  overlapped: the delete of a first owner removes the credential of a second, a delete
  that overlaps the end of a provision leaves the name registered without a credential;
- `AckedLogin` excepts from `dyn`, not from the disk, an account whose store did not open
  (`provision.go:189`, answered 201 all the same) and one called `peers`: the name is valid, but
  the recovery scan skips the directory (`main.go:422`), although such accounts "must survive a
  restart exactly like any other account" (`main.go:398`);
- `EnvelopeOfOwner` is about dynamic accounts: for a static one a setup token installs an
  envelope without looking at the credential, and the other way round;
- `SecretKept` and `KeysStable` except two persons who wrote at once, a sign-up and a
  provisioning by different persons (neither looks at what the other leaves), and a
  file lost half written;
- `CanSetUp` excepts a token the last start-up logged and could not save (`main.go:1170`),
  which works for nobody until the next start;
- `AckedAccounted` excepts what its history counts; `ReplyOnly` takes the From of the client's
  own messages as the code does, which is not what `ARC.md:111-115` promises (below);
- `KeysAreARegister` needs a disk without write errors, which `dkim.go:62` ignores.

Behaviours that the models contain as the code has them, with no property,
because the property one would write does not hold:

- provisioning an address that is a configured alias redirects the alias's mail
  (`main.go:389`);
- the purge removes an idle `peers` directory (`maintenance.go:64`), and an
  account whose mail arrives between the mtime test and `RemoveAll`
  (`maintenance.go:104`);
- a drain does not list a claim whose provision was refused after the anchor had
  applied it, or whose account the purge removed (`anchor_on.go:71`);
- mail at a full buffer is dropped and answered 250 (`main.go:479`), and mail the store does
  not take is gone (`main.go:490`);
- mail to an account whose key can be read but not encrypted to is stored as it came
  (`main.go:613`), as it is while a key is being replaced (`wkd.go:175`: `os.WriteFile`
  truncates first), or if the first key comes between the making of the copy and its
  buffering; so is the copy of a sent message (`main.go:328`);
- of a message with an HTML alternative the text parts are sealed and the alternative is taken
  off the list of parts, but its value is stored as it came (`main.go:618`, `main.go:329`);
- `/domain/verify-token` for a configured domain replaces the key it signs with
  until the next start (`customdomain.go:158`);
- a key file torn by a crash is never replaced (`dkim.go:58`);
- the provision secret still works after the TXT record is gone
  (`customdomain.go:214`);
- sign-up leaves no `auth_token_hash`, so the account it sets up cannot log in
  (`auth_env.go:254`; the setup page says it can, `main.go:949`), and cannot
  change its password either, unless it is provisioned as well;
- two sign-ups with one token, or a sign-up and a provisioning, may both succeed
  (`auth_env.go:236`); a token left by a crash, or by a provisioning, stays valid,
  and works again when a later password change has torn the envelope
  (`auth_env.go:179`);
- the reply-only rule reads what is still stored: a correspondent whose mail was
  deleted may not be written to. It also reads what the client has submitted, whose
  From the client chooses (`main.go:253`, `main.go:305`): after submitting a message with a
  stranger's From, to nobody or to somebody known, it may write to the stranger, although
  `ARC.md:111-115` has only those who have sent mail;
- a message deleted while it is being sent comes back with the late `Put`
  (`main.go:369`); one sent to some of its domains is reported as failed
  (`main.go:830`), one refused for some recipients of a domain as sent (`main.go:867`);
- a message submitted again from the store goes out as it was stored, that is
  sealed to the account's own key;
- the storage cap applies to created and submitted messages, not to incoming ones
  (`main.go:248`; `ARC.md:133` calls `OnCreateEmail` the inbound check, but mail
  that comes in does not pass through it);
- a managed certificate that does not load at start-up is not tried again until
  the next one (`main.go:670`), although "external renewals are picked up without a
  restart" (`main.go:663`);
- a body line starting with `Chat-Version:` keeps the header from being added
  (`autocrypt.go:38`; `ARC.md:199` has it on all mail), and one the client has written in other
  letters does not; an Autocrypt field of the client's stays besides the relay's
  (`autocrypt.go:54`); a body with an END marker
  before its BEGIN marker makes `pgpMIMEWrapInline` panic (`autocrypt.go:267`); the
  text around a block is dropped.

## 5. What is proved

The theorems hold for every value of the constants that satisfies the named
assumptions of the module: any sets of names, requests, owners, domains and
keys.

*Accounts* (`AccountsProofs`). `TypeCorrect` is inductive by itself. `MapsAgree`
and `StaticSurvives` are not: a removal under way must not be of a static
account, which is decided at its arrival and needed several steps later. The
inductive invariant is

    IInv == TypeOK /\ MapsAgree /\ StaticSurvives /\ RemovesDynamic

where `RemovesDynamic` says that a request past `MayDelete`, and a sweep past
`KeepInSweep`, works on a name outside `Static`. It uses `ConfigAssumption`:
configured aliases lead to static accounts and are not static accounts
themselves. The theorems cover all interleavings (`Isolated` is arbitrary) and failing
stores.

*The owners of names* (`AccountsOwnersProofs`). `OneOwnerOnly`, `AcknowledgedClaimHolds`,
`DeletedByOwner` and `OwnersAlwaysServed` have no hypotheses: any requests, any overlap, failing
stores and envelopes, crashes, lost domains, an account called `peers`. The invariant is

    OwnInv == TypeOK /\ Exclusive /\ Stopped /\ SweepHeld
              /\ (\A n \in Name : Owned(n)) /\ (\A r \in Req : Held(r))

`Exclusive` says what it means that a name is not in `overlapped`: at most one request, or the
purge, or the drain, is at work on it. `Owned(n)` relates the owners of such an `n` to its files, map entry and
claim: "the credential on disk is the only owner", `TakenHasCredential` without its
exception, `EnvelopeOfOwner`, `AckedClaim`, and the entry of `dyn` or the reason it is
missing. `Held(r)` is why they survive a step that relies on an earlier one:
what a request has checked, claimed or written (the name was free, the claim is
its own, the credential is its own, nobody has been told yet) still holds when it
goes on. `SweepHeld` says the same of the purge, and `Stopped` that nothing is under way while the process is down. An account called `peers` is too much for the run, so that for it `AckedLogin`
rests on the theorem alone. The frame lemmas
`RequestFrame`, `SweepFrame` and `NoAccountFrame` say once that a step on one address
leaves the others alone; after that each handler is looked at for its own address only.

`LivesImplemented` is the refinement of `AccountLife`, and needs `Isolated`: a name in overlap
does leave the cycle. Each
step is shown to be one step of the cycle for one name, or to leave the phase and
the holder of every name alone: `ProvisionWrite` is `Record`, `ProvisionRegister` is
`Acknowledge`, `Crash` is `Abandon`, `Startup` is `Lose`, the step with which a deletion or the purge takes an
owner's account from the maps is `Withdraw` (a stutter if nobody holds
the name), and `RemoveAll` is `Erase` where there is a credential. `SamePhase` and `OnePhase`
reduce this to the one address at work; that a recorded name is free when it is
written, and a leftover when it is erased, is `Held`; that no second request is
recording it is `Exclusive`.

*Inbound* (`InboundProofs`). The invariant is

    IInv == TypeOK /\ RoutesHome /\ HomeInv /\ SealInv /\ MadeInv /\ OnceInv /\ AccountedInv

`RoutesHome` fixes where an address can lead at all (its `Home`, or nowhere), because
recipients are looked up again, against other maps, after they were accepted.
`HomeInv` and `SealInv` carry `ForRecipientsOnly` and `StoredSealed` from the
making of the copy through the buffer and the hand of a drain to the mailbox; the text is
that of the shared map when it is stored, so they speak of copies and maps
together. `MadeInv`: a session holds a copy of its own message between making and buffering it.
`Once` says that a copy is with its session, in one slot of the buffer, one hand or the
mailbox and never in two; `Accounted` says that a delivered copy is in one of them or its
loss is counted. `PathIsTransfer` is the refinement of `MailTransfer`: every action is
shown to move each copy as `MailTransfer` allows or not at all, with `Once` for
the places. It and the safety theorems hold for any accounts, aliases and
messages, any finite set of handlers (`BoundsAssumption`; `InFlight` counts the hands
that hold a copy), any buffer and any bound on recipients.
`OneRecipientSealed` needs `MarkInv`: the text of a message is as it was sent until the first
round over its recipients is past, and a copy made before is marked as its sender left it.

*Outbound* (`OutboundProofs`). The invariant is

    IInv == TypeOK /\ ReplyInv /\ CarryInv /\ Records /\ ResultTruthful /\ IdInv /\ CapInv

`ReplyInv`: a recipient checked against the store stays someone who has written,
although the message with that From may be deleted, since `kept` only grows. `CarryInv`: what a
submission holds is fixed when it is stored. `Records` is the loop over the
connections: what is left, what went well and `firstErr` account for all of them,
from which `ResultTruthful` follows at `Report`. `IdInv` says that a Message-ID in
the store, or in the copy of a later submission of the same message, belongs
to one that was sent. `CapInv` is `CapBound` (theorem `CapOvershootBounded`) for the messages that are stored or
may still be by a submission in flight (`Charged`): only a check adds to them, at a
time when the stored ones are below the cap and those in flight, the new one
included, are at most `peak`; a message that is stored moves from one part to
the other. `AddressAssumption` says that
the relay host is not the value that stands for no connection.

*CustomDomain* (`CustomDomainProofs`). `KeysWrittenOnce` rests on `OneWriter`: an
actor between `O_EXCL` and the encoding finds its file torn, and no other actor
is there for the same file. Crashes and write errors are included. On a disk
without write errors (`DiskFaults = FALSE`, an assumption of the theorem, needed
because the code ignores them) `Persisted` is inductive
relative to the types and `OneWriter`: a key in the hand of an actor that is past
its encoding, in `dkimKeys` for a custom domain, or in an answer is the key in
the file. It gives `ShownAlwaysPersisted` and `SignsAlwaysPersisted`.
`RegisterImplemented` is the refinement of `KeyRegister` under the same assumption. It
adds `Fresh` to the invariant (a generated key that is not yet written is in no
file and no other hand), so that a step that encodes a key is `Create`, one that answers is `Show`,
and all others leave the mapped variables alone (`StepRegisters`).
The other three properties need no assumption on the disk. `RegisteredAlwaysSigns` rests on
`SignInv`: a registered domain with a key on its disk has one in the map, or
start-up still has it to do, or somebody is between its file and the map.
`SiteKeyWins` rests on `BootInv`: while a user's key is still to be loaded so are
all configured ones, and the last to write the map for a configured domain
is its own file. `DataOutlivesRestart` says that start-up deletes data of an acknowledged domain
only if its `domain.json` is torn, however often domains are added. It rests on `AddInv`: from
the truncation of `domain.json` by its first addition on, the file is there.

*InboundTLS* (`InboundTLSProofs`). None of the properties is inductive. The invariant is

    IInv == TypeOK /\ Renewing /\ CacheInv /\ LoadInv /\ StartInv

`Renewing` ties the time of the certificate to its version: every renewal moves
it on when it truncates the file. `ReadAt(v, mt)` is what is known of a version
`v` read after the time was `mt`: it is not newer than the newest, and if the
time is still `mt` it is the one in the file. `CacheInv` says this of the cached
pair, `LoadInv` of every load in progress, together with the fact that a load in
progress is not older than what is cached (the mutex), which is `NeverOlder`
one step ahead. `UnchangedIsCurrent` is `CacheInv` with the pair spelt out.

*Credentials* (`CredentialsProofs`). None of the three properties is inductive. The
invariant is

    IInv == TypeOK /\ RequestInv /\ TokenInv /\ OwnerInv

`RequestInv` is what a request carries at each step. `TokenInv` is `CanSetUp` also while
a request writes: as long as no two have written at once, a provisioning past its check
finds no readable hash, a sign-up no readable envelope, and a sign-up that is about to
remove the token has left something readable. `OwnerInv` says, without the exceptions, that
all who have set the account up are one person, in every file (`FilesInv`) and in
every request that got through its checks (`AdmittedInv`), and that after a provisioning
the hash, after a sign-up the envelope, is there or being written again by the same
person (`HashSteady`, `EnvSteady`): the checks of later requests must fail, or be
theirs. The theorems hold for any number of persons, requests and crashes and
any failing writes.

*Text of messages* (`MessageFormatProofs`). `SignatureAlwaysCovers`: nothing is
signed before the last step. `HeaderAlwaysCorrect` and `BlockAlwaysArrives` rest on
`BodyInv` and `HeaderInv`. `BodyInv`: the insertions before the rewrapping touch the header
only, and the slice from `Index("BEGIN", b)` to `Index("END", b)` of a body with one
block starts and ends with the markers (`BlockOfOneBlock`). `HeaderInv` follows
the header from step to step: up to the rewrapping it is the draft's with fields of
the relay behind it (`Extends`: none of them twice, no key or `Chat-Version` beside one
the relay knows of); after it, it is faithful to the draft, or, if the message is
encrypted, to what is kept of the draft (`Formed`), which fixes body and
content type together. Nothing is assumed of the draft's header: it may repeat
fields and bring its own key, in any writing of the name. Both hold for headers and bodies of any length. The
lemma about `Kept` needs no induction over the header: `Rank` increases strictly
along the kept positions (`RankIncreases`), so it is injective, and an injection
between finite sets of one size is onto (`RankOnto`); hence every kept field has
its place (`KeptFields`) and the order is that of the draft (`KeptOrder`).

Only model-checked: liveness (`PurgeHappens`, `EventuallyStored`, `EventuallyReported`,
`EventuallyLatest`), out of the prover's reach; and that `Kept` is the filter that
`SelectSeq` is, whose definition the provers do not have.

Every other property of a passing run is a theorem, under the hypotheses named
above. The types of `Accounts`, `CustomDomain`, `InboundTLS` and
`Credentials` are theorems (`TypeCorrect`) and need no run.

## 6. Not modelled, and the plan

Not modelled: the WKD lookup (it changes nothing, but goes through the domains in
map order without looking at the host, so two domains with one local part may
answer with either key); reading peer keys back; header folding and parsing of
incoming Autocrypt headers; the DKIM signature itself; `dkim-dns.txt`;
`encryptMessage`, `pgpEncryptMIME` and their loaders, `VerifyAuth` (no caller); the Pkarr
proxy route and `checkAnchorConfig`; the setup page, relay info and metrics (no
state); cryptographic strength, MIME parsing and the JMAP library, which is not
part of the repository. Where one module's step is another's sequence (delete and
purge in `Inbound`, delivery in `Outbound`), or one handler is in two modules (`Accounts`
has the maps and the anchor of a provisioning, `Credentials` its files), steps of the
two do not interleave: a file written for an account by a request that
authenticated before the account was deleted, and mail still buffered for it,
which the next owner of the name inherits (`wkd.go:171`, `main.go:488`), are therefore
outside the models.

Left of the plan: `Relay`, that is `Accounts` and `Inbound` composed over the same
maps, so that the steps of a delete interleave with the steps of a delivery.

## 7. Running

    tlc -config AccountsMaps.cfg MCAccounts
    tlapm AccountsProofs.tla

Each `.cfg` belongs to the MC module its name starts with: `Accounts*` to
`MCAccounts`, and so on; `InboundTLS` and `Credentials` need no MC module. The operators named `X_Something`, commented as wrong
variants, are plausible mistakes in `X`: putting one in the place of `X` makes
the property listed for it in `PROJECT.json` fail, which shows that the property
watches that line of code.
