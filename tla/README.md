# A specification of auth-dance

auth-dance is an authentication library in TypeScript: a policy, the
*choreography*, says which steps a person performs to sign in, and the library
performs the dance, keeps the identity behind it and mints its tokens. The
modules here state in TLA+ what the server, its storage and its browser client
do, check it with TLC on small instances, and prove with TLAPS the properties
that matter most for every instance. Line numbers are those of the repository;
`PROJECT.json` maps each definition to the lines it stands for.

## The system

### Components

| component | state it keeps | operations | what makes it correct |
|---|---|---|---|
| **Choreography** (`choreography.ts`) | none: an immutable tree | `component`, `sequence`, `choice`, `pick`, `simplify`, `walk`, `peek` | the walk offers exactly the steps of the policy and ends exactly on its complete paths |
| **Dances** (`api.ts`, `state.ts`): sign-in, sign-up, recovery | nothing on the server: an encrypted state travels with the client; a one-time code in the KV | `signIn`, `signUp`, `recover`, `sendPrompt`, `submitPrompt`, `sendValidation`, `submitValidation` | a session or a reset only for who proved every step, whatever states are replayed and forked |
| **Identity management** (`api.ts`, `identity.ts`) | the identity: one record for each component and channel, with links | enroll, unenroll, rotate, recover, subscribe, unsubscribe, delete | the owner keeps a way in; links resolve; a reset ends the other sessions; a delete is final |
| **Sessions** (`api.ts`, `storage.ts`, `session.ts`) | two KV keys for a session, a refresh count | create, refresh, `signOut`, revocation, list | an ended session stays ended, an exchanged token never passes again, the index shows what exists |
| **Tokens** (`api.ts`, `claims.ts`, `keys.ts`) | signing keys | mint, verify, introspect, revoke | a token says what was granted, and every reader takes it for the same thing |
| **Components** (`components/*.ts`): password, OTP, e-mail, TOTP, WebAuthn, proof of work, policy, OAuth2/OIDC, Turnstile | KV records of their own: codes, spent counters, ceremonies, authorizations | `getPrompt`, `sendPrompt`, `verifyPrompt`, `skipPrompt`, `verificationComponent` | a code or an assertion works one time, for the identity and the address it was made for |
| **OAuth2 server** (`oauth2/*.ts`) | KV records: clients, codes, devices, user codes, login and consent challenges, remembered consents | `authorize`, `token`, the device grant, introspection, revocation, registration | tokens only for the consent that was given, one time; what was revoked stays revoked |
| **Storage** (`storage.ts`, `providers/*`) | identities, an index of identifications, the KV, rate limits | get, set, delete, list; `limit` | one identity for an identification; the holder of one is found; a window lets no more pass than it says |
| **Browser client** (`client.ts`, `react.ts`) | tokens of a tab, the steps of a dance | `restore`, `refresh`, `signOut`, a dance driven step by step | one refresh at a time, the page shows one session, nothing of a dropped dance comes back |
| **HTTP applications** (`app.ts`, `oauth2/app.ts`) | none | routing, parsing, errors, the first rate limits | a limit is consumed before the work it bounds |

### How they interact

The components call each other in one process, through `AuthDanceApi`. What makes
them concurrent is the store: every handler is `async`, every read and write of
the identity adapter and of the KV is an `await`, and several requests, in
several processes, run between any two of them. The store offers no transaction
and no compare-and-set; the code says so at several places
(`oauth2/api.ts:1539`, `1589`). What an identity is, is read and written back as
a whole (`api.ts:1138`). A session is two keys that are written side by side
(`storage.ts:132`). The client adds two other kinds of difficulty: the server
keeps no dance, so a client may send any state it ever got, two times, or
several states of the same dance beside each other; and a page has calls of its
own under way when it is reloaded, unmounted or signed out.

### What is hard here

1. *Replayed and forked states.* The forks of a dance share the key of a code.
2. *Lost updates.* Two flows read the same identity, both write their copy.
3. *Order inside one completion.* A reset deletes the sessions and then writes
   the identity, a delete lists them, deletes them and then deletes the identity:
   sign-ins run in between, and the process may stop in between.
4. *Two keys for one session.* A write of one may fail, or meet a deletion.
5. *Late writes.* A refresh, a poll or an exchange writes back a record it read
   some steps ago; the page stores an answer after it signed out.
6. *One time only.* A code, a challenge or an authorization is read, checked and
   removed in separate calls of the store.
7. *The language of a policy.* `peek`, `simplify`, the skips and the derived
   recovery choreography have to agree on what a complete path is.
8. *Copies beside a record.* The index of the memory adapter and the view of the
   D1 adapter answer for the records.

`PROJECT.json` lists these at their lines under "hazards", with the properties that
watch it.

## The modules

| module | models | checked in |
|---|---|---|
| `Choreography`, `PolicyWalk` | the operators of `choreography.ts`; one dance over one policy, with the skips and the derived recovery | `MCDance` |
| `Dance` | the prompt loop of the sign-in and of the recovery, with replayed states and codes | `MCDance` |
| `Flows` | the sign-up, the enrolment, the rotation and the subscription before their last write | `MCProvenFlows` in `MCManagementSerial`, `MCFlows` |
| `Management` | the flows that change an identity, and the sign-ins and sign-ups beside them, read by read and write by write | `MCManagement`, `MCManagementSerial` |
| `Sessions` | the two keys of a session under refresh, sign-out and revocation | `MCSessions` |
| `AccessTokens` | what a token says, to whom, while keys rotate | `MCAccessTokens` in `MCStores` |
| `OneTimeProofs` | the KV records of the components, read, checked and removed | `MCOneTimeProofs` |
| `Passkeys` | which signature of which credential a dance takes for what | `MCPasskeys` in `MCStores` |
| `SocialLogin` | an account at another server as a step of a dance | `MCSocialLogin` |
| `IdentityContract`, `IdentityProviders` | what an identity provider promises, and the two adapters that promise it | `MCStores` |
| `AddressMigration` | the rewrite of the addresses, page by page, while owners write | `MCAddressMigration` in `MCStores` |
| `RequestLimits` | the buckets of every route on the two limiters | `MCRequestLimits` in `MCSocialLogin` |
| `CodeGrant` | the authorization code grant, remembered consents, revocation, deletion of a client | `MCCodeGrant` |
| `DeviceGrant` | the device authorization grant | `MCDeviceGrant` |
| `Registration` | the registered clients and their secrets | `MCRegistration` in `MCStores` |
| `ClientTokens` | the tokens of a page, its store and the server | `MCClientTokens` |
| `ClientDance` | the dance a page holds, its snapshot, and the hook that drives it | `MCClientDance` in `MCOneTimeProofs` |
| `*_proofs` (eight) | theorems about `Dance`, `Management`, `Sessions`, `DeviceGrant`, `CodeGrant`, `OneTimeProofs`, `SocialLogin`, and the guests of `MCStores` (`IdentityProviders`, `Registration`, `AddressMigration`, `Passkeys`, `AccessTokens`); about `ClientTokens` in `Sessions_proofs`, `ClientDance` in `OneTimeProofs_proofs`, `RequestLimits` in `SocialLogin_proofs` and `Flows` in `Management_proofs` | `tlapm` |

The modules divide the API by grain. A call is one step in `Dance`, `Flows`,
`Passkeys`, `AccessTokens` and `SocialLogin`, which are about *which* calls someone
can make; a call is one read or write at a time in `Management`, `Sessions`,
`DeviceGrant`, `CodeGrant`, `OneTimeProofs`, `Registration` and
`AddressMigration`, which are about what calls do to each other. Definitions
named in comments as "a variant with a bug" are never used by a specification;
they are plausible mistakes, and putting one in the place of the definition it
names has to break a property.

Several MC modules host more than one specification: `MCStores` has
`IdentityProviders`, `Registration`, `AddressMigration`, `Passkeys` and
`AccessTokens`; `MCDance` has `PolicyWalk` beside `Dance`; `MCManagementSerial`
has `Flows`, `MCOneTimeProofs` has `ClientDance`, and `MCSocialLogin` has
`RequestLimits`. They share no variable. Each is explored with the others at
rest, so such a run holds the states of each side by side and not their product,
and its verdict is that of one run for each. Deadlock is not checked in four of
these runs (`CHECK_DEADLOCK FALSE`), for a guest stops at its own bounds.

A property of a run is often a conjunction of named parts, one for each thing it
promises; the sections below name the parts.

### Choreography and PolicyWalk

A tree is a component, a sequence or a choice. `InnerWalk` lists the paths of a
tree as `walk` yields them, `PeekIsNull` and `PeekOffers` are the two answers of
`peek`, `Simplify` and `Pick` the two transformations. `Language` is the
reference: what a policy means, defined without the order of `walk`. A state of
`PolicyWalk` is a policy the constructor accepts, a dance (the sign-in or the
recovery of one component), and the path so far; a step is one accepted answer
with the skips of `#skipSteps`.

`WalkIsThePolicy`: the walk ends exactly on the complete paths and offers every
step the policy means, `simplify` keeps the policy, no prompt is skipped for who
proved nothing, and a recovery rests on a proof by another component. Code and
reference agree on a policy that repeats no component on a path and has no dead
end; a policy with a dead end is accepted by the constructor, and nothing is
claimed of it. These two modules use recursive operators and stay with TLC.

### Dance

`issued` holds every state the server ever encrypted, so any of them may be sent
again at any time: expiry is a state nobody sends. `codes` is the KV record of a
one-time code, under the id of the dance and the name of the step. `SignIn` and
`Recover` start a dance, `SendPrompt` delivers a code (over the one that waited),
`AnswerSignIn` and `AnswerRecover` are `submitPrompt`, `ProveControl` the code that
proves an address a recovery named, `CollectReplacement` and `ValidateReplacement`
the end of a recovery. A component is one of six kinds: an address, an account of
another server, a secret, a code, a gate that needs no identity, or a consent. A
secret answers true only for who knows it: what the hash, the TOTP or the WebAuthn
ceremony computes is assumed. Two identities may have the same address value, which
is the worst case for a code. Each state carries, as history, whose credential
each of its steps accepted (`by`); no guard reads it.

`SessionEarned`, `ResetEarned`, `AddressProven`, `ConsentOnRecord`: what a
session, a reset, an address and a skipped consent rest on.

### Flows

The steps of a sign-up, an enrolment, a rotation and a subscription before their
last write: collect a value, deliver a code to it, take the code. A call is one
step, and a state a client holds may be sent again and forked. `FlowsAreProven`:
no identity holds an address its person does not read (`AddressesAreProven`), a
sign-up writes a whole path of the policy (`SignUpsAreWhole`), and a flow that
runs as the policy says reaches its end (`NoDeadEnd`); and, as an action property,
`RotatesProveTheOld`. `MCFlows` runs it under a policy with a choice, for the
claim of the run `SignUpClaim`. `began` is a history variable: the records the
identity of the session had at the start, which no flow of this person proved.

The path of a sign-up follows the order of the records, and the code of an address
stands right behind it. So a policy strands a sign-up when a step comes between an
address and its code and another follows the code, or when one code is asked for
twice. `PathsGoThrough` says that a policy has no such path: the code of an address
comes right after it, or last. The policies of the documentation are of that kind,
and `NoDeadEnd` is claimed for no other. A state id belongs to one identity here.

### Management

The identity is a set of records (`key`, `confirmed`, `links`, `value`) or `Gone`.
A call goes through the phases of its handler: it reads the session, reads the
identity and changes a copy (`ChangeValue`, `ChangeChannel`, `ChangeRemoved`,
`ChangeDeleted`), lists and deletes sessions when the flow is a rotate, a recovery
or a delete, and writes (`WriteIdentity`, `UpgradeIdentity`, `SaveIdentity`,
`DeleteIdentity`) or mints (`CreateSession`). `Fail` stops it anywhere: an
exception, a crash, a rate limit. `ApplyReplacement` and `Collateral` are
`#applyReplacement` and `#removalCollateral`; the lock-out check runs at the start
and at the completion of a removal, as in the code. `revokeSessionsOnReset` is
modelled at its default, true. `RejectsDuplicates` is a constant because adapters
differ. `CodesFollowTheirAddress` states, of the constants, that a code component
is enrolled only beside the address that emits it:
`OtpAuthDanceComponent.verificationComponent` always throws (`components/otp.ts:154`).

`NeverLockedOut`, `LinksResolve`, `CodesReachTheAddress` hold of the identity in
every interleaving, lost updates among them. `EndsReachTheSessions`,
`LatestCredential`, `DeletedForGood` are what delete and reset promise, and keep
one call at a time.

### Sessions

`kv` holds the two key spaces with the refresh count as the value. A creation, a
refresh or a deletion is a set of writes that reach the store one by one (`Land`),
in any order, beside those of other calls. `Refresh` and `Reuse` are `refreshToken`
up to the read, `SignOut`, `SignOutAll` and `Revoke` the three deletions,
`ListKeys` and `ReadValues` the two halves of `listSession`. `Answer` gives the
client the tokens or the news; `Fail` loses the writes that did not land. The
sessions of OAuth2 clients are `Grants`, which a sign-out of all leaves alone and a
reset does not. The time to live is left out: it ends both keys as a deletion does.

`EndedForGood`, `CountsGoForward` and `IndexShowsTheSessions` exclude the sessions
whose writes met another call's (`raced`) or that a call broke off (`broken`),
which is how far the promise goes without a compare-and-set.

### AccessTokens

A token is what it says: its `typ`, the key that signed it, its claims. A sign-in,
a refresh and a grant mint them, `Deploy` comes up with another list of keys that
`keys.ts` accepts, also one without the key of a token, and the readers are operators: the verification,
the check of a management action, the introspection and the revocation of the
authorization server, which reads the same tokens with code of its own.
`TokensTellTheTruth` asks for their answers on every token ever minted, in every
state: `ManagedAfterASignIn`, `RefreshTokensGiveNoAccess`, `ScopesStayAsGranted`,
`LastTokenPasses`, `IntrospectionIsTrue`, `AnyTokenEndsItsSession`,
`ClaimsAreOfTheScopes`. An owner may grant no scope at all
(`oauth2/api.ts:762-776`): such a grant gives an access token and a refresh token
without a scope, which no refresh takes (`oauth2/api.ts:981`), so `LastTokenPasses` is
about the sessions that hold a scope. Of those it asks for all that a refresh checks. Introspection calls a refresh token active that was
already exchanged, a mint that fails in a sign-in leaves a session nobody has
tokens of, and one that fails in an exchange strands the grant; the properties
say so where they except it.

### OneTimeProofs

A code (`otp.ts`), a ceremony and a signature counter (`webauthn.ts`), a challenge
(`pow.ts`), an authorization (`oauth2.ts`) and a spent time step (`totp.ts`) each
are one key that a submit reads, checks and removes or rewrites in separate calls;
submits and prompts interleave. `ProofsCountOnce`: a challenge works one time
(`ProofWorksOnce`), one that was not answered stays (`UnansweredStands`), accepted
time steps and signature counters go up (`TotpCodesGoForward`,
`SignCountsGoForward`) - unless two answers of the same key met between a read and
its write (`raced`), where `otp.ts:85-86` promises more than it does. The clock
counts time steps; the window of a code and the spent entry are read at one time of
it. The eventual consistency of a Workers KV namespace is not modelled, and would
widen every such meeting.

### Passkeys

One component asks for registrations and for signatures, and one key per dance
holds the ceremony of either. An authenticator signs what its holder asks for; the
id of a credential is what a client says it is, so another person may register a
key of its own under it. `PasskeysAreTheOwners`: an id has one owner
(`IdsHaveOneOwner`), a key is confirmed by its own signature (`ConfirmedByItself`),
a sign-in is the owner's (`SignInsAreTheOwners`), and the ceremony that waits is of a
kind its dance asks for (`CeremonyIsAskedFor`). Which challenge of that kind is signed
is not modelled: who holds a key signs anew for the one that waits, so an answer to an
older prompt of the same kind is not told apart. A sign-up is the enrolment of a fresh
identity. User handle, backup flags and origin are abstracted.

### SocialLogin

The prompt starts an authorization, a redirect brings a code, the exchange binds it
and names an account. A browser may mix up the redirects of its dances, and the
provider may be down; it is external, and either binds a code to its PKCE verifier
or a token to its nonce. `AccountsAreTheOwners`: `SignInsAreAgreed`,
`StandsForItsAnswer`, `OutageIsNotKept` (a discovery that failed is tried again),
`AccountsHaveOneOwner`. Holders are looked up in the records; the check of a record
the client holds and its write are one call. An ID token of another issuer or
audience, or an old one, is `Refused`. Calls that wait for the discovery do not stop.

### IdentityContract and IdentityProviders

`IdentityContract` is what `provider.ts` asks: one record per identity, written
whole, a lookup that follows the records, and a refusal of a write that would give
an identification a second owner. `IdentityProviders` is the memory adapter with
its index and the D1 adapter with its table, its view, the triggers and the
cascade, which get the same calls in lockstep. `EveryHolderIsFound`:
`MemoryFindsEveryHolder`, `AdaptersAgree` (outside the writes that take an
identification out of a record) and `ViewFollowsTheRecords`. `ImplementsContract`
is the refinement: the D1 adapter, through its records, is an instance of the
contract. The memory adapter is not: its index keeps what a record dropped
(`memory.ts:77`), so a dropped means is refused to others for good, which
`error.ts:212` does not say. The D1 adapter raises its constraint error as it comes,
and takes two values of one component; its list excludes the identity at the cursor
(`cloudflare.ts:33-56`) where `provider.ts:12` has it start there. Lists are in
`AddressMigration`.

### AddressMigration

`normalizeEmailIdentifications` lists the identities page by page, groups them by
inbox and writes the records it copied, while owners sign up, rotate and delete; it
may stop anywhere and be run again. An address is an inbox and a form. The order of
a listing is a relation, and a page a set that nothing left out precedes; the
rewrites are written in any order, the one of the code among them.
`RewritesAreSafe`: links follow (`LinksFollow`), what an owner wrote stands
(`OwnersWritesStand`), a run that ended well left normal addresses
(`DoneMeansNormal`), and a run gets to its end (`RunsToItsEnd`). Excepted, and
recorded as history: the memory adapter loses the rest of a listing when the
identity at the cursor is deleted (`cut`), and an identity that was deleted or
rotated between the listing and its write is written back (`crossed`). A sign-up
or a rotation that takes the inbox meanwhile makes the run throw (`joined`, `crossed`);
the next run finds two identities of that inbox, reports them, and gets to its end.

The index of the memory adapter is a variable (`index`) beside its records. A rotate
leaves the entry of the address it replaces (`left`), and `set` refuses an address whose
entry names another identity (`memory.ts:84-93`), whether or not that one holds it
still. So with this adapter a rewrite to an address that somebody once left throws at
`email.ts:211`, and every later run throws there again; `RunsToItsEnd` says that these
are all the refusals there are. A deletion frees the address its record holds, and the
D1 adapter refuses only what is held. The index starts without stale entries, as the
constructor builds it (`memory.ts:26-36`), and ids are not used again.

### RequestLimits

The buckets a request passes, in the order of each route, on the map of the memory
adapter and on the Durable Object. Time is kept as distances: two histories hold the
ages of the last allowed hits and of the last work, the latest first, as many as two
windows allow. Buckets know nothing
of each other, so one is watched, any of them, and each other may allow a hit or
not. `LimitsHold`: no span as long as a window sees more work than two windows less
one hit allow (`WorkIsBounded`), and nobody is refused while the window has room
(`RefusedOnlyWhenFull`). The limit is at least one. The window of the Durable
Object is still closed at the instant it expires. A refused `sendPrompt` has
already replaced the code that waited, which no property excludes. Time between a
hit and the work is coarse. An eviction loses no count, for the storage answers
after it wrote.

### CodeGrant

A request (`StartAuthorization`) leads through the login page and the consent page, which
fill in their challenge in one step, and the visits that redeem their verifiers, to
a session, a code and the exchange; the session is one record, `listSession` one
step, and its time to live is left out. A consent may be remembered and spare the
next page; `revokeClientGrants`, `deleteClient`, the sign-out and a revoked token
end grants, one call of the store after the other. `TokensAreOfTheConsent`: tokens
follow the client, the scopes and the proof of one request (`TokensFollowTheRequest`)
and one owner's consent to it (`TokensAreConsented`); `CodeGivesTokensOnce`;
`RevokedStaysRevoked`: a grant that ended is gone (`EndedGrantsAreGone`) and a
forgotten consent is asked for again (`ForgottenIsAskedAgain`). Excepted are the
codes two exchanges read before either marked them, and the grants that were made
while a revocation or a deletion was under way. The comment on `deleteClient` says
no grant is left then: `DeletedClientHasNoGrant` states it, and no run claims it.

### DeviceGrant

`devices`, `userCodes` and `challenges` are the KV records of the grant. The pages
fill in their challenge in one step (`TypeUserCode`, `MistypeUserCode`,
`AcceptLogin`, `AcceptConsent`, `Reject`); a visit to the authorization endpoint
redeems a verifier in two (`Redeem`, `Unset`) and goes on to the login page, the
consent page, the approval or the denial, whose read, session, write and freed
user code are steps of their own; a poll reads and then writes. A challenge id
that no page and no call knows may be drawn again, which stands for a fresh random
id. `raced` remembers a device whose record one call wrote while another held a
copy of it. A visit that denies a device already answered reports "denied" in the
browser and changes nothing; `answered` keeps what a visit recorded.

`GrantIsConsented` holds in every interleaving, double redemption of a verifier
included; `TokensOnce` and `AnswerStands` exclude a device whose record was raced.
Left out: the interval of the polls, scopes, remembered consents, the revocation
of a grant from elsewhere, and a client that is deleted meanwhile.

### Registration

What a registration request may become, the records and the hashes of the secrets,
their rotation, which stops the old secret at once, and the authentication of a client.
`ClientsAreAsRegistered`: a client that registered itself holds no privilege
(`DynamicClientsHoldNoPrivilege`), and a secret that was replaced, or that expired,
passes no check that begins later (`DeadSecretsFail`) - unless an administrator handed
`updateClient` a copy from before, which puts the old hash back. A deleted id is
not registered again.

### ClientTokens

The page and its calls, the store of the tokens, which answers in the order it was
asked, and a server that counts exchanges. `HonestSessionsSurvive`: the client
never sends a token twice, so no session of an honest client ends. `OneSessionIsShown`:
at rest, client, store and page agree (`AtRestAllAgree`), and the page follows the
client (`Follows`). `Settles`: every call of the page ends. Except: a restore that
failed is kept for good; `clearTokens` under a restore brings the old tokens back
(`adrift`); a write that failed. Two tabs on one store are not modelled. What
`client.ts:541-543` says of a sign-out under a refresh is stated as
`SignedOutStaysOut`, and no run claims it.

### ClientDance

The object that holds a dance and its snapshot, and the effect of `useAuthDanceFlow`
that starts, adopts and drops it. `DanceIsOne`: the steps an object holds are steps
of one dance (`StepsAreADance`), and a page that picks one up goes on where it was
left (`PicksUpWhereItLeft`). `HookShowsTheFlow`: the handle is of the flow the page
asked for (`HandleIsOfItsFlow`), a dropped dance emits nothing (`DisposedIsQuiet`),
`pending` is shown only for a call (`PendingIsForACall`). Except: two actions that
overlap leave `pending` false; the late answer of a dropped dance re-arms its timer,
and that of an old one overwrites the snapshot; an abandoned dance whose answer comes
late is reported done. `client.ts:785-786` promises that a dance that is over stays
over, which `client.ts:1053-1076` does not keep: `OverIsOver` states it, and no run
claims it.

## What is checked

| run | question | bounds |
|---|---|---|
| `Dance` | who gets a session or a reset? and does the walk mean what the policy says, for the sign-in and each recovery? | two identities, two dances, three messages, six states in the hands of clients, a policy with branches, a skip, a gate and an account; every policy of two levels over three components, with and without the thin nodes `simplify` removes, and the longer ones of the docs over four |
| `Management` | what survives lost updates? | two calls of any of the nine flows on one identity, two flows started, one reset, the last step of the sign-up replayed; a second session while no call overlaps |
| `ManagementSerial` | what do reset and delete promise one call at a time, with a stop after any write? what do flows write? | two sessions, a second channel, one call; two flows, six states in the hands of clients, three values of which one is another person's |
| `Sessions` | what survives two calls on one session, and do deletions reach the right ones of several? | one session, two calls that overlap, two refreshes; two sessions and overlapping calls, none refreshed; three sessions, one of them a grant, one call at a time, one refreshed and one broken |
| `DeviceGrant` | which device gets whose tokens, how often, and does an answer stand? | two devices that show the same user code one after the other, two owners, two grants; two calls beside each other while one device was seen |
| `CodeGrant` | what do the tokens of a code rest on, and what do revocations reach? | two clients, one that skips consent, one owner, two scopes, two proofs, two grants, two calls that overlap while there is one grant |
| `ClientTokens` | does the page show one session, and does each call end? | two calls, two sessions, one exchange each, a reload at any point |
| `OneTimeProofs` | does a proof count once? is a dance of a page one dance? | two calls on one component, or on an authenticator in two dances; two flows, three dances, three changes of the options |
| `SocialLogin` | is the account the owner's? do the limits hold? | two providers with an account of the same id each, four dances, two calls; two requests on every route, a limit of two, a window of two |
| `Stores` | do index, view and records agree? what do whole-record writes keep? | three identities and two values; a client with two calls, two secrets and two moments; every store of three identities and two inboxes; two people's passkeys; two sessions, four tokens and the key lists of a rotation |
| `UpgradeClaim`, `SignUpClaim` | claims of the code that fail, below | those of `Management` and of `Flows` |

Why the bounds are enough. The properties of `Dance` speak of one session or reset
and of the forks of one dance; two of each actor give a mix-up, and three messages
give one that overwrites, one that is stale and one that is right. A lost update
needs two calls, and all nine flows are among those two; more flows started only
repeat the pairs. A session is two keys, and two calls on it meet in every order of
their four writes. A device request has two answers and two polls that can meet;
the second device is there for the user code that is used again, which needs no
second call. Two grants of one client are what tells a revocation of one from that
of all. Where a module has a proof, the theorem does without the bound.

The bounds named in the modules and MC modules: `Narrow` of `MCManagement`,
`MCSessions`, `MCCodeGrant` and `MCStores`, `OneDeviceWhenBusy`, `OneComponent`
and `NarrowPage` are state constraints, each with the sentence that says what it
leaves out; `NarrowPage` of `MCClientTokens` is part of the next-state relation, for
`NarrowPageSpec` states fairness, and it removes no step that fairness speaks of.
`VIEW WithoutHistory` of the run `Management` leaves the history variables out of
the fingerprint: no guard reads them and no invariant of that run is about them.
`SYMMETRY` permutes sets of model values no definition orders, and no run with
symmetry checks a liveness property. A page of `AddressMigration` has two
identities where the code reads a hundred.

**Fairness.** Only `ClientTokens` states any: weak fairness of the answers of the
network and of the store, and of the steps a call takes after them, because a
promise of `fetch` or of the storage settles (with an error, if nothing else) and
the continuation then runs. No call has to be made, and nothing forces the page to
stay open. `Settles` rests on it. Everywhere else the properties are of safety: a
request may always stop, and a completed one may have done anything before.

### Where the code and its own words differ

| run | what happens |
|---|---|
| `UpgradeClaim` | the rewrite of a record after a sign-in step saves the whole identity as it was read, and undoes a rotate in between (`api.ts:1223`, against `:1221-1222`) |
| `SignUpClaim` | a sign-up whose policy is `sequence("email", choice("password", "otp"))` offers the password and then refuses it (`api.ts:932`, `:1622`, against `docs/concepts/choreography.mdx:59`) |

Others met on the way are excepted in the properties, and have no run of their own:

- `simplify` drops a repeated step of a sequence, so a policy that asks for a
  factor twice asks for it once (`choreography.ts:178`, against `:175`).
- A sign-in in flight mints its session after the delete listed the sessions
  (`api.ts:2470`, against `docs/concepts/flows.mdx:80`); a flow in flight writes a
  deleted identity back, as does the last step of a sign-up submitted again.
- A refresh in flight writes the session back after the sign-out answered
  (`api.ts:1009`, against `:946-947`; `app.ts:385` promises the client the same).
- A poll that read a device before its approval writes it back as pending, and the
  device never gets its tokens (`oauth2/api.ts:1586`, against `:626-627`).
- The claims stated as operators without a run, each false for the reason its
  module's section gives: `CodeWorksOnce`, `TakenMeansInUse`, `OldSecretStops`
  (`storage.ts:109`), `DeletedClientHasNoGrant`, `SignedOutStaysOut`, `OverIsOver`.
  To see one fail, put it under `INVARIANTS` of its run's configuration.
- A recovery beside a sign-in with the old credential leaves its session; a late
  refresh sets a count back; a deletion that unsets only the index key leaves a
  session no list shows. An adapter that accepts two records under a key gets them
  when an enroll is completed twice. A removal is refused although a way in stays,
  when the rest depends on the unconfirmed code challenge of an address.

## What is proved

Every theorem holds for every value of the constants that satisfies the named
assumptions, so for any number of identities, sessions, calls and flows. Each is
proved from an inductive invariant, whose parts were checked by TLC first.

**`Dance_proofs`** - `DanceTyped`, `SessionsAreEarned`, `ResetsAreEarned`,
`AddressesAreProven`, `ConsentsAreOnRecord`. Assumed: the types of the constants
(`DanceAssumption`), and, for the results about proofs, that every path of the
policy holds a proof after an identification (`ChoreographyAssumption`), which is
what the constructor of `AuthDanceApi` refuses to start without. `SessionEarned` is
not inductive: a session takes its evidence from a state issued earlier, and a state
takes it from a message delivered earlier. `IInv` says it of all of them: each
issued state has a path with one witness a step and a witness that is the identity
of the state wherever a step proves; each message was delivered to the identity it
names; each waiting code is a message that was delivered for the identity and the
recipient the record holds. `ConsentInv` adds that a consent on the path of a state
is on the record of its identity, or is about to be.

**`Management_proofs`** - `ManagementTyped`, `AWayInStays`, `LinksStayResolved`,
`CodesKeepReachingTheAddress`, `EndsReachEverySession`, `DeletesAreFinal`,
`LatestCredentialIsHeld`. Assumed: `ManagementAssumption` and
`CodesFollowTheirAddress`. With calls in flight the identity may be replaced by any copy in
memory, so the invariant cannot be about what the last write did. It is that the
identity *and every copy* is `Sound`: its links resolve, every address has the
channels it emits, and some path can be performed. Each change keeps a copy sound by
itself - a lemma for the addition, the replacement, the removal and the sign-up - and
a write only moves a sound copy. This is why no interleaving of lost updates locks
the owner out.

`CodesReachTheAddress` takes two hypotheses. `RejectsDuplicates`, because an enroll
completed twice gives an identity two records under a key otherwise, and their values
differ. `EmissionsAreOwn`, because a channel two addresses emit holds the value of
one of them and is linked to both. `ReachInv` says of the identity and of every copy
that a record links to nothing but the address that emits it, and that where no key
is there twice, its value is that address's; an adapter that refuses the other copies
is what makes the first kind enough.

The last three are of a behaviour in which no two calls overlap, `OneCallAtATime`, and
say so in the statement: with two calls they fail, as the table above says of a
sign-in beside a delete or a rotate. A call may still stop at any step, and any
state of a flow may be submitted at any later time. `EndsInv` says of the one call
there is that past its read it found an identity, that a sign-in read it after the
last reset, and that a reset or a delete has listed every live session that it does
not keep. `~SignUpIsOpen` is needed there, because the last step of a sign-up reads
nothing: submitted again after the delete, it writes the identity back.
`GoneIsNoIdentity` says that what `getIdentity` returns of a deleted identity is no
identity; it is a hypothesis, and no `ASSUME`, for TLC cannot ask it of a model value.
`LatestCredential` needs no such thing, and `RejectsDuplicates` instead. `ValuesInv`
says that a copy in memory holds what `latest` will be when it is written, or is one
with a component twice that the adapter is going to refuse.

The same module has `FlowsWriteWhatIsProven` and `RotatesNeedTheOld` about the flows
before their last write (`Flows`), for any components, values, states and identities.
Assumed: `FlowsFit` of `MCProvenFlows`: the types of the constants, a policy a
sign-up can go through (`PathsGoThrough`), and an identity that the adapter takes and
whose addresses have the channel they brought (`HomesFit`). `FlowsAreProven` says of
an identity what a state decided long before, and any state a client got may be sent
again, so `FlowsInv` is about every state there is. In a sign-up an address, its
channel and its code stand together and hold one value (`GroupsFit`), one address at
most waits for its proof and comes after all that is walked (`WaitingFits`), and an
address that is confirmed is read by its person, unless a channel is there twice and
the adapter is going to refuse the records (`ProvenFit`). A code that is confirmed
stands right behind its address, or ends the path; that is why the records that count
as steps, in their order, are the path the sign-up came by (`WalkGoesOn`). A rotate
that is past its first code is about an address that is read (`RotateFits`), for the
code went to the channel of the identity, and whatever other flows write beside
keeps it so (`HomeIsKept`). The facts about filtered lists (`ChosenMembers`,
`ChosenAppends`) are proved by counting their places, with no induction.

**`Sessions_proofs`** - `SessionsTyped`, `EndedSessionsStayEnded`,
`TokensPassOnce`, `ListsReachTheSessions`. Assumed: `SessionsAssumption`,
`IdleAssumption`. `EndedForGood` needs three more facts: what is in the store was
created, a call's pending writes are those of its operation and session, and a
session that was reported ended, and that no write raced, has no writer left
(`ClosedInv`). The other two add, in `JInv`, that a session no write raced has one
writer at a time, that its two keys are both there or both not but for the writes
that are outstanding, and that a call reaches the sessions it knows of.

The same module has `TokensEndWithTheirOwner` and `OneSessionEverywhere` about the
tokens of a page (`ClientTokens`), for any number of calls, sessions and exchanges
and without the constraint `NarrowPage`. Assumed: `PageAssumption`, that what stands
for nothing is told from the rest. A session dies when tokens are sent that are
behind the server, so `TokensInv` is about which copies of a token may be behind:
while the answer of an exchange is out, every copy of its session; while it is being
written, what lies in the store and what is written before it; no other, unless the
session counts as lost (`AllAreFresh`). That holds because the slot of the client has one
exchange at most (`ExchangesFit`), which goes out with the tokens in memory, and
because a write lands before the exchange that made it is over (`WritesFit`). The
tokens of a sign-in are apart from all that until the client takes them
(`NewIsApart`). `Agreeing` says what the restore and the last write have to do with
each other before the page is at rest: memory is what was written last, and a restore
reads what was stored before.

**`DeviceGrant_proofs`** - `DeviceGrantTyped`, `GrantsAreConsented`,
`CodesGiveTokensOnce`, `AnswersAreKept`. Assumed: `DeviceGrantAssumption` and
`NoneAssumption`: the bounds are naturals, and `None` is no other value. The store
compares nothing before a write, so what a record says may come from a copy that was
read long ago. The invariant follows the evidence of a consent through every place
it can be: the consent page, the call that redeems its verifier, the copy of the
record of the device that call holds, the record in the store, the copies the polls
hold, and the tokens. An approved copy, however old, names a grant of an owner who
consented to this device (`Backed`), and no step moves a grant to another owner or
takes a consent back (`Keeps`). For the other two, `JInv`: a device no write raced
has one call at most that is to mint, and then no tokens; who holds a copy of it
reads what is stored; an answer that was written is what every holder holds.

**`CodeGrant_proofs`** - `TokensAreConsentedTo`, `CodesOfAGrantGiveTokensOnce`,
`RevocationsStand`. Assumed: `CodeGrantAssumption`, `NoneAssumption`. `IInv` has four
parts. `Typed`: a consent is followed through the page, the call that redeems its
verifier, the session, the code, the copy an exchange read, the remembered consents
and the completions that read them, to the tokens; `Keeps` says of every step that
no grant changes its owner, client or scopes and that nothing an owner did is taken
back, so a copy keeps its worth however old it is. `Once`: one call brings a grant
its code, nobody has tokens of a code that is not marked, and when it is marked one
call at most is still to mint. `Ended`: of the grants a revocation listed, those it
no longer has ahead of it are over. `Standing`: what is remembered, or about to be
written, was asked for since the owner last had it forgotten.

**`OneTimeProofs_proofs`** - `ProofsCount`. Assumed: `OneTimeProofsAssumption`,
which the theorem states as its hypothesis. `IInv`: a challenge that was answered is
out of the store and no other call is past its read of it (`ProofsFit`); what waits
stays (`UnansweredStands`); the entry of a spent time step outlives the window of
its code (`TotpFits`); the stored counter of an authenticator is the highest any
call saw (`CountFits`).

The same module has `StepsAreOfOneDance` and `HandlesAreOfTheirFlow` about the dance
of a page (`ClientDance`). Assumed: the `PageAssumption` of `MCClientDance`. `PageInv`:
what a start brought waits untouched, and no call, no node and no other start refers
to it (`Brings`); a snapshot is a dance without its timer, so what is said of the
steps is said of both (`DanceFits`, `SnapshotFits`); and the trail is long enough to
go back even in a dance that two answers crossed.

**`SocialLogin_proofs`** - `AccountsAreOwned`, and of `RequestLimits`
`LimitsBindWhoAsks`. Assumed: `SocialLoginAssumption`, the theorem's hypothesis;
`LimitsFit`. `IInv`: a code a call exchanges is bound to the authorization
it read (`CallsFit`); a holder of an account agreed to it (`HoldersAgreed`); what a
call is about to write was answered by the provider (`WritesFit`).

Of the limits, for any limit, window and number of requests: `LimitsHold` speaks of
the work, and a limiter counts hits. `LimitsInv` ties the two: the hits of the window
under way and those before it are as old as the bucket says (`WindowFits`); in a
request, work comes right after its own hit (`RequestsFit`, which follows from the
order of every route, `RoutesAreWays`); and each piece of work is no younger than a
hit of its own, apart from the hits of the requests that were let in and have not
begun, which happened this moment (`WorkFollowsHits`). `LimitsFit` says that a window
allows something and lasts, and that the requests under way are finitely many.

**`Stores_proofs`** - `HoldersAreFound`, `D1ImplementsTheContract`,
`RegisteredAsAsked`, `SignaturesAreTheOwners`, `TokensSayWhatIsSo`,
`RewriteUndoesNothing`. Assumed:
`AbsentAssumption`, `NobodyAssumption`; for the clients `ClientsAssumption`, for the
passkeys `PasskeysAssumption`, for the tokens `TokensAssumption`, for the
rewrite `MigrationAssumption`. For the identities, the invariant says what each copy
knows: the view is the claims of the rows, and the index has an entry for every
claim of a record. The refinement maps the rows to the records of the contract;
every call maps to the write, the delete or the refusal it stands for.

`RegisteredAsAsked` is about the calls that read a record of a client and write it
back later. `ClientsInv` says that a secret belongs to one client and the one a
rotation drew to nobody yet, that the copy a call holds has a hash its client was
given, and that the record of a client nobody overwrote unread holds no replaced
secret. A check that began when a secret was dead can then only have read a record
without that hash, or one that has expired, and what has expired stays so.

`SignaturesAreTheOwners`: the properties are about what a dance accepts, and what it
accepts depends on the states that clients hold. `PasskeysInv` says of every state
anybody got that its flow, as far as a registration in it, is driven by the owner
(`StateFits`), and of the identities that each has one confirmed passkey at most,
of a key of its owner, under an id of nobody else (`Enrolled`). So the credential
that waits in a state is the only one that is not confirmed, it alone may answer,
and the answer is by its own key. `PasskeysAssumption` says that a session to enroll
is in the hands of its owner, and that the identities a run starts from are what
enrolments leave.

`TokensSayWhatIsSo`: the properties compare a token with its session, which a
refresh writes. `AccessInv` says that what a session was created with stays
(`Lasting`), so a token keeps to its session however old it is (`OfItsSession`),
and a refresh token is of the issuer or of a client with that grant,
that the `auth_time` of a session is of a sign-in of its owner, and that the count
of a session is written with the token that has it (`LastFits`).
`TokensAssumption` gives the constants their types: durations that last, keys that
sign, an issuer that is no client.

`RewriteUndoesNothing`: the run writes whole records it copied earlier, so what it
may write depends on what the listing saw. `MigrationInv` says where an identity of
the store is while the listing goes (`ListingFits`): it was copied, lies behind the
cursor, or signed up while the run went; with the memory adapter that is so only
while the identity at the cursor is there. It says that the record of a copy is the
copy, or the rewrite of it once written, unless its owner changed it since
(`RecordsFit`), and that copies link as records do (`CopiesFit`). When the listing
ends there is nothing behind the cursor (a page has two places, and the one at the
cursor takes one), so every identity of the store is a copy or signed up since
(`WritingFits`), and two of one inbox are in one group, which is not written. What the
adapter refuses is then a matter of its index: it names each holder, and every other
entry is of an identity that left the address (`IndexFits`).
`MigrationAssumption`: a page holds two identities at least, for a page of one ends
the listing of the memory adapter at its first cursor, and the absent record is no
record.

**What stays with TLC.** Out of the prover's reach: `Settles` (liveness, and the
`ENABLED` in its fairness), and what a recursive definition computes for every
input, so everything about `Choreography` and `PolicyWalk` (the induction theorems
take an operator as a parameter, and a module that reaches a `RECURSIVE` operator
has no SMT backend).
`WalkIsThePolicy` is therefore only model-checked. Every other property that a
passing run checks is the subject of a theorem.

## Not modelled

- Turnstile: a call to an external service, without state.
- Pure input and output: HTTP routing, formatting, localisation, the texts of
  errors, the metadata documents of the OAuth2 server. Ids (`ksuid`) are fresh
  values. Cryptography (`jose`, hashes, signatures) is assumed to do what it says;
  a secret answers true only for who knows it.
- Times to live of sessions and challenges, other than as a step that ends them.
- The eventual consistency of a Workers KV namespace, and two tabs that share one
  token store.
- The context of the React hooks, which shows what the client holds, and the demo
  application.

## Plan

Modelled in this order, the most important behaviour first: the policy and the
dance, the management of an identity, the sessions, the device grant; then the code
grant and the browser client, the one-time proofs, the identity providers, the
limits and the registration; then the flows, the passkeys, the migration, the social
logins and the tokens. The proofs followed in the same order, those of the specifications
that share a run with another one last.
