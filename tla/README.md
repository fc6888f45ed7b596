# A verification of pq-ucan

This directory models the UCAN 1.0 library in `src/` (a Rust crate: tokens that
delegate authority, and the validator that decides whether an invocation carries
it) in TLA+. TLC checks the models on small instances; TLAPS proves what matters
most for every instance.

    tlc -workers 2 -config MCShared.cfg MCShared      # one run
    tlapm ValidateProofs.tla                          # one module of proofs

## The system

| Component | State it keeps | Operations | What makes it correct |
|---|---|---|---|
| Validator (`src/validate.rs`) | the time it was made with, its options, the stores it borrows | `new`, setters, `validate` | what it accepts carries the subject's authority; a refusal names the first failure and leaves no trace; it returns |
| Proof store | delegations by CID | `insert`, `remove`, `get`, `prune_expired` | sweeps drop only what nobody would accept |
| Replay guard | CIDs of invocations seen, with their expiry | `record`, `prune_expired` | no invocation is accepted twice |
| Revocation store | per CID: revoked everywhere, by whom, the target's expiry | `record`, `revoke`, `is_revoked`, `prune_expired` | irreversible; reaches the chains its authority issued in and no others |
| Taking in revocations (`src/validate/revocation.rs`) | none; reads a Validator | `Revocation::read`, `check_revocation`, `check_grant`, `check_standing` | nobody revokes beyond their own authority; order of arrival does not save a presented chain |
| Time (`src/time.rs`) | none | saturating arithmetic, `is_past`, `check_window`, clocks | inclusive bounds, skew both ways, no wrap-around |
| Commands, DIDs (`src/command.rs`, `src/did.rs`) | none | `parse`, `covers`, `same_principal`, resolvers | coverage on segment boundaries, transitive |
| Policy language (`src/policy/`) | none | statements, selectors, globs | an answer for every argument, by value; nothing signed goes unread |
| Tokens (`src/delegation.rs`, `src/invocation.rs`, `src/envelope.rs`, `src/varsig.rs`) | the exact bytes that were signed | builders, `prepare`/`assemble`, `decode`, `verify` | what verifies is what was signed |
| Codecs (`src/codec/`, `src/cid.rs`, `src/nonce.rs`) | none | strict DAG-CBOR, DAG-JSON, varints | one encoding per value, bounded depth |
| Signature backends (`src/crypto/`) | keys | sign, verify | external |

How they interact. A caller makes a `Validator` over references to stores, hands
it one invocation after another and drops it. `validate` calls, in this order,
`ProofStore::get` for every link, nothing external while it checks structure and
time, the `Resolver` for every issuer, `RevocationStore::is_revoked` for every
hop, and `ReplayGuard::record` once. The in-memory stores are borrowed while a
Validator lives, the replay guard mutably, so the borrow checker rules out any
change under a running `validate`; the traits do not: a store kept in a database
changes whenever somebody writes to it. Revocations reach an executor as
invocations with a chain; `check_revocation` reads the stores like `validate`
and returns an entry, which the caller records by a call of its own. The library
itself starts no thread and persists nothing.

What is hard. The Validator's time is a snapshot, while clocks move (and are
set back) and stores are swept by time. Authority is a property of the whole
chain, and the code establishes it from comparisons of neighbours. Two hazards
meet in pruning: a sweep must not make acceptable again what had been refused.
Revocations arrive in any order and revoke each other's authority. In the pure
parts the hard things are boundaries: the last star of a pattern, integers a
float cannot hold, slices that cross, the second form of a value.
`PROJECT.json` lists each hazard with its line and the properties that cover it.

## The modules

| Module | What it holds | Code |
|---|---|---|
| `UcanTime` | timestamps, expiries, windows; constant `MaxTime` stands for 2^53 - 1 | `time.rs` |
| `Ucan` | principals, commands, policies and tokens as the validator reads them | `did.rs`, `command.rs`, the payloads, `Envelope::verify` |
| `Chain` | one operator per check and hop, returning the error it reports or `"Ok"` | `check_structure`, `check_time`, `is_revoked` |
| `Authority` | what acceptance is meant to say, over the whole chain, in none of the code's terms | - |
| `Validate` | the state machine: workers, clock, stores | `Validator::validate`, the stores |
| `Pipeline` | `validate` as a function of a token, its chain, a time and what the stores hold | `validate`, `check_structure`, `verify_chain`, `check_revocations` |
| `Gatekeeper` | the abstract specification: stores that change and one step per decision | `validate`, the stores |
| `Atomic` | the mapping under which `Validate` over borrowed stores implements `Gatekeeper` | - |
| `Revocation` | reading and checking a revocation, as functions | `validate/revocation.rs` |
| `Intake` | the state machine of an executor that takes revocations in | `check_revocation`, `MemoryRevocationStore` |
| `Glob`, `GlobText` | the matcher, a step per turn of its loop; compilation of a pattern | `policy/glob.rs` |
| `Ipld` | values, deep equality, the order of numbers | `policy/mod.rs` (`equal`, `Number`) |
| `Selector` | resolution of a selector | `policy/selector.rs` (`resolve`, `step`, `index`, `bounds`) |
| `PolicyEval` | statements read, written and evaluated | `policy/mod.rs` |
| `Reading`, `Chars` | what a reader returns, `?` and `map_err`; characters and their escapes | - |
| `Cbor`, `Varint` | the encoder and the strict decoder, typed reads; LEB128 | `codec/`, `cid.rs` |
| `Json` | DAG-JSON: the writer, the parser, the reserved maps | `codec/json.rs` |
| `Names` | DIDs and commands as text | `did.rs`, `command.rs` |
| `Keys` | algorithms, public keys, base58, `did:key`, what a signature is | `crypto/mod.rs`, `did.rs` |
| `Varsig` | the header of a signature | `varsig.rs` |
| `Envelope` | signing, opening, verifying, a signer elsewhere | `envelope.rs` |
| `Tokens` | payloads: defaults, writing and reading every field, tasks | `delegation.rs`, `invocation.rs` |
| `SelectorText` | the parser of selectors, and its grammar | `policy/selector.rs` |
| `Wire` | what is on its way between two parties; the properties of values, varints and commands | - |
| `Codec` | each of these forms between two parties | - |
| `MC*` | instances for TLC | - |
| `TextProofs` | lemmas on texts and bytes: varints, base58, `did:key`, the texts of DAG-JSON | - |
| `CborProofs` | lemmas on DAG-CBOR, read and written | - |
| `SelectorProofs` | lemmas on the text of selectors, and what its parser reads | - |
| `ValidateProofs`, `IntakeProofs`, `GlobProofs`, `PolicyProofs`, `CodecProofs` | the theorems | - |

### The validator

`Validate` follows the code statement by statement. `pc[w]` names the check a
worker's `validate` is at; a loop over hops is one step per hop (`ForEach`), a
single check one step (`Once`), and each call to a store is a step of its own.
`hop[w]` is the loop index, from 1 (the code's `Hop::Proof(n)` is position
`n + 1`, `Hop::Invocation` the one after the last). `now[w]` is the Validator's
`now`; `outcome[w]` the `Err` it returns. `Shared = TRUE` lets the environment
change stores under a running `validate` (the traits); `Shared = FALSE` is the
borrow checker's rule, stores change only while no Validator lives.

Tokens are constants: a CID is computed from bytes, so what it addresses never
changes. `Resolves` is a store's freedom to know the same bytes under another
CID. Signatures are the key that made them, policies the sets of arguments that
satisfy them. Revocations are pairs of a CID and the principal they were
recorded for, or `Everywhere`.

Three variables are history: `everRevoked`, `doomed` (the hops a recorded
revocation reached when this `validate` began) and `executions`.

`Gatekeeper` has one action for a whole decision, `Decide`, whose answer is
`DecisionError`. `Atomic` instantiates it; a `validate` takes effect in its last
step, and until then the mapped state stutters. Over borrowed stores that holds
(`IsAtomic`); over shared ones it does not, and what holds then is what `shared`
checks.

### Taking in revocations

`CheckRevocationError` is the whole of `check_revocation`, an error or `"Ok"`,
through the checks in the code's order. In `Intake` any of `Messages` arrives at
any time, any number of times or never; `Accept` adds to `pending`,
`RecordAccepted` records later. An entry is revoked under the right the revoker
issued in the chain with, or, for one who did not issue, under the subject and by a grant
(`check_grant`); the authority that a record is kept under is `AuthorityOf`.

A delegated revocation counts only while its grant stands, so two executors who
hear it and the revocation of its grant in different orders keep different
records. That is the code's rule, and no property says otherwise. For a direct
revocation that nothing lapses for, every order comes to the same for the chain
it was presented with: once it has been checked and recorded, or turned down
because of an earlier one, that chain is cut (`PresentedChainIsCut`).

### The policy language

`Glob`: `s` and `t` are the code's indices, `star` and `matched` its `backtrack`.
`PolicyEval`: `Load` reads a policy from a value, `Check` asks it about
arguments. There the text of a selector and the compiled pattern of `like` are
constants (`SelectorOf`, `MatchesOf`); what they stand for is `SelectorText`,
whose values are `Selector`'s segments, and `Glob`. Floats are counted in halves
and have a significand below `Significand` (2^53 in the code); `FloatLimit` is
the bound beyond which `int_float` does not convert (1e38). The codec lets
neither non-finite floats nor integers beyond 64 bits into a token, far below
1e38 (`IsInteger`, `IsFloat`), so the inexact comparisons that remain between an
`i128` and a float beyond 1e38 are never made on one.

`Values` are the values looked at, with all their parts, each nested no deeper
than `MaxDepth`, the codecs' `MAX_DEPTH`: what the functions of the model
(`Same`, `Judge`, the parser and the writer of statements) have for a domain,
and what their recursion comes down by. The assumptions on them
(`IpldAssumption`, `ValuesAssumption`) say nothing of a value but its type.

### Bytes, tokens and texts

A reader returns `Read(value, pos)` or `Fail(error)`, with the error the code
would return. `Then` is the code's `?`, `OrElse` its `map_err`.

`Cbor`: a byte of the model has an eighth of its values for each major type.
`Infos` low values, of which `Direct` hold an argument and `Widths` announce one,
stand for 32, 24 and 4; arguments take 1, 2, 3 bytes instead of 1, 2, 4, 8. Which
bytes are UTF-8, finite floats or CIDs is external. `from_bytes` is the part of
`cid.rs` on the way in: the parser beneath it reads a prefix (`CidIn`), and the
code requires that it is all (`IsCid`).

`Json` reads and writes the same values as characters. Its decoder goes through
the generic parser and then claims the reserved maps (`{"/": ...}`), so that a
link or bytes are read by what stands in the map. That costs levels of nesting;
`IsFollowed` says which values the parser follows to the end.

`Names` has `Did::parse` with its escapes and URL parts, the base that identity
is compared by, `Command::parse` and `covers`. `Keys` writes a key as `did:key`
with a base58 that divides, and reads it back with the varint code of each
algorithm; a signature is a record in `made` of a key, the very message it was
made over and its bytes. That nothing else verifies is assumed of the backends,
with one exception: `Twins` are the pairs of bytes of which a backend takes the
second wherever it takes the first (`WithTwins`). A signature (r, s) of ECDSA has
the twin (r, n - s). `crypto/p256.rs` does not ask which of the two it is given;
whether the crate under it does is not in this repository, so the model lets it
take both. A token under the twin has other bytes, and another CID.

`SelectorText` has the parser and, apart from it, the grammar of
`docs/validation.md` as the set of readings of a text (`SelectorReadings`).
`JsonUnitReadings` are the characters of JSON strings, `UnitReadings` those of
quoted keys, which differ from JSON's in three ways.

`Envelope` is `[signature, {h: header, tag: payload}]`. `Open` walks the bytes
with `Cbor`'s typed reads and takes the signed part by position
(`SignedPart`), as `open` does; `Verify` asks about those bytes, or about the
text written again from what was parsed. `Tokens` builds a payload from the
fields that were set (`Chosen`, with the builder's defaults), writes it
(`ToIpld`), and reads it with every check of `from_ipld` and `Fields`:
unknown, missing and mistyped fields, timestamps, DIDs, commands, policies.

In `Codec` one party sends a value, a token or a text; an encoding may have a
byte altered or added, and unfinished input goes on for as long as its reader
may want more (`MayGoOn`). A token may also be rewritten by anyone who holds it
and no key: its header or tag replaced (`Relabel`), a field given another value
or dropped (`Reword`, `DropField`), under the signature it had. `sealed` and
`made` are history: what was signed, by whom. `WhatVerifiesWasSigned` is about
the signed element, the kind and the payload: they are those that were signed,
and only the signature beside them may be a twin. A CID is of the whole token, so
who revokes or remembers a token by its CID (`RevocationStore`, `ReplayGuard`)
speaks of one of the two forms such a token has; the validator's modules take
each for a token of its own, as the code does.

A comment line starting with "Mutant:" introduces a faulty variant
of the definition after it; no behaviour uses it. It documents which mistake the
property it is paired with (in `PROJECT.json`) would catch.

## The runs

| Run | Module, config | Shows |
|---|---|---|
| decision | `MCDecision`, `MCDecision.cfg` | acceptance means authority, refusals come in order, the steps compute the pipeline |
| decision_table | `MCDecision`, `MCDecisionTable.cfg` | violated: rows 6 and 7 of the documented table are one walk in the code |
| shared | `MCShared`, `MCShared.cfg` | two workers, shared stores, a lagging clock: no double acceptance, revocation irreversible, sweeps harmless |
| borrowed | `MCShared`, `MCBorrowed.cfg` | in-memory stores, two chains with a common delegation: scoping of revocations; validate returns; each call is one step of the gatekeeper |
| replay_pruned | `MCShared`, `MCReplay.cfg` | violated: pruning the guard by `exp` alone lets an invocation in twice |
| revocation | `MCRevocation`, `MCRevocation.cfg` | `check_revocation` accepts exactly those entitled, by a definition over the whole chain |
| intake | `MCIntake`, `MCIntake.cfg` | records are earned; a presented chain is cut in every order; lost authority stays lost after sweeps |
| glob | `MCGlob`, `MCGlob.cfg` | remembering one star is enough; the loop advances and ends; escapes read as documented |
| policy | `MCPolicy`, `MCPolicy.cfg` | nothing in a statement is read past; equal arguments are decided alike; numbers by value; indexes name items and slices are ranges; the first failing segment decides |
| policy_documented | `MCPolicy`, `MCPolicyDocumented.cfg` | violated: a `!=` whose selector fails holds |
| codec | `MCCodec`, `MCCodec.cfg` | one accepted form per value, as bytes and as text; what verifies is what was signed, and says all that was signed; builders, writers and readers agree; selectors, commands and `did:key` text mean one thing |
| json_documented | `MCCodec`, `MCJsonDocumented.cfg` | violated: a link at the greatest depth is emitted as text that is refused |

Bounds, and why they are enough.

* `decision` enumerates every pair of 36 delegations (three issuers or
  audiences, a named, a foreign or no subject, commands `/`, `/x`, `/x/y`),
  chains of three around every middle hop, and every way to spoil one field of a
  good chain at either end; a disagreement between a hop-by-hop check and the
  whole-chain meaning needs at most three hops, since each check looks at one hop
  or two neighbours.
* `shared` has one invocation and one delegation but five times, so that tokens
  lapse, are pruned and would pass again under a clock that lags one tick, at
  both ends of the timestamp range; two workers are enough for any race on one
  `record`. `borrowed` has two chains of two and three hops.
* `revocation` has 3,708 messages over a store with at most one record: chains of
  up to three, for the right of a revoker may be first, in the middle or last;
  every error of `check_revocation` occurs. `intake` has three times, a lag of
  one and six revocations, one for each way to cross another (by the root, an
  issuer, one who put herself above a delegation, a grantee, against the grant).
* `glob` has texts of up to four characters (two stars with text between and
  after) and inputs of up to three.
* `policy` has floats of a significand below eight, so that 9, 11 and 13 lie
  between two floats; statements are nested once, as evaluation is by structure.
* `codec` is six forms in one run, each with its own values, alphabet and length.
  Bytes have 128 values, so that every class of head occurs, with arguments of
  one to three bytes; `MaxDepth` is 4, for an envelope is two levels deep by
  itself, and `IndexMax` 15 instead of 2^63 - 1.
  - Values as bytes: at every boundary of an argument's width, one level deeper
    than `MaxDepth`, maps of keys of different lengths; any altered byte, and
    any input of up to four bytes: every decoding error occurs.
  - Values as text: every escape, signs and widths of integers, reserved maps
    well and ill formed; any text of up to five characters of those the parser
    tells apart.
  - Tokens: ten orders to the builders (each field set or left to its default, an
    empty map, a -0.0, a fragment on the issuer, nesting that text cannot carry)
    under keys of five algorithms, one without a backend and one whose signature
    has a twin that a single altered byte makes, signed as bytes and as text; then any byte altered to a head or to a letter, or one of every
    relabelling, rewording and dropped field. One alteration is enough, as each
    check of a token looks at one field, one header or one position.
  - Commands of up to six characters against a set of others; the `did:key` of
    every key, and ill-formed ones, with a character altered; selectors of up to
    seven characters (a slice or a key, `?` and a segment after it), and longer
    ones, with escapes of four digits, a sign, a surrogate pair and a control
    character, with a character altered.

Fairness. `WF_vars(Step(w))` in `Validate` and `WF_vars(Next)` in `Glob`: once
called, `validate` and `matches` are sequential functions without blocking of
their own, so an enabled step of theirs is eventually taken. The environment
(calls, clock, stores, messages, bytes) has no fairness. Deadlock is not checked:
a Validator nobody calls again may rest for ever, a call that has answered has
no further step.

## What is proved

The constants are restricted only by named assumptions, which say they have the
types their comments give and, for a `Resolver` or a pattern, nothing of their
content; every run evaluates them. For any number of workers, tokens, hops,
messages, patterns and options:

* The validator (`ValidateProofs`). `TypeCorrect`;
  `AcceptanceIsSound` for `AcceptedIsAuthorized`. The property speaks of the
  state at acceptance only, so it is not inductive; `EstablishedInv` strengthens
  it to "every check that the loops have gone past has passed at every position
  they have gone past" (`Passing`), together with `Carried`: each hop's command
  covers every later token down to where the linkage walk stands. `Carried` is
  where the pairwise comparison becomes a statement on the chain, by transitivity
  of `Covers`; carrying it in the invariant replaces an induction over the chain.
  Lemmas on chains then turn the passed checks into `Authorized`; the subject
  of a powerline needs the greatest element of a set of hops, which `Greatest`
  takes from the well-foundedness of `<`. `OnlyPassingRecorded`: the guard changes
  only in a step that accepts an authorized invocation. `RefusalNamesTheFirst`
  for `RefusalIsEarliest`: each row of the table is a check (`FailureShows`), what
  `Passing` says has passed leaves no failure before the place validate is at
  (`PassedSoFar`), and `RefusalsReasoned` keeps that until the call returns.
* Calls over borrowed stores (also `ValidateProofs`), for `~Shared`:
  `LoopsComputeThePipeline` for `AnswerIsComputed` and `ValidateIsAtomic` for
  the refinement `IsAtomic`. The function is twelve checks in a row
  (`ComputedByChecks`); `AtomicInv` adds to `Passing` what the stores answered
  (`Asked`), which stands because nobody may write them while a Validator lives
  (`NothingChanges`). The step in which a call comes to its answer is `Decide`
  (`StepIsDecision`), every other step of it a stutter. The mapping needs
  `AnswerAssumption`: no answer is `None`.
* The stores (also `ValidateProofs`), under `PrunesLate == PruneSkew >= Skew + Lag`:
  `PruningChangesNothing` (what is dropped is `Dead`: no Validator, running or
  still to be made, finds it in its window, and dead is for ever),
  `AcceptanceIsOnce` (an accepted invocation is still in the guard or dead) and
  `RevocationStays` (a recorded revocation is still recorded or its target dead;
  a dead hop never reaches the revocation check, because the window check comes
  first). `Lag` bounds how far any caller's clock reading may lie behind the
  latest one, and how far ahead of a running Validator a sweep may be made. The
  run `replay_pruned` shows that the condition cannot be dropped.
* The pipeline as a function (`IntakeProofs`): `PipelineIsSound`, what it
  passes is authorized and unrevoked;
  `PipelineIsExact`, it turns down nothing else: `Authorized` gives back every
  check of every hop (`AuthorityPassesChecks`), along the tokens that the walk
  goes by (`WalkedTokens`).
* Intake (`IntakeProofs`): `IntakeTypeCorrect`; `RecordsEarned`, by `EarnedInv`,
  which extends the property to what is accepted and not yet recorded;
  `LostAuthorityIsLost`, under the module's `PrunesLate`, by `KeptOrGone`: a
  record that was ever made is still there or its target is past for every
  reading of the clock to come, so that the standing check fails either on the
  record or on time.
* Verdicts (also `IntakeProofs`): `AcceptsExactlyTheEntitled`, for
  `AcceptsTheEntitled`, one equivalence per part of the check (reading, standing,
  line, pipeline; `VerdictIsExact`).
* The order of revocations (also `IntakeProofs`): `OrderSavesNoChain`, for
  `PresentedChainIsCut`, by `CutInv`: every lasting message that was checked waits
  to be recorded or its chain is cut. Its verdict over an empty store depends on
  no time (`LastingVerdict`), so one turned down is turned down over a record
  that reaches its chain; records against it are never swept, as nothing in the
  chain expires. No condition on the sweeps is needed.
* The matcher (`GlobProofs`): `GlobTypeCorrect`; `OneStarIsEnough` for
  `AnswerIsMeaning`, by `GlobInv`: the tokens used up can share out the input used
  up, with the last star taking what lies between, and every way to share out the
  whole input lies at or after where the search stands; `AlwaysAdvances`;
  `TextIsKept` for `TextKeepsItsMeaning`, by the tokens that are compiled from the
  first characters of a pattern.
* The policy language (`PolicyProofs`), for any values, policies and arguments.
  `NumbersCompareByValue` for `OrderIsByValue`: rounding keeps an integer on its
  side of a float, as the spacing of floats divides both (`Spacing`, by
  induction on the number). `SlicesTakeRanges` for `SlicesAreRanges`: a position
  names one item or none (`IndexNames`), two bounds the items between them
  (`BoundsAreBetween`). `FirstFailureSettles` for `FirstFailureDecides`,
  `PolicyIsKept` for `WireFormIsKept` and `EqualArgumentsDecide` for
  `EqualArgumentsAreDecidedAlike` speak of functions that recurse over values and statements. That such a
  function exists is itself shown, level by level of nesting (`SameExists`,
  `JudgeExists`, `ParserExists`, `WriterExists`, `VerdictExists`), and so is what
  it computes: deep equality is an equivalence (`EqualIsEquivalence`), what has
  the form of a statement is read and written back as it was
  (`ParsesWhatHasForm`, `AllAreWrittenBack`), and a statement says the same of
  equal arguments (`StatementsSayAlike`). `EvalInv` ties the policy that was
  loaded and the arguments that were asked about to those facts.
* The codec (`CodecProofs`, on the lemmas of `TextProofs`, `CborProofs` and
  `SelectorProofs`), of `Codec`'s specification. `SentInv` is the inductive
  invariant: what arrives as DAG-CBOR is bytes, and as long as something is said to
  have been sent, they are what it is encoded as; what arrives as a command, a
  DID or a selector is characters.
  `CoverageIsBySegment` for `CoverageIsOnSegments`: the segments of a command are
  found character by character (`SegmentsOf`), and the code's comparison of texts
  is the comparison of those sequences, as no segment holds a slash.
  `VarintsRoundTrip` for `VarintsAreExact`: what is read is what was written, in
  the least number of groups, and nothing else is accepted.
  `ValuesHaveOneForm` for `OneFormPerValue`: a head is accepted in the only width
  it is written in (`ArgumentOk`, `HeadOk`), a list's items lie one after another
  (`ListForm`), a map's keys strictly increase, so that the order in which the
  encoder sorts them is the one they were read in (`KeysInOrder`, `MapForm`), and a
  link's bytes are all of a CID (`LinkForm`). `ItemForm` says that an item is
  written as it was read when what is nested in it is; `LevelsForm` carries that
  from the deepest level that is allowed up to the value. It rests on
  `CborAssumption`: no CID begins another.
* The codec the other way (also `CodecProofs`): `EncodedIsReadBack` for
  `EncodedDecodes`. What an input holds at a place (`Holds`) is followed along
  the parts the encoder joins: a head is read back in the width it was written in
  (`BigEndianBack`, `HeadBack`), parts that were joined lie one after another
  (`JoinedInTurn`), so that the decoder goes from item to item and from entry to
  entry (`ItemsBack`, `EntriesBack`). The keys of a map, inserted in any order, can
  be put in the one order the decoder takes (`KeysInLine`). `ItemBack` says that an
  item is read back when what is nested in it is; `LevelsBack` carries that down
  the levels that are allowed. It rests on `WireAssumption`, that the bytes of a
  CID are bytes and the tag of links is one, and on `CodecAssumption`: what is sent
  is a value the program can hold (`IsValue`), and is written in no more bytes than
  a length can say. TLC evaluates both for what the runs send.
* Tokens (also `CodecProofs`): `NothingIsDropped` for `NothingSignedIsDropped`. A
  field that passes its check is kept: what is held of it is written as the value
  it was read from (`FieldKept`, field by field), `null` being what is written of
  none. What is written are the names that were there (`NamesWritten`), but for the
  empty facts a delegation may have. The checks look into lists and maps, so what is
  read is shown to have a shape (`ItemShape`), and the payload of an
  envelope that opens to be such a map (`EnvelopeOpens`, `TokenRead`). `TokenInv` is the
  inductive invariant: a token arrives as bytes, and of one that is said to have
  been sent the header, the signature and the fields can be put together again,
  with a field dropped or put in another's place (`SignKeeps`, `ResealKeeps`). It
  rests on `TokensFit`: what builders make, and what takes the place of a field,
  are values the program can hold. The hypothesis `NoneIsNothing` says that `None`,
  Rust's, is neither a number nor a function, so that a field that is there is not
  taken for one that is not; TLC's model values are neither, but it has no way of
  evaluating that.
* What was signed (also `CodecProofs`, on the DAG-JSON texts of `TextProofs`):
  `VerifiedWasSigned` for `WhatVerifiesWasSigned`. `SealInv` is the inductive
  invariant: there is no signature, or the only one is over the only token that was
  sealed, and what that token carries and what was signed are what its order, key
  and encoding make. So what verifies covers what was signed, by that signature or
  a twin of it (`VerifiedIsMade`); it is not assumed that a signature has no twin.
  That it then carries the same element takes three steps. Two values are never written
  as one text, and no text goes on where another ends: numbers, strings with their
  escapes, base64, lists, maps in the order of their keys and the two maps that
  stand for links and bytes, level by level (`TextsTellApart`); nor as the same
  bytes (`ElementsTellApart`). A text that is signed is not taken for bytes that
  are, as it begins with a brace (`FormsTellApart`). And what an envelope says that
  opens is everything its bytes say: head, signature, header, tag and payload lie
  one after another up to the end (`EnvelopeOpens`), so that the signed element is
  what was carried (`VerifiedIsCarried`, over the four pairs of encodings). Those
  bytes are read as the payload that the builder was told, field by field
  (`CarriedIsRead`, `PayloadBack`). It rests on `JsonTextAssumption`, that the marks
  of DAG-JSON differ where the writer relies on it, on `EnvelopeAssumption`, that
  the tags of the two kinds differ and come after the key of the header, on
  `TokensAssumption`, that policies are lists, and on `TokensFit`. TLC evaluates
  them all.
* Selectors (also `CodecProofs`, from the lemmas of `SelectorProofs`):
  `SelectorsAreRead` for `SelectorReadsItsGrammar`. The grammar reads a text in
  parts, cut anywhere (`InParts`); at each position at most one part can be the
  next, and it is the one that the parser takes: of the characters of a quoted key
  (`UnitRead`, `UnitReadBack`), then of segments. What the loop of `parse` has read
  after each turn, put before the readings of the rest, are the readings of the
  whole. It rests on `SelectorTextAssumption`: the marks differ and none is in a
  name, and no two escapes are alike. TLC evaluates it.
* Keys and their names (also `CodecProofs`, from the lemmas of `TextProofs`): `KeysAreTheirNames` for
  `KeyAndDidNameEachOther`. Base58 is division by hand, digit by digit.
  `ScaledDigits` says what one digit does: from the digits of a number come those of
  the number times one base and plus the digit. So what is made of the first digits
  are, at every position, the digits of the number they write (`RebasedIs`), and
  those are the digits themselves from the first that is not a zero (`ValueTells`).
  No two numbers have the same digits (`DigitsTell`), and the zeros in front are
  kept as they are; so one base gives back what the other was given
  (`RebasedBack`), and through the alphabet bytes and text do
  (`BytesFromBase58`, `Base58FromBytes`). With the varint of an algorithm's code, no
  two of which are alike, a key is read from its bytes and the bytes written from
  the key (`KeyIsIn`, `KeyHasRaw`); `DidParts` finds them in a text, whatever path,
  query or fragment follows. It rests on `KeyTextAssumption`, that the 58 letters
  differ and that `did:key:` is a scheme and a method, and on `KeysFit`: keys are
  what `PublicKey::new` makes, and their codes fit in a varint. TLC evaluates both.

The prover has no induction scheme that takes a predicate, and none of its
backends reads a recursive operator. The modules recurse by functions, and an
induction is on membership in a set of numbers (`Induction`, `InductionUpTo`) or up
to the end of a recursion (`Iteration`). These few lemmas open `GlobProofs`,
`PolicyProofs` and `TextProofs`, whose modules share no other.

Only model-checked: `ValidateReturns` and `Answers`, as liveness under fairness is
beyond the prover; `EmittedIsReadBack`, which follows the parser of DAG-JSON
through a text, and with it `SignedIsReadBack`, as assembling from the text that
was signed parses it. What is proved of DAG-JSON is what its writer does. Nothing
stands in the way of the prover in these two; they need the round trip of that
parser, as DAG-CBOR and base58 have theirs.

## Where the documentation and the code differ

* `docs/validation.md` numbers principal and command alignment as checks 6 and 7
  and says the checks run in that order; `check_structure` makes both at each
  hop before it goes to the next. Run `decision_table`.
* `docs/validation.md` advises to prune the replay guard by `exp`, and the
  comment on `MemoryReplayGuard::prune_expired` says what it forgets cannot be
  replayed; tokens pass until `exp + skew`. Run `replay_pruned`. The safe rule
  is `PrunesLate`.
* `codec/json.rs` says its decoder accepts exactly what its encoder emits; the
  parser counts the maps that stand for links and bytes as nesting and the
  encoder does not, so a link at the greatest depth is emitted and refused.
  `EmittedIsReadBack` is the rule with that exception, and `SignedIsReadBack`
  shows where it reaches: such a token, prepared as text, cannot be assembled
  from the text that was signed. Run `json_documented`.
* `policy/mod.rs` and `docs/validation.md` say a statement whose selector fails
  is false; a `!=` whose selector fails holds, as the table of operators has it
  (`not ["==", ...]`). Run `policy_documented`.
* `docs/validation.md` gives the characters of a quoted key as those of JSON
  strings, and `policy/selector.rs` calls its `BadEscape` an escape that is not
  JSON. `quoted` takes a plus sign for the first of the four digits of `\u`
  (`u32::from_str_radix` does), refuses surrogate pairs, and lets control
  characters stand unescaped. Run `codec` reads selectors by the documented grammar
  with those three differences, each of which `UnitReadings` names.

## Plan

Done: time, chain, validator and stores; the pipeline, the gatekeeper and the
refinement checked; taking in revocations; globs; the policy language from
values and from selector text; DAG-CBOR, DAG-JSON, varsig, envelopes, tokens and
`did:key`; the proofs above. What would come next: one model from token bytes to
the validator's decision, in place of the tables that stand for decoding there;
the proof of the round trip of DAG-JSON, on which `SignedIsReadBack` rests.

## Not modelled

Signature schemes, resolvers' networks and random numbers (external crates): a
signature verifies when its key made it over that message, or when it is a twin of
one that it made (`Twins`); that no other does is assumed. UTF-8 and
multihashes (external crates): sets of the bytes that are one. Characters beyond
ASCII in commands and selectors, where the code asks Unicode for upper case. The
CID of a whole token and its base58 form, `to_dag_json` and other output for
people, error texts, builders' type states (decided by the compiler), fuzz
targets.
