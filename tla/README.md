# A verification of nisba

nisba is a schema-driven serialization format: a compiler (`nisbac`) turns a
schema into Rust types with encoders and decoders, and a small runtime
(`nisba`) is linked with them. This directory models the parts of both that
carry state or arithmetic in TLA+, checks them with TLC on small instances, and
proves with TLAPS, for schemas, documents and messages of any size, what matters
most about the resolver, the validator, the marking of lifetimes,
what these phases hand to each other, the encoders and decoders of generated
types, the varints and the zero-copy vectors of the runtime.

Everything is sequential: the compiler runs its phases one after the other, the
runtime works on one buffer at a time, nothing is persisted. What is hard here
is not interleaving but recursion over schemas that contain themselves, tables
that are filled in one order and read in another, memory that is taken for
initialised on the word of a different table, and arithmetic at its limits.

## The system

| component | state | operations | correct if |
|---|---|---|---|
| parser (`parser.rs`) | the position in the text | one rule of a parsing expression grammar per production | every document has one tree; numbers too big for a u64 are marked as such |
| resolver (`schema/resolver.rs`) | an arena (`assigned`, `unassigned`), a cache from names and sequences to handles, the members and index counter of the current definition | `resolve_def`, `resolve_type`, `get_or_allocate`, `get_or_define_anon`, `Arena::finish` | no slot is taken for a definition that was not written; the schema means what the document says, in any order of definitions; each error is justified |
| validator (`schema/validator.rs`) | `states`, `bit_width`, `referrers`, `rec_sequences`, and the call stack | `Validator::validate`, `Definition::validate`, `Type::validate`, `status`, `validated` | it ends; no width is read before it is written; widths are those of the wire format; exactly the invalid schemas are refused; `referrers` is exact |
| code generator (`back/rust.rs`) | `has_lifetime` | `calc_lifetime`, `mark_lifetime`; the rest maps definitions to text | generated types declare `'a` if and only if they need it; generated `prepare`, `encode` and `decode` agree |
| runtime encoder (`encode.rs`) | a raw pointer into the buffer | `prepare`, `push_*` | as many bytes are written as `prepare` announced |
| runtime decoder (`decode.rs`) | `Decoder.ptr`, `Slice.ptr/len`, the decoder inside a `Stream` | `next_*`, `Slice::next/get/len`, `Stream::next` | what was encoded comes out; other input is refused as the format says |
| driver (`lib.rs`), command line (`main.rs`) | which phase runs | calls the phases in order, stops at the first error | every text is rejected or comes to the generator; no text makes the resolver or the validator panic, but for the two overflows below. What the generator prints may still fail: a name may make `gen_ident` panic, see below |

The phases interact by handing over data: a document goes to the resolver, its
schema to the validator, the schema with the widths and the referrers to the
generator. Two of these interfaces rest on an unchecked promise: `Arena::finish`
casts a `Vec<MaybeUninit<Definition>>`, and `schema::validate` calls
`assume_init` on all widths. A third, between generated code and runtime, is the
size returned by `prepare`, which `encode` writes up to without bounds checks;
a fourth is the agreement of an encoder and a decoder that are generated by
different functions from the same schema.

The hazards are listed at their lines in `PROJECT.json`.

## The modules

| module | models | code |
|---|---|---|
| `Schema` | definitions, types, handles | `schema.rs` |
| `SchemaRules` | the rules of `specs/wire-format.md` on a finished schema; models no code, it is what `Validator` is measured with | |
| `Validator` | the walk, one frame per active call of `Definition::validate`, one step per member | `validator.rs`, `schema.rs` (`validate`) |
| `Document` | the syntax tree (`ast.rs`), and the rules of `specs/dsl.md` and `specs/wire-format.md` on it, which model no code; the two disagree about length types, where it takes those of `wire-format.md:104` | `ast.rs` |
| `Resolver` | one step per layer of a type, member and definition | `resolver.rs` |
| `Lifetimes` | extends `Validator` with the lifetime marking of the generator, and says where generated types name and declare `'a` | `back/rust.rs` |
| `Parser` | the grammar as data, one definition per rule, a matcher for it, the actions of the rules and number literals; below its last line, how a document is written, which models no code | `parser.rs` |
| `Driver` | composes `Resolver`, `Validator` and `Lifetimes`, each given what the one before it returned | `lib.rs` |
| `Compiler` | composes `Parser` and `Driver` | `lib.rs`, `main.rs` |
| `Encoder` | `prepare` and `encode` of generated types | `back/rust.rs`, `encode.rs` |
| `Codec` | extends `Encoder` with `decode` of generated types and the iteration of a stream | `back/rust.rs`, `decode.rs` |
| `Transfer` | abstract: what goes in comes out, in order, and in the end all of it | |
| `Varint` | size, encoder and decoder of varints; `Delivers` is `Transfer` under a refinement mapping | `encode.rs`, `decode.rs` |
| `Slices` | zero-copy vectors: decode, iterate, index | `decode.rs` |
| `MCValidator`, `MCResolver`, `MCCompiler`, `MCCodec`, `MCVarint` | instances for TLC | |
| `DataTheorems` | lemmas on numbers, functions, sequences, prefix sums and finite sets, which know nothing of nisba | |
| `SchemaTheorems` | lemmas on definitions and their widths | |
| `ValidatorProofs` | theorems about `Validator`: memory, recursion and termination; widths, verdict and referrers | |
| `ResolverProofs` | theorems about `Resolver`: arena, cache and handles; verdict and meaning | |
| `DriverProofs` | theorems about `Lifetimes` and `Driver` | |
| `CodecProofs` | theorems about `Encoder` and `Codec` | |
| `VarintProofs`, `SlicesProofs` | theorems about `Varint` and `Slices` | |

How the state corresponds:

- **Validator.** A variable per field of `Validator`. The recursion is `stack`;
  a frame holds the handle, the member that is looked at next and the
  accumulated width. `EnterRoot`, `EnterMember` and `EnterElement` are the three
  places `Definition::validate` is called from; `TakeMember` and `EndChain` are
  what happens after a type has been looked at, `Leave` is `validated` and the
  return. Each `?` on an error is an action `Reject...` that ends the run.
  `RejectHandle` and `RejectElement` are the panics of indexing with a handle out
  of range. `Handle(i)` is `i + 1`. Signedness is left out: nothing reads it.
  The identity of the handle in `UnusedSequence` is left out.
- **Resolver.** `assigned` and `unassigned` are the two vectors of the arena,
  `cache` has names and sequences as keys. A type of the tree is a list of layers
  around a base. `resovle_seq` resolves its length first and its element after,
  so all lengths are checked from the outside in, then the base, and slots for
  sequences are made from the inside out: `TypeError`, `StartBase`,
  `WrapSequence`. A length or base error ends the run before a slot is made, so
  it is a single step. Spans, and the capacity of vectors, are left out, and so
  is signedness, which is copied along and, in the key of a sequence, makes two
  types different like a width does.
- **Lifetimes.** `calls` are the frames of `mark_lifetime`, `source` is the loop
  of `calc_lifetime`, `kind` is the argument of `generate`. `TypeBorrows` is
  `Type::generate` reduced to whether the text contains `'a`.
- **Parser.** A text is a sequence of symbols; a keyword with its `@`, `void` and
  `//` are one symbol each, other characters are themselves. The grammar is a
  record from rule names to expressions, and `Match` gives them the meaning the
  `peg` crate does: ordered choice, repetition that gives nothing back. It
  returns the one match in a set, or the empty set. `Build` has the actions of
  the rules, `Update` and `ValueOf` the accumulation of digits. Spans are left
  out. Parsing is a function of the text, so it is one step.
- **Driver.** `phase` is the phase that runs or the `Kind` of the error.
  `ParseText` gives `doc` to `Resolve`, `StartValidator` gives the arena to the
  validator and makes its tables, `StartGenerator` chooses what to generate, or
  nothing, as the command does without a language. `Generate` is `generate` up
  to the end of `calc_lifetime`; the text that is printed after that is left
  out, with the panics there. The variables of `Resolver`
  are taken over by `INSTANCE`, those of `Validator` and `Lifetimes` by `EXTENDS`.
  `tree` is what the parser makes of the source: its document in a set, or the
  empty set. Runs begin with a source, or with a schema handed to the validator,
  which is a public function.
- **Compiler.** The source is a text, and `tree` is `Parse(text)`, computed once,
  with the text. The steps are those of `Driver`.
- **Encoder.** A value is a tree: numbers, sequences, for an enum the variant and
  its value, for a dict members that are there or not. A part of a value is what
  one call of `prepare` or `encode` is about: a type, what is encoded, and the
  place, which decides whether lengths are checked. `PartsOf` says which calls a
  call makes, `Levels` collects the parts by their depth. `Prepare...` and
  `Encode...` are named for the kind of the type whose generated function they
  are; each is given what the calls it makes return, as a function of the parts,
  so that `Sizes` and `Bytes` are the two recursions, from the deepest level up.
  `MaxDepth` bounds the depth. `Encodable` says which values there are: those
  that `rustc` lets pass for the types (`WellTyped`), of schemas that the
  validator has accepted (`Validated`).
- **Codec.** `Decode...` is named like `Encode...`; the recursion goes through
  `DecodeType`, as in the generator. A result of `decode` carries the
  position at which the decoder was left, which is what a stream goes on from.
  A vector of elements of fixed size and a stream are decoded into the bytes
  they are views of; `read` has what they are to a reader that reads all views
  to their end, and is what properties compare with. `Decoder(c)[n]` is what
  `decode` returns of any type at any place in any bytes with room for `n` calls
  within one another; with no room it is an overflow of the stack. Undefined
  behaviour is the phase `undefined`. Numbers from `Huge` on are not told apart:
  what matters of one is that it is more than there are bytes. A vector of so
  many elements that is allocated before one is read may panic or abort, or fail
  at one of its elements (`huge`), and a length of 64 bits times the size of an
  element may be more than a `usize` counts (`wrapped`): `Outcomes` says how the
  program goes on. A varint is cast to its type (`Cast`), and one of eleven
  bytes shifts by 70, which panics with overflow checks and is a shift by 6
  without (`Shifted`). `Generates` says which
  schemas are made into Rust code that compiles, and that externs, whose codec
  is written by the user, are not looked at. `patient` tells a reader that goes
  on after an error, as `Debug` does, from one that stops.
- **Varint.** A word is the set of its one bits, so shifts drop bits as the
  processor does. `checks` tells a build that panics on a shift by 64 or
  more from one that shifts modulo 64.
- **Slices.** A byte is its position and an element the position it is read
  from, so an element that is read from behind the vector shows. `MaxUsize` is
  `usize::MAX`.

The operators marked `Mutant` are not used by any specification. They are
plausible mistakes in the code, kept next to the definition they replace; each
property of a passing run is violated by at least one of them (`PROJECT.json`,
`mutants`).

## The runs

| run | bounds | shows |
|---|---|---|
| `validator` | one definition of each kind with up to two members over one companion, in both orders, with widths 0, 4, 8, indices 0, 7, 8, 255, 256 and tags of 1, 2 and 8 bytes; and three definitions with up to two members, any reference among them and one out of range | termination, initialisation, recursion, widths, verdicts, referrers |
| `resolver` | up to three definitions of three names, sequences nested twice; and one definition of up to three members with each width and index number at and around its limits | the arena, the cache, the order of definitions, numbers and their errors |
| `compiler` | schemas of three definitions of any kind and any reference among them, for encoder and decoder; documents of one or two definitions with types nested up to three deep, names of every shape and numbers at the limits, each written in three styles; texts of up to four tokens in three places | parsing, panics of later phases, lifetimes of the generated types, termination |
| `codec` | 23 schemas with every kind of type nested in others up to three deep; values with up to two elements per sequence; vectors of 127 and 128 elements and streams of 120 to 270 bytes in a member, an element and a member of an element; every cut of every message, three trailers; inputs of up to five bytes of a few values, varints of up to 13 bytes, and huge lengths; a build without overflow checks | sizes, lengths, round trips, cuts, normalisation, streams, which failures there are |
| `varint_messages` | each of the six types; one value around each power of two, or three values of different lengths | prepare, encode and decode agree |
| `varint_inputs` | each of the six types; up to 14 bytes, the payload repeating in a run; both builds | what the decoder makes of any bytes |
| `slices` | elements of 1 to 4 bytes, prefixes up to 15 and inputs up to 12 bytes; both builds | acceptance, `len`, `get` and the iterator |

Two members and three definitions are enough for the validator because a step
looks at one frame, one member and the accumulated width: two members exercise
"first" and "rest", and three definitions exercise every shape a path may have
(direct, through another, into a cycle that does not contain its start).
`MaxU64` is 131071 in `MCResolver` and `MCCompiler`: what the code asks of a
number is whether it is one of the widths, at most 65535, or the largest there
is, and these are distinct. `MaxUsize` is 15 in the runs of `Slices`, so that
products overflow and wrap.

The styles of `compiler` have no white space but where two words meet, a newline
everywhere, or a comment everywhere, with numbers in decimal, binary and
hexadecimal, and a number that overflows once with another digit after it. In
`codec`, 127 elements and 120 bytes are within half the range of a one-byte
length, 128 and 135 beyond it; 255 bytes are within the range, 270 beyond it.
Inputs of four values hit an empty
prefix, one that is exceeded by what is left, an unknown tag and a varint that
goes on. `MaxItems` is 8, as many as the longest stream holds, but for those
that never end. `MaxDepth` is 12, and `MessagesAssumption`, which TLC evaluates,
says that no value of the run is nested deeper. `Huge` is 2^22 there, more than
the longest input and any value.

`validator` is a build without overflow checks, in which an enum with a 64-bit
tag goes on past the overflow; `resolver` is one with checks. `codec` is one
without; what panics in the other is in the model, and `FailuresAlwaysNamed` is
proved for both. `varint_inputs` and `slices` run both.

## Where the code departs from its documentation

Five departures have a run that ends in a trace (`findings`):

| run | what the trace shows |
|---|---|
| `validator_wide_tag` | `1u64 << 64`: an enum with a 64-bit tag panics, or without overflow checks is refused for any index but 0 |
| `varint_long` | a 16-bit varint of four bytes is accepted, where three are all it may have |
| `slices_over_read` | the iterator counts bytes and returns elements: it runs on behind the vector |
| `codec_fixed_length` | a vector of varints with a one-byte length is encoded with one and decoded with eight: `next_unsigned` is given bits (`rust.rs:558`) and takes bytes |
| `compiler_extern` | `@extern a` is refused: `_` (`parser.rs:98`) has taken the white space that stands for the missing integer (`:96`) |

The others were met while modelling. They are in the models, and the properties
name them as the exceptions they are, so that everything else is still checked:

| code | what it does | exception in |
|---|---|---|
| `validator.rs:172` | the first variant of an enum is not held to be byte-aligned: `@enum(u8) e { a: u4 }` is accepted | `Validator!VerdictCorrect`: `MembersAligned(schema, 2)` |
| `validator.rs:248`, `:117` | a handle out of range panics; `HandleOutOfRange` is never returned. The resolver makes no such schema | `Validator!VerdictCorrect`, panic |
| `resolver.rs:257` | a member numbered `u64::MAX` overflows the counter for a next member there may be none of | `Resolver!VerdictCorrect`, panic |
| `resolver.rs:415` | a length of any whole number of bytes up to eight is accepted, 24, 40, 48 and 56 bits included, as wire-format.md:104 says; of integers dsl.md:119-122 lists 8, 16, 32 and 64 bits alone | `Document!LengthsFit`, the rule of wire-format.md |
| `resolver.rs:362` | a `varint` of a wrong width is reported as "invalid length type", not "invalid varint" | `Resolver!VerdictCorrect`, the two errors are not told apart |
| `rust.rs:21` | a name that is a keyword is made a raw identifier, which `self`, `Self`, `super` and `crate` cannot be: `@struct a { self: u8 }` panics behind the validator, and so does the name of a type, or of a variant, that is `Self` in camel case | outside the model: `Compiler!Compiles` ends with `calc_lifetime` |
| `decode.rs:85` | a varint of eleven bytes shifts by 70: a panic with overflow checks, and without them a value with the last bits in the place of others | `Codec!FailuresNamed`, panic; `Varint!InputVerdict` |
| `rust.rs:805` | a vector that is decoded element by element is allocated for as many elements as its length says before one is read | `Codec!FailuresNamed`: `EagerVectors` |
| `decode.rs:101` | the zigzag is undone before the cast, so one additional bit of a signed varint, the one after the last, does count | `Varint!ExtraBitsIgnored` |
| `decode.rs:287` | the byte size of a vector wraps without overflow checks, and panics with them | `Slices!Wrapped`; `Codec!FailuresNamed`: `WideViews` |
| `decode.rs:244` | `get` compares an index with a length in bytes, so that for wide elements it is not bounded | `BytesExact` in `Slices!LengthDecoded`: elements of one byte |
| `parser.rs:169` | a name of a type may not begin like a builtin type (`u8x`, `i1st`, `voided`): the rule has a choice where dsl.md:228 has a sequence | `Compiler!WrittenParsed`: `LikeBuiltin` |
| `parser.rs:113` | white space after `@struct` and `@packed` may be missing, `@structa {` is a struct `a`, where the grammar in dsl.md:214 asks for some | in `Compiler!WrittenParsed`: the style without white space goes beyond the grammar |
| `parser.rs:143`, `:209` | tokens need nothing between them: `a: u8b` is the type `u8` and a member `b`, `a = 1b` is 1 and a member `b` | in the texts of `compiler`, held to `NothingLost` |
| `parser.rs:238`, `:181` | an empty comment is refused, and `_` is allowed in a width, where dsl.md:242 and :233 say the opposite | in `Comment` and `PackedDec` |
| `rust.rs:572` | a length is refused from half the range of its type on: 128 to 255 for one byte | `Codec!LengthVerdict` |
| `rust.rs:947`, `:973` | elements are not checked: an element that is too long gets a prefix that is cut down, and a member of an element that is too long is undefined behaviour | `Codec!LengthVerdict`: `OverLimit("within")`; `LengthsFit` |
| `rust.rs:867`, `:1069` | an extern without an integer is named as it is written where it is stored, and in camel case where it is decoded | left out by `Codec!Generates` |
| `decode.rs:123` | a native integer in a stream is decoded into an uninitialised `Result` | `NativeStreams` in `Codec!Regular` |
| `rust.rs:776` | a vector of fixed-sized enums or dicts is read in place, though Rust does not lay them out as the format does | `MemoryRead` in `Codec!Regular` |
| `decode.rs:327` | a stream of elements that take no bytes is decoded as an empty one, and never ends if there are bytes in it | `SizelessViews` in `Codec!Regular`; `ReaderEnds` |
| `decode.rs:331`, `:345` | an element that fails is not passed, so a reader that goes on after an error, as `Debug` does, may never end | `patient` in `Codec!ReaderEnds` |
| `decode.rs:238`, `:262` | elements without a size: `len` divides by zero, the iterator returns none | not in `ElemSizes` of the runs |

## Fairness

Each specification but one has weak fairness of its whole next-state relation,
no more: the program is one thread that runs until it returns. `Terminates`,
`Compiles` and the delivery promised by `Transfer` are checked under it. `Codec`
has weak fairness of `ReadNext` alone: nothing obliges a caller to send a
message or to open a stream, but one that has begun to iterate calls `next`
until it stops, and `ReaderEnds` says that it does. The specifications stop when
the program returns, so the runs do not check for deadlock.

## What is proved

All theorems hold for every value of the constants, under the assumptions that
the modules name: schemas are sequences of definitions
(`Validator!SchemasAssumption`), documents are what the syntax tree can hold
(`DocumentsAssumption`), a build has overflow checks or not
(`OverflowChecksAssumption`), the largest number exceeds the largest index
(`MaxU64Assumption`), messages and inputs of varints are made of words and bytes
(`MessagesAssumption`, `InputsAssumption`), sizes are natural numbers and an
input is no longer than a `usize` can count (`SizesAssumption`,
`LimitsAssumption`), and a value to encode is one of its type, of an accepted
schema and finite depth (`Encoder!MessagesAssumption`, `MaxDepthAssumption`); what
follows a message in an input are bytes, the schemas of messages and inputs
keep the rules and are made into code, and other inputs are bytes that are given
to the decoder of a type of such a schema, with the widths that the validator
gave it (`Codec!TrailersAssumption`, `SchemasAssumption`, `InputsAssumption`);
`MaxItems` is a number (`LimitAssumption`). Elements are assumed to be smaller
than 4 GiB (`MayWrap`), and a `Box` for fewer than `Huge` of them to find memory
(`Outcomes`). TLC evaluates each of them in a run.

Every safety property of the runs `validator`, `resolver`, `varint_messages`,
`varint_inputs` and `slices` is a theorem, of the run `compiler` those that are
not about the parser, and of the run `codec` all but `Normalises`.

### Validator

| theorem | property | says |
|---|---|---|
| `TypeCorrect` | `TypeOK` | the tables have a slot of the right type per definition |
| `RecursionBounded` | `NoReentry` | no definition is entered while it is being validated, except for the one call that finds a sequence inside itself and fails: the depth is at most the number of definitions plus one |
| `InitialisedBeforeUse` | `AssumeInitSound` | no width is read before it is written |
| `AlwaysDescends` | | every step that does not end the run lowers what is left to do in a well-founded order: no schema keeps the validator busy forever |
| `WidthsAlwaysAgree` | `WidthsAgree` | a width is the one the rules give from the widths of what is mentioned |
| `WidthsAreFinal` | `WidthsNeverChange` | a definition that is validated again gets the width it has |
| `VerdictAlwaysCorrect` | `VerdictCorrect` | in both builds, `Ok` for the schemas that keep the rules, each error for those that break its rule |
| `ReferrersAlwaysExact` | `ReferrersExact` | in an accepted schema, the referrers of a definition are those that mention it |

The inductive invariant is `Judged`, of eight parts:

- `Typed`: the types, that a width that is looked at has been written, and that
  the accumulated width of a packed frame is a fixed one.
- `Bounded`: a definition on the stack is marked visited, so that a member never
  enters it; a sequence is entered whatever its state, but sequences in progress
  lie on top of the stack, all flagged in `rec_sequences`, and a flagged one
  fails at its first step.
  `AlwaysDescends` follows: what is left (`Left`) are the definitions not met or
  not come to, then the calls below the chain of sequences on top, then the
  members of the last of these calls, then what is left of the chain, which is
  flagged one by one. With the weak fairness of the specification this is
  `Terminates`, but for the last step, from a measure to a liveness property.
- `Accounted`: the definitions marked visited are those on the stack. When the
  stack is empty, all that are not unvisited have been left by way of
  `validated`, which is why `assume_init` is sound.
- `Recorded`: a width that is written is the one the rules give from the widths
  of what is mentioned, which are all written; what a frame has accumulated is
  what the rules give for the members before its next one, also in the middle
  of a descent; and each frame is mentioned by the one below it.
- `Nested`: widths are written from the bottom up, so the definitions that have
  one do not contain each other, and neither do the sequences that have one
  (`Grounded`). A descent that comes back to a definition in progress has found
  a cycle, which is what `RecursiveType` and `RecursiveStream` say there is.
- `RoundsAgree`: the yardstick of the verdict applies the rules as many times as
  there are definitions; when `n` definitions have their width, `n` rounds give
  it to them.
- `Visited`: the loop over the definitions leaves nothing behind it unvisited,
  and sequences are visited only from something that mentions them, which is why
  one that is left is an `UnusedSequence`.
- `OnChain`: the sequences flagged in `rec_sequences` are those below the top of
  the stack, and only while their chain is being descended.

The yardstick of the widths is a sum over the members, written with a fold.
`DataTheorems` shows that such a fold is what a chain of prefix sums leads to
(`SumsTo`, `FoldedSum`, `SumsAreUnique`), so that a step of the code, which adds
one member, extends the chain by one. `Listed` is the invariant of the
referrers: nobody is one of what he does not mention, and what a frame has passed
has noted it. The deduplication, at the end, keeps the set.

### Resolver

| theorem | property | says |
|---|---|---|
| `ResolverTypeCorrect` | `TypeOK` | types of all variables, the numbers of members included |
| `ReservationAlwaysHeld` | `ReservationHeld` | the `debug_assert` of `Arena::insert` never fails |
| `CacheAlwaysExact` | `CacheExact` | every slot has one key and every key leads to its slot |
| `DefinitionsWrittenOnce` | `WrittenOnce` | no step overwrites a definition or takes a slot away |
| `NothingUninitialised` | `NoUninit` | `Arena::finish` casts no slot that has not been written |
| `SchemaAlwaysSound` | `SchemaSound` | handles in range, no sequence inside itself, none unused |
| `VerdictAlwaysCorrect` | `VerdictCorrect` | `ok` for documents that keep the rules of dsl.md and wire-format.md, for lengths those of the latter; an error that names a broken rule, exactly the missing names |
| `AcceptedInAnyBuild` | | without overflow checks too, what is accepted can only break the rule of the largest number |
| `SchemaAlwaysMeansDocument` | `SchemaMeansDocument` | the schema holds the definition of every name, types resolved, members numbered like in C |

Three inductive invariants build on each other (`AlwaysKept`, `AlwaysReferred`,
`AlwaysRead`):

- `Kept`: the two vectors of the arena and the cache agree slot by slot
  (`ArenaKept`), the walk is inside the document (`WalkTyped`), the open body and
  the open type are what has been read of theirs (`BodyKept`, `TypeKept`), and
  the slot of the open definition is not written (`ReservationHeld`). `Finished`
  adds how the resolver ends. A slot that is not written has the name it was
  made for in `unassigned`; when the names that are left are none, every slot
  has been written.
- `Referred`: handles point into the arena (`ReferencesKept`); what a sequence
  holds was given its slot before the sequence, so that none is inside itself
  alone (`SequencesDescend`); and each sequence is held by a definition that is
  written, by the one that is open or by the type that is open (`SequencesHeld`).
- `Read`: what has been read of the document is in the arena with its meaning,
  and the cache says where (`DefinitionsRead`, `BodyRead`, `OpenTypeRead`), a name
  is read once (`NamesOnce`) and every slot of a name is of one that the document
  mentions or defines (`SlotsNamed`). The meaning of a type is a function from
  its layers to types, given by the cache; as the cache only grows, what it says
  stays said.

`VerdictAlwaysCorrect` and `SchemaAlwaysMeansDocument` are stated of builds with
overflow checks: without them `index_acc` wraps around behind the largest number,
and a document whose numbers do not fit may be accepted. The theorem about any
build says that it is the only thing that may go wrong.

### Lifetimes and the phases

| theorem | property | says |
|---|---|---|
| `AlwaysMarkedOnce` | `MarkedOnce` | `mark_lifetime` never comes to a definition it is still marking |
| `MarksAlwaysSpread` | `MarksSpread` | a referrer of a marked definition is marked, or an active call will come to it |
| `LifetimesAlwaysDeclared` | `LifetimesDeclared` | a generated type declares `'a` if and only if the text of a member names it |
| `ErrorsAlwaysOfUser` | `ErrorsOfUser` | a text never makes the validator panic, but for a tag of 64 bits, nor report what no text can name |

They follow from `Handed` (`AlwaysHanded`), the invariant of the phases: the
tables of the validator and of the generator are new until it is their turn
(`Untouched`), and each phase has found what its own invariant begins with and
leaves what the next one needs (`Resolving`, `Validating`, `Generates`). The
invariants of the resolver are used through an `INSTANCE`. `Marking` is the
invariant of the generator. Its part `MarksReasoned` says that a mark has a
reason: the type is read in place or mentions a marked one; hence no mark is one
too many. `SourcesMarked` and `MarksSpread` say that none is missing. That what has a mark is of variable
width, which the theorems about widths give, keeps marks out of packed types.
The yardstick looks through sequences as many times as there are definitions;
that this is often enough is shown by counting the sequences that have a mark
and no borrowing found yet (`Hidden`): each round leaves fewer of them.

These theorems are about `DriverSpec`, which begins with any document, or none,
in the place of a text. The next-state relation of `Compiler` is that of `Driver`,
and its `tree` is a set of documents: that is what `NothingLost` says to TLC of
the texts of the run. So what holds of `DriverSpec` holds of `CompilerSpec`; this
last step is not proved, because `Parser` is recursive.

### Generated types

| theorem | property | says |
|---|---|---|
| `SizeAlwaysExact` | `SizeExact` | `encode` fills the buffer that `prepare` measured to the last byte, and writes nothing behind it |
| `LengthVerdictHolds` | `LengthVerdict` | a value is refused only for a length in a member over half the range of its type, behaves undefined only for one within an element, and has neither if it is encoded |
| `RoundTripHolds` | `RoundTrip` | of a value of any type of a `Regular` schema whose lengths fit, `decode` returns what was encoded, its views read to their end included, and stops at the last byte, whatever follows |
| `CutDetectedHolds` | `CutDetected` | such a message, cut off at any byte, is an `UnexpectedEnd` |
| `TypeAlwaysOK` | `TypeOK` | whatever the bytes, decoders stay in their input, and readers in the bytes of their stream |
| `FailuresAlwaysNamed` | `FailuresNamed` | of any bytes comes a value or an error of `nisba::Error`, but for undefined behaviour with schemas of three kinds, and panics or wrapped sizes with three kinds of lengths and varints |
| `ItemsAlwaysExact` | `ItemsExact` | `Stream::next` returns the elements that were encoded, in order, and `None` after the last; of any bytes as many elements of a fixed size as there are whole ones, none after an error |

All are about `Spec` of `Codec`, for schemas of any size, values of any depth
`MaxDepth`, any number of elements and any `Huge`. The invariant of the first four
is `Receiving`: `Sending` says that what `prepare` and `encode` have returned is about the value,
and `Exchanged` that the input is what was written with something behind it, or
the beginning of it, and what `decode` has returned is about that input.

`SizeExact` is an induction over the levels of a value, the deepest first
(`LevelsExact`): if a size that has been prepared is the number of bytes for
each part of a part, it is for the part (`PartExact`, with a lemma per kind of
type). It needs that the sums in `prepare`, which stop at the first failure, are
those of the lengths of what `encode` appends (`PartsAddUp`), that the two ways
to count the bytes of a varint agree (`VarintLenExact`), and that what has a
fixed width by the rules of the validator is as long (`PackedExact`,
`VectorExact`), which rests on the widths being the ones the rules give: what
`WidthsAlwaysAgree` shows of the validator is assumed here, as `Validated`.

`LengthVerdict` has two halves. That a failure has a length to blame goes up the
levels (`LevelsJustified`): a refusal becomes undefined behaviour in an element,
because there it is unwrapped unchecked. That a success has none to blame goes
down (`LevelsAccepted`): if the whole has a size, each part of it has.

`RoundTrip` and `CutDetected` are one statement, `Recovers`: of bytes that agree
with what was written of a part as far as they go, the decoder returns the part
and stands at its end if they go far enough, and is at the end of its input if
not. The induction is over the same levels (`LevelsInverse`): the decoder with
room for `n` calls is the inverse of the encoder on what is `n` levels from the
bottom, if the one with less room is on the parts (`PartDecodes`, with a lemma
per kind of type: `StructDecodes`, `EnumDecodes`, `SliceDecodes`,
`StreamDecodes` and so on). It needs that bytes and groups of seven bits are
digits of the number they were made from (`NumberReturned`, `VarintReturned`),
that a varint ends at the one byte whose high bit is not set, that the bits of a
dict's bitmap and of a variant's tag tell its members apart, which the
validator's rules on indices give, and that reads in a row find what was written
in a row (`PartsAgree`, `InOrderRecovers`). A stream of which all is read needs
more: that an element takes a byte at least, because the end of the input is the
only end it has. What is empty is of a type that takes nothing (`PartSizeless`),
and `Regular` excludes these.

`TypeOK` has an invariant of its own, `Keeping`, because it is about inputs that
nobody has encoded: besides `Receiving`, that the schema is a validated one without
externs (`SchemaKnown`), that the view of a stream is bytes, which is what a
reader is opened with (`ReceiverTyped`), and that a reader stands inside them
(`ReaderTyped`). That a decoder leaves its position in the input (`Stays`) is
shown for each kind of read (`NumberStays`, `EagerStays` and so on) and then by
induction over the calls there is room for (`AllCallsStay`). `FailuresNamed` goes
the same way: each kind of read is either undefined for a schema that is named,
or panics at a byte behind the tenth, or is asked for a product that wraps
(`Explained`), and what a decoder returns was returned by one of its reads
(`OutcomeNamed`).

`ItemsExact` needs what has been read so far, `Taking`. In it, of a stream that was
encoded, the bytes are those of its elements (`StreamOpened`: what a struct has
in its member is what the encoder wrote there, wherever it lies in the input), and
the place of the reader is the sum of the lengths of the elements it has
returned (`ReadSoFar`), so that the next is the one that was written there
(`ElementTaken`), and the end of the bytes is the end of the elements, since none
is empty (`AllTaken`). Of bytes of any origin, elements of a fixed size take all
of their bytes or none (`FixedElement`), so that the place counts them
(`FixedRead`).

### Runtime

| theorem | property | says |
|---|---|---|
| `NeverOverrun` | `PrepareExact` | what the encoder writes stays inside the buffer that `prepare` measured, and fills it |
| `CodecTransfers` | | every step of encoder and decoder is one of `Transfer` or none: members come out as they went in, in order |
| `AlwaysDelivered` | | no message is refused, and who has finished has all of it |
| `MessagesTyped`, `InputsTyped` | `TypeOK` | positions inside the buffer, values inside the widths of their types |
| `VerdictOnInput` | `InputVerdict` | of any bytes, what is no longer than required is accepted, and the decoder reads at most one byte more than is required |
| `ExtraBitsNeverCount` | `ExtraBitsIgnored` | only the bits of the type count, and one more if it is signed |
| `AlwaysAcceptedWhole` | `AcceptedWhole` | a vector is accepted if and only if its elements are in the input, unless the product has wrapped |
| `LengthAlwaysDecoded` | `LengthDecoded` | a slice has the length of its prefix, `get` finds what is left, and for elements of one byte there is no element but these |
| `NoneEverMissing` | `NoneMissing` | the iterator returns every element, in order, before it ends |

The invariant of a message is `MessageTransferred`. There is a chain of prefix
sums over the lengths of the members, which says where each begins; byte `g` of
member `k` is at `f[k - 1] + g + 1` (`Laid`), the encoder has written so far
(`Writing`) and the decoder read so far (`Reading`). A member that has been read
is the one that was sent because the groups of seven bits are a partition of its
bits (`CodedBack`) and the zigzag is undone (`ZigZagUndone`). The invariant of
other input is `InputRead`: what has been read, and when the decoder gives up.
`CodecTransfers` is the safety of the refinement that the run checks as
`Delivers`, by the same mapping.

`SlicesInvariant` says that the iterator has taken the size of an element from
its place, and one byte from the length, for each item. `LengthAlwaysDecoded` and
`NoneEverMissing` are stated of elements that take bytes (`ElementsTakeBytes`);
those that take none are among the departures above.

### Model-checked only

- Liveness under fairness: `Terminates`, `Compiles`, `ReaderEnds`, and that
  `Transfer` delivers in the end.
- Of `Codec` the property `Normalises`. Numbers from `Huge` on are one to the
  model, because TLC's integers have 32 bits, and that one is no value of a type
  (`Holds`), so that what the theorems say of values does not say it of what is
  decoded from any bytes. It would need besides, of every decoder, that encoding
  what it returns takes no more bytes than it has read, by an induction of its
  own.
- Of `Compiler` the properties about texts, `WrittenParsed` and `NothingLost`:
  `Parser` is recursive, over grammars, and the provers do not go with recursive
  operators.

Where a theorem needs induction over data, it is stated of a set of numbers
(`DataTheorems!SetInduction`), because the provers cannot instantiate the
library's theorems that take an operator.
The parts of the inductive invariants were checked by TLC on the instances of the
runs before they were proved, except `Keeping`, of which TLC checks `TypeOK`, and
those with quantifiers over functions or sets that TLC cannot enumerate, such as
`RoundsAgree`, `MessageTransferred` and `Taking`.

## The plan

What is left, in this order:

1. An abstract validator, which gives a verdict per schema, and an abstract
   marking, the least set that holds the sources and is closed under referrers,
   implemented by `Validator` and `Lifetimes`: the theorems above are the facts
   that a step of theirs maps to a step or to none.
2. For bytes of any origin, numbers that are told apart from `Huge` on, with which
   `Normalises` would follow from `RoundTrip` and a bound on what is encoded again.
3. A matcher without recursive operators, so that what it makes of texts can be
   proved about and `CompilerSpec` is a proved instance of `DriverSpec`.
4. Measures like that of `AlwaysDescends` for the resolver and the marking.

## What is not modelled

- The text of generated code: names, renaming, formatting, and the panic of
  `gen_ident` for the names that no identifier can have. That two names become
  one when they are renamed to camel case is not covered, nor is the `unwrap` of
  `syn::parse2`, which reads what was printed (`lib.rs:67`, `main.rs:81`).
- The files and arguments of the command line, and the positions in its messages.
- Externs in the codec: their `Encode` and `Decode` are written by the user.
- Which of the values from `Huge` on a decoder of the codec returns; `Varint` has
  integers of every size. What a view of a wrapped size is read as, of which
  `Slices` is.
- Vectors of structs without bytes, which are decoded one by one from no input
  for as long as their length says.
- Machines where `usize` is not 64 bits wide, and big-endian machines.
- Examples and benchmarks, which use generated code.

## How to run

    tlc -workers 2 -config validator.cfg MCValidator
    tlapm ValidatorProofs.tla

Every run is listed in `PROJECT.json` with its module and configuration. The
modules with proofs are the eight listed last in the table of modules; each is
given to `tlapm` by itself, and takes up to some minutes.
