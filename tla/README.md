# Verification of nanoprintf

TLA+ models of `nanoprintf.h`, TLC runs that check them on small instances, and
TLAPS proofs about them. Line numbers refer to `nanoprintf.h` (2366 lines, the
whole implementation) unless another file is named.

## The system

nanoprintf is a single header with no global mutable state, no allocation and no
I/O. One call runs to completion on the caller's thread; the only code it does
not contain is the `putc` callback it hands characters to. What is hard about it
is not concurrency but *configuration* (twelve option macros and the widths of
nine C types choose between dozens of code paths, and a test binary covers one
choice), *bookkeeping across code paths* (lengths are announced before the
characters are emitted), *reuse* (one parsed-specification struct for a whole
call), and *limits* (a conversion buffer with no spare cell, an `int` count,
arithmetic at a cap).

| component | state | operations | talks to |
|---|---|---|---|
| configuration (107-292) | none: macros | option checks, caps, buffer size, limits of the platform | everything |
| format walk and parser (600-789, 1693-1701) | the cursor; `fs`, one `npf_format_spec_t` per call | read a character, fill a member of `fs`, fail | hands `fs` to the engine, text to `putc` |
| numbers of a format (`npf_fmt_num`, 580-598) | an `int` accumulator | a digit, the end | called twice by the parser |
| conversion engine (`npf_vpprintf`, 1692-2064) | `fs`, the `va_list`, `npf_n`, the conversion's locals and `cbuf` | resolve stars, take the argument, convert, lay out, emit, tally | `putc` for each character |
| integer digits (791-846, 1601-1638) | digits in `cbuf` | one digit at a time, by division, by shifts, or by shift-and-subtract | called by the engine and the float code |
| float digits (848-1599): `npf_ftoa_rev` (`%f` of builds without `%e` and `%g`), `npf_etoa_rev` (`%e`, `%g`, and `%f` with them), `npf_atoa_rev` (`%a`) | digits in `cbuf`, a mantissa, a carry, a binary and a decimal exponent | take apart, scale, emit a digit, round, lay out | called by the engine; the integer emitter |
| buffer sink and snprintf (565-568, 1640-1644, 2080-2097) | cursor and room; the caller's buffer | put a character, terminate | is the engine's `putc` |
| variadic wrappers (2099-2119, 2132-2312) | none | `va_start`, call, `va_end` | call the engine |

What makes each correct:

- *parser*: what it accepts is a specification of the documented grammar and the
  struct means what the text says, whatever the struct held before; what it
  rejects is printed verbatim, once; it stops at the NUL.
- *numbers*: exact or pinned to the ceiling, and never negative.
- *engine*: the characters emitted for a specification are the field C11
  7.21.6.1 defines; the returned count is their number; `%n` stores the count so
  far; every `va_arg` names the type the caller passed; `cbuf`, strings and
  `int` stay within bounds; the call returns.
- *sink and snprintf*: the buffer holds a terminated prefix of the output,
  nothing outside it changes, whatever its size and the count.
- *integer digits*: the numeral of the value.
- *float digits*: exact and rounded to even wherever the intermediate integer holds
  the number (README 164, 239); scaling loses only low bits; every digit is one; the two
  `%f` agree; the buffer, which is both source and target of the layout, is neither left
  nor read after it is overwritten; the call ends.

`PROJECT.json` lists the hazards behind these, each at its line with the
properties that would show it going wrong.

## Modules

| module | stands for | built on |
|---|---|---|
| `NpfFormat` | `npf_format_spec_t` and its enums (394-417, 450-549) | |
| `NpfFmtNum` | `npf_fmt_num` and the ceiling (256-282, 580-598, 1714, 1721) | |
| `NpfParse` | the fetch loop and `npf_parse_format_spec_end` (600-782, 1693-1701), a step per character | `NpfFormat` |
| `NpfGrammar` | the reference: the grammar of specifications over whole texts, and the properties of the walk | `NpfParse` |
| `NpfVpprintf` | the engine (1652-2064) | `NpfFormat` |
| `NpfC11` | the reference: the field C11 defines for a specification, and the properties of a call | `NpfVpprintf` |
| `NpfUtoa` | `npf_utoa_rev_end` and `npf_div10` in every build (791-846), a bit or a digit per step | |
| `NpfNumeral` | the abstract promise of `npf_utoa_rev_end`: the digits of a number, by division alone | |
| `NpfVsnprintf` | `npf_bufputc` and `npf_vsnprintf`, composed with the engine | `NpfVpprintf` |
| `NpfContract` | the abstract promise of `npf_vsnprintf` to its caller | |
| `NpfReal` | what the decimal converters share: the real taken apart, the steps from base 2 to base 10, the buffer (852-896, 963-1098 and 1240-1363) | |
| `NpfFtoa` | `npf_ftoa_rev` (962-1147) | `NpfReal` |
| `NpfEtoa` | `npf_etoa_rev` (1149-1515) | `NpfReal` |
| `NpfAtoa` | `npf_atoa_rev` (1519-1595) | `NpfReal` |
| `NpfFloats` | the converters under one call; a `%f` goes through both, one after the other | `NpfFtoa`, `NpfEtoa`, `NpfAtoa` |
| `NpfCFloat` | the reference: the exact decimal of a binary number, rounded once, and the texts C11 makes of it; the properties of the converters | `NpfFloats` |
| `MCParse`, `MCVpprintf`, `MCUtoa`, `MCVsnprintf`, `MCFloats` | small instances | |
| `NpfFmtNum_proofs`, `NpfParse_proofs`, `NpfVpprintf_proofs`, `NpfC11_proofs`, `NpfVsnprintf_proofs`, `NpfUtoa_proofs`, `NpfFloats_proofs` | theorems | |
| `NpfInduction` | no code: induction over the numbers, recursive definitions and division, in the form the provers can use | |

### State and actions

`NpfVpprintf`. `pc` names a place in the loop body (`fetch`, `width`, `prec`,
`default`, `convert`, ... `padr`, `tally`); the other variables are the
function's own locals under their own names. `args` is what is left in the
`va_list`, each argument with the type it was passed as. `out`, `items`, `job` and
`wb` are history: the characters `putc` received, the number of items fetched,
the current specification with its arguments as the *format* gives them, and the
last `%n` store. An action is a step of the loop body, and each call of `putc` is
a step of its own, so that the sink can be composed with it character by
character. `fs.field_width` and `fs.prec` start as garbage, since `fs` is never
initialised (1693); a star specification leaves `field_width` as it was. The
preprocessor's options are constants, and the conditions on them are in the
guards and the expressions where the `#if`s are. Every C integer type is given by
its largest signed value, so a small instance keeps the order and the
coincidences of `limits.h` (`LONG_MAX == INT_MAX`, `SIZE_MAX == ULONG_MAX`...).

`NpfParse`. The format is fixed one character at a time, when the walk first
reads it; `Reads(c)` is the read `*cur`. A format is therefore any string over
`Fresh` of up to `MaxLen` characters, and a read behind the NUL would be visible as
a character the environment has to invent. `Fail` is the null return: the cursor
goes back to the character behind the `%`. `items` is history: what the walk
handed on.

`NpfUtoa`. `pc` says which loop runs: the test of the shift-and-subtract loop, its
bits, or the digits of a word. The locals keep their names; `q` of 809 and `q` of 826
are different variables, and the second needs none. `Builds` crosses the two `#if`s
with the width of `npf_uint_t`; in the build that compiles neither the loop nor the
shifts, `v32` is as wide as `npf_uint_t`, whatever its name says. Powers of two are a constant
function, so that the proofs need not compute them; the arithmetic of `npf_div10` is
reduced modulo the word at each sum. A digit is its value here and a character in
`NpfVpprintf`.

`NpfVsnprintf` adds the caller's memory. `Format` is a step of the engine, with
`BufPutc` in it when the step puts a character; `Terminate` writes the NUL.

The float modules. `cfg` is a build: the widths of the mantissa, of the word that holds
the real and of the intermediate integer, the size of the buffer, and two `#if`s. `man` is
`man_i` and then `man_f`, `left` is `exp_i` and then `exp_f`; the other locals keep their
names. Both converters take the real apart and scale it by the same lines, written twice in
the source; the steps are written once, in `NpfReal`, and each module has the guards and the
bookkeeping of its own loops. An action is a turn of a loop or the code between two loops.
The buffer is a function on the cells stored so far, and stores happen one after the other
where reads depend on it (`Stored`, `Raised`), so that an early overwrite changes the digits
and a store outside the array shows in the domain. `fused` keeps what the first `%f` made
of the number while the second works; `run` is history, the digits a layout started from.

`NpfVpprintf` does not parse: it takes an item of the format - a character, or a
specification that parsed - from the sets `Literals` and `Specs`, and
`FormatAssumption` says which specifications may be in `Specs`. `NpfParse` hands
on items. The two meet in `HandsOnParsable`, which is checked and proved of the
walk and restates what the engine assumes of each of its inputs.

### What is abstracted

- In the engine the digits of a float conversion are any text from `FloatTexts`, of at
  most `CBUF` characters, flagged as a number or as a special (`inf`, `nan`, `err`); the
  float modules say which (`WithinBuf`).
- In the float modules the integer part is printed in one step (`Numeral`), which
  `NpfUtoa` takes apart; `npf_div10` is exact, as proved there; the sign is the engine's;
  the casts to `npf_ftoa_exp_t` and `npf_ftoa_dec_t` are to types wide enough by 862-885.
- `ReadType` is the build whose `long double` is wider than its `double` (1785-1791): `L`
  decides which of the two `va_arg` takes. The build where they are the same type
  (1781-1784), and the single-precision one, which takes `npf_float_t` whatever the `L`
  (1779-1780), are left out of the engine; the float modules have both widths of real.
- In the engine `npf_utoa_rev` divides exactly, a digit per step (`UtoaDigit`): the
  steps of `NpfNumeral`, which `NpfUtoa` implements in every build.
- A character of an argument is one of two classes, NUL and not NUL; strings are
  entries of `Heap`.
- `npf_format_spec_t` members a build lacks keep the value that stands for absence.
- A value passed for a pointer is a number; `%n` targets are not stored through,
  `wb` records what would be stored and at which width.
- An overflow of `npf_n`, undefined in C, wraps, which is what builds do.

### A naming rule

In modules that proofs reach, string literals are made of letters only, or are a
single digit or punctuation character, and the NUL and the space are written
`"NUL"` and `"space"`: the prover translates a literal to an identifier, and two
literals that differ in punctuation only could be taken for one another.

## Runs

| run | checks | instance |
|---|---|---|
| `EngineOne` | `ConformsToC11`, `CountExact`, `VaListInStep`, `StringReadInBounds`, `CbufInBounds`, `LengthsFitInt` | one item per format, every combination of flags, four widths, five precisions, the signs, `#`, every length modifier and conversion; every option on; LLP64 |
| `EngineSeq` | `CountExact`, `WritebackExact`, `VaListInStep`, `ConformsToC11`, `Terminates` | three items in a row out of eight specifications and a literal; LP64 |
| `EngineWide` | `NeverNegative` (violated) | four fields at the cap |
| `Vsnprintf` | `BufferIsPrefix`, `OutsideUntouched`, `AlwaysTerminated`, `KeepsContract`, `ConformsToC11`, `CountExact` | no precisions, no large modifiers; AVR (`long` wider than `int` and than a pointer). Up to four of three specifications of up to eight characters, and literals, into buffers of 0, 1, 2, 7, 9, 30, 33 and 35 cells and NULL, both termination modes; and every combination of flags, widths, signs, `#`, modifiers and conversions alone, in a call that counts |
| `FmtNum32` | `PinnedOrExact`, `NeverWraps` | runs of up to seven digits, 16-bit accumulator |
| `FmtNum16` | `PinnedOrExact` (violated) | the constants of a 16-bit `int` |
| `ParseAll` | `ParsesGrammar`, `Tiles`, `NeverPastNul`, `HandsOnParsable`, `WalksToEnd` | formats of up to six characters, four configurations |
| `Utoa` | `ReadsBack`, `FitsCbuf`, `KeepsNumeral` | every number of 13 bits over a word of 8, three bases, four builds |
| `Floats` | `ExactWhenItFits`, `PathsAgreeOnDecimals`, `ScalingNeverWraps`, `DigitsDecimal`, `NearestUnit`, `WithinBuf`, `ErrOnlyWhenFull`, `TextDenotesDigits`, `HexNearest`, `Descends`, `TypeOK` | `%f`, `%e`, `%g` and `%a` with up to six precisions, with and without `#`; all exponents of six float formats |
| `FloatPaths` | `PathsAgree` (violated) | `%f` of a mantissa that the intermediate cuts |
| `FloatNearest` | `NearestPrinted` (violated) | `%f` and `%e` with up to one decimal; a mantissa the intermediate cuts, of two-digit integers and a fraction of all ones; integers that fill the buffer |
| `FloatTies` | `TiesToEven` (violated) | `%e` of integers longer than the mantissa |

What they show: on these instances the engine prints what C11 defines, in all
the configurations tried, and the bookkeeping is exact; the float converters print the
exactly rounded decimal wherever the intermediate holds the number, and lose only low bits
elsewhere. Five statements of the documentation and the tests do not hold of the code:

- `FmtNum16`: where `int` has 16 bits, the accumulator of a width stops at 2048,
  below the ceiling of 8192, so `%22000d` has width 2200 and not 8192
  (`tests/avr_int16.c` 6-8, 585-587).
- `EngineWide`: enough fields within the cap wrap `npf_n`, and the call returns a
  negative value (72-74, 2088). `CountExact` is stated for the output `int` can
  count; `AlwaysTerminated` and `OutsideUntouched` hold in the wrapped case too.
- `FloatPaths`: "everywhere both produce a number they must produce the same one"
  (`tests/unit_f_paths.cc` 11-12). At precision 0 the shared generator runs its scaling
  loop, which halves the fraction and can make a tie of a value just above one, and the
  fused one does not: `%.0f` of 0.5 + 2^-33 is `1` in a build with `%f` alone and `0` in one
  with `%e`. As soon as a decimal is asked for they agree (`PathsAgreeOnDecimals`).
- `FloatNearest`: README 155-164 says how many digits a narrow intermediate keeps, six near
  exponent 0 with 32 bits, and that all conversions agree on them. A pending carry added to
  a mantissa of all ones wraps it (1364, unguarded where 1102 is guarded) when the scaling
  loop never ran; no fraction is generated then, and a value above a tie is rounded as the
  tie: `%.0e` of 26 - 2^-48 is `2e+01`, and `%.0f` of it `26`. `ScalingNeverWraps` says that
  it happens nowhere else. The instance holds a second case, behind the first: an integer
  of exactly `NPF_CBUF` digits, printed without decimals and without a point, has its units
  overwritten by the store of the point (1476). It takes a 128-bit intermediate (875 allows
  a type of any size): with that and the buffer of 23, `%.0f` of 12345678901234567890123.0
  ends in `.`. `UnitsOverwritten` names the case where other properties leave it out.
- `FloatTies`: README 164 and 345 say ties go to even. Integers of more bits than the
  mantissa are given no tie (1238), even where the intermediate still holds them whole:
  `%.0e` of `4.5e8f` is `5e+08` in a single-precision build and `4e+08` in a double one.

One more departure has no run, because the documents disagree with each other: `%a` rounds
an exact half up (1568), as `tests/conformance.c` 1889-1891 expects, while README 343-345
counts `%a` among the conversions that round ties to even. `%.1a` of 0x1.08p+0 is `0x1.1p+0`.
`HexNearest` leaves exact halves open: it asks for a number none is nearer than.

The reference definitions follow the documented choices of the library where C
leaves the result undefined: `0` with `%s`, `%c` and `%%` pads with zeros; `%b`
keeps `0` under a precision (1748-1749); `%.-3d` has no precision.

### Bounds, and why they are enough

- *Scaled types* (`Model` in `MCVpprintf`). `int` has 6 bits and the cap is 8: the
  ratio of 8192 to a 16-bit `int`, and `2 * cap + CBUF` fits in `int` with little to
  spare, as the assumption of 256-264 demands. `intmax_t` has 9 bits and `CBUF` 4
  cells, exactly the octal digits of the widest value and a `0`, as 23 cells are for
  64 bits. The four data models differ in which of `int`, `long`, `size_t` and the
  pointer coincide.
- `Bounded` (in `MCVsnprintf`): formats of several items are made of the few `BufSpecs`, each
  other specification stands alone in a call with no buffer. What a specification does in
  sequence is `EngineSeq`'s matter, and the sink sees characters only.
- `MaxItems` 1, 3 or 4: one item covers what a specification does alone; two are
  enough for one to inherit from another through `fs`, `npf_n` or `args`, three for
  `%n` between two; four fields wrap the count.
- Widths 0, 4, 12 and star: none, one that some bodies reach and others do not,
  one above the cap. Star values reach both ends of `int`.
- `Cells` 36: one past the largest buffer, which is one more than the longest
  count `int` can hold.
- `MaxDigits` 7 with the stop three digits in: several digits after it. In
  `FmtNum32` everything but the ceiling is the 32-bit constant divided by 2^15, and
  the stop is above the ceiling, as there.
- `MaxLen` 6 reaches a flag, both stars and a conversion (`%-*.*d`), the longest
  modifier (`%wf16d`), and two short specifications one after the other. `Fresh`
  gives each place the characters it has a branch for; a character read again
  after a failed parse is whatever was read first, so text is re-read by every
  place. `FmtNumBig` is scaled to 30, so that numbers of two digits reach it: what the engine
  makes of one above it is `NpfFmtNum`'s matter, and here any number above it is as good
  as another (`Stored`).
- `WordBits` 8 and 13-bit numbers: both are what 32 and 64 are modulo 3, so the octal
  digits, the word and the number end at different bits in the same way; a decimal
  number takes up to two rounds of the loop before it fits the word. The shifts by 8
  and 16 of `npf_div10` add nothing to words this short: they are covered by the proof.
- *Scaled reals* (`MCFloats`). Every branch of the converters is chosen by how the widths
  compare, so there is a build for each order: mantissa narrower than the intermediate
  (a `float` over 32 bits) and wider (a `double` over 32), word as wide as the
  intermediate and narrower (over 64); the integer emitted in place or by
  `npf_utoa_rev`, with its reserve of 10 cells scaled to the 3 digits of 8 bits; and a
  buffer shorter than the longest integer, or equal to it. 8 bits is the narrowest
  intermediate the README names and is not scaled. All fractions of the narrow mantissas
  are tried, of the wide ones those near a power of two, a tie or a run of nines, and all
  exponents, subnormals and specials included. Precisions reach past both ends of the
  buffer. `Fractions` and `Formats` are the bounds.
- `Garbage`: one negative value and, for the engine, one above the cap.

### Fairness

`Terminates` and `WalksToEnd` assume weak fairness of `Next`: the code is
sequential and waits for nothing, and the callback is assumed to return. The
runs check deadlock; a finished call stutters in `Done`. The float converters need no
fairness to be said to end: `Descends` is an action property, that each step leads to a later
place or leaves less for the loop it is in, but for the one time `%g` starts over.

## Proofs

`tlapm` checks every proof, for all values of the constants that satisfy the
named assumptions.

- `NpfFmtNum_proofs`. `NoWrap`: the accumulator stays in `int`, from
  `StopAssumption` (10n+9 fits below the stop). `Pinned`: exact or pinned, provided
  the stop is above the ceiling; the invariant says that accumulator and number
  agree as far as the ceiling can tell. The hypothesis is what a 16-bit `int` lacks.
- `NpfVpprintf_proofs`. `CountExact` and `VaListInStep` are not inductive: they
  speak of the loop's head. `IInv` adds the types (`TypeCorrect`), what `args` holds
  at each place relative to the specification's stars (`ArgsInv`), the range of the
  locals at each place (`ShapeInv`), and the ledger (`CountInv`): the characters out
  since the last tally, plus those still to come, are `spec_len`, where what is still
  to come is computed from the place and the counters of the emission loops.
  `Counted` and `InStep` follow. The assumptions are `ConfigAssumption`,
  `TypesAssumption`, `FormatAssumption`, `DataAssumption`, `ArgsAssumption` and
  `CapAssumption`; `FormatAssumption` is what the walk establishes.
- `NpfParse_proofs`. `ReadsInBounds`, `NothingLost` and `Discharged` follow from
  `WalkInv`: types; `CursorInv`, which says that only the last character read can be
  the NUL, that the cursor is at most one behind it, and that the steps which
  advance after a comparison compare with something other than the NUL; `FsInv`,
  which says what `fs` may hold at each place of the parser, the members it inherits
  from an earlier specification included. Each step is first shown to have one of
  six shapes as far as cursor and items go (`Shapes`), and cursor and tiling are
  argued on the shapes.

  `GrammarKept`, that what is handed on is read as the grammar reads whole texts, needs more
  (`GrammarInv`): `PlaceInv` says at each place of the parser which parts of a specification
  lie between its '%' and the cursor, what each part tells and that `fs` holds it
  (`AtFlags`, `AtDot`, `AtMod` and the places between them); `ItemsInv` says of each item
  already handed on that it is told by its text (`Told`), or is a character other than '%',
  or a '%' that begins no specification of the grammar (`Dead`), whatever
  follows. The second half is what takes the work: a parse that fails has seen a part of the
  text only, and `DeadNone` shows that no way to take the text apart gets past that part. It
  rests on `Forced` and `OneMeaning`: two ways to take a text apart agree on every part, since
  no part can begin with a character that could have continued the one before it, but for the
  modifiers, which are told apart by their lengths. A number is the value of its run of
  digits, by `Iteration` of `NpfInduction`. Besides the assumptions on the configuration it
  rests on `StdintAssumption`, which is what 205-219 and 424-434 take `<stdint.h>` to say: the
  standard types are ordered by width, each `intN_t` and `int_fastN_t` is one of them, and
  short of 64 bits `long` holds the widest.

- `NpfUtoa_proofs`. `Div10Exact`: the shifts of 794-798 lose at most 15 of `n`, which the
  one correction of 799 makes good, and no sum wraps; the bound on the word is needed,
  as the series falls short of a tenth by one part in 2^32. The invariant of the
  shift-and-subtract loop is that `q` and `r` are quotient and remainder of the bits seen,
  `q` shifted to its place (`DivisionInv`), and that each digit has used up three bits
  (`RoomInv`). `RoomForDigits` follows, and `WritesNumeral`, the refinement of
  `NpfNumeral`: a round of the loop and a step of the word loop are each a division by
  the base, and the tests and bits between them change nothing a caller sees. The
  assumptions are `BuildsAssumption` and `PowersAssumption`: the loop may be left out of
  a division-free build only where a word holds the number, which is what 805-806 test.
  `DigitsReadBack` says that the digits denote the number: `ReadInv` holds a table of
  what is left before each digit, `h[0]` the number and `h[k]` the base times `h[k + 1]`
  plus digit `k`. A step appends an entry, and at the end, where nothing is left, the table
  read downwards is the value of every suffix of the digits. The table is what makes the
  sum provable, which is taken from the other end than the one the code appends to.

- `NpfVsnprintf_proofs`, on top of the engine's invariant. The properties say little of the
  sink between two calls, so `SinkInv` adds that cursor and room are what the characters so
  far make them, that the cells behind the cursor are still as the caller left them, and
  that the count is at least INT_MIN: with that, the index of the terminator is in the
  buffer whether or not the count has wrapped (`Ended`, `OutsideSafe`). `ContractKept` maps
  a step that puts a character to `Produce`, the terminator to `Answer` and every other
  step to a stutter; it needs the ledger of `IInv`, as the answer must be the length of
  the text. Besides the engine's assumptions it rests on `CallAssumption`.
- `NpfInduction`. The library's induction theorems take a predicate as a parameter, which
  none of the provers can instantiate, and without induction a recursive definition such as
  `f[n \in Nat] == ... f[n \div b] ...` is a `CHOOSE` of which nothing is known. Here a set
  stands for the predicate (`StrongInduction`, `InductionUpTo`) and a function on functions
  for the body of the definition: `Recursion` says that a body which looks at smaller
  numbers only has a solution. It follows from the well-founded minimum of the library.
- `NpfC11_proofs`. `StoresExact`: a build without large or small modifiers, or one that
  folds `z` and `t`, stores to a type as wide as the one named, and the count is
  exact at that point by `IInv`. `StringsInBounds`: `StringInv` keeps the scan's index at
  or below the precision and at or before the NUL. The assumption it needs,
  `StringsAssumption`, is C11 7.21.6.1p8: a string without a NUL comes with a precision
  its characters reach. `FieldsConform`, that every specification is emitted as the field
  of C11, rests on three invariants besides `IInv`:
  - `SpecInv`: at each place that reads them, the members of `fs` are what the specification
    and its star arguments make them, and no longer what an earlier one left behind;
  - `TextInv`: what has been made of the value. While digits are generated, the digits so
    far and the numeral of what is left are the numeral of the argument (`Numeral` is
    recursive, and `NumeralRec` takes it apart by `Recursion`); at the layout, prefix, sign,
    digits and the leading zero of octal are those of a body of `Bodies`;
  - `FieldInv`: from the layout on, what was handed to the callback since the
    specification began, followed by what is still to be handed, is the field. What is
    still to be handed is computed from the place and the counters (`Pending`), so that a
    step of a loop moves one character from one side to the other.

  `BufferInBounds` and `LengthsFit` add `SizeInv`: what is left of the value has as many
  bits fewer as digits were made of it, three for each digit of base 8 or more, so that the
  digits of the widest value and the zero of `#` fit. Three assumptions come with them, all
  evaluated by TLC on the runs' instances. `ValuesAssumption`: the caller passes values that
  their types hold (7.21.6.1p9). `DefinedAssumption`: the reference text is that of formats
  C defines, so no precision on `c`, `p`, `%` and `n`, and no `#` or length modifier on `p`
  (p4, 6, 7). `SizesAssumption`: what 238-249 and the types of the header say of the sizes:
  the buffer holds the octal digits of the widest integer and a zero, its bits and a prefix
  can be counted in `int`, and so can a string's characters.
- `NpfFloats_proofs`. Neither `ScalingNeverWraps` nor `DigitsDecimal` is inductive. `ScaleInv`
  bounds the mantissa by the turns that are left: after a multiplication for the first
  digit the loop only halves, and where it has not multiplied yet the mantissa is down
  to an eighth of its range a turn before the last, which then multiplies. So the loop ends
  below ten units of the top nibble, and emitting a digit keeps it there. `FloatTypes`,
  `FloatsInBuf` and `FloatsEnd` rest on two invariants more, all three together being
  inductive (`FloatInv`):
  - `Scalars`, the types of what the scaling declares, and that no exponent is below that
    of the subnormals;
  - `PlaceInv`, which says at each place which cells hold a digit. In the fused converter
    (`FusedInv`) the cells from the point up are filled while the integer is made and those
    below it, down to the first, as the decimals are, so that all are filled when the carry
    starts its way. In the shared one (`SciInv`) the run of digits ends at the top of the
    array; a fixed layout keeps a digit for the units, and the other keeps no more digits than it
    asked for, which leaves the seven cells its exponent, sign and point need. The text of an
    exponent has at most four digits because the exponent of the first digit (`Magnitude`) is
    bounded by what is left of the binary exponent, place by place: a decimal zero takes a
    binary step, and generating a digit leaves it alone. The layouts copy within the array they
    write, so `StoredBuffer` and `RaisedBuffer` follow their stores one by one, by induction;
    what is stored to by each run of stores is added up in `Covers`.

  `HexIsNearest` is about the text of `%a`. `HexInv` says that a returned one, read back
  (`HexRead`), is at most half a unit of its last nibble away from the significand, and has the
  exponent. The proof goes by what the code computes, the significand rounded half up
  (`RoundedIs`), which is never further away (`HalfApart`). Two tables carry it. One is of what the loop of 1559-1569 leaves a
  turn: the nibbles it drops divide by a power of sixteen, and the top bit of the last of them is
  what rounding half up asks (`HalfUp`). The other is of the partial values of the text read
  back, which are the rest of those divisions (`HexValue`). `HexShape` says which cell of the
  text is which, so that nothing else is taken for the point or the exponent (`HexMarks`).
  `FieldsAssumption` is what a field of bits is: `Pow` lists the powers of two, and a
  fraction is below the one its width names.

  The assumptions are `BuildsAssumption`, `PowersAssumption`, `FormatsAssumption` (a precision
  is not negative, 1716-1740) and `RoomAssumption`, which TLC evaluates on the runs' builds:
  the reserve of 10 cells holds any 32-bit number (1045-1048, 1292); the exponent of the widest
  real has four digits at most, three with those of the intermediate (862-873 admit a
  `double` at most); and the nibbles of a `double`, its exponent and five characters fit the
  smallest buffer the header lets through (247-249). None bounds the buffer from above, the
  width of the intermediate, or the precision.

Only model-checked: what is said of the values the decimal converters print (`ExactWhenItFits`,
`PathsAgreeOnDecimals`, `NearestUnit`, `ErrOnlyWhenFull`), which takes the error of the scaling as
an invariant or relates two passes over one value; that the decimal text denotes the digits
generated (`TextDenotesDigits`), which does not need that error and is not proved yet: it takes a
cell-by-cell account of the places the digits, zeros and point are stored at, which overlap in
`npf_ftoa_rev` when the buffer is full, and of the second pass of `%g`;
and liveness, with everything else under fairness, which
is out of the prover's reach. That a float conversion ends is proved step by step
(`FloatsEnd`), but that a step is always possible, the other half, is the deadlock check of the
run.

## Not modelled

The variadic wrappers and the argument-mapping macros, which decide nothing; compiler
pragmas and C++ guards; `%a` of a single-precision build on anything but the bits of a
double, which is what it converts to first; tests, examples, and the build, release and
size tooling, which are no part of the library. The accuracy table of README 155-160 is a
measurement over random mantissas, which no small instance reproduces; `NearestUnit` bounds
the loss for `%.0f`, and `NearestPrinted`, which fails, extends the bound to `%e` where no
digit below the units is printed.

## Plan

Done: every component that computes, and the proofs above. Left, in order:

1. The composition of `NpfParse` and the engine over one `fs`, so that what one
   specification leaves behind in the real parser is what the next reads. Today the two
   meet in `HandsOnParsable`, and `Garbage` stands for what is left behind.
2. The error of the scaling steps over a whole conversion, as an invariant that carries
   the exact value as a ghost, to state README 235-239 for `%e` of large exponents.
