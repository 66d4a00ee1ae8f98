----------------------------- MODULE HeaderChain -----------------------------
(***************************************************************************)
(* The header chain check of the DA verifier (verify_header_chain in       *)
(* crates/bitcoin-da/src/verifier.rs), which the light client circuit runs *)
(* on every L1 block.  The verifier keeps no headers: LatestDaState carries*)
(* the tip's hash and height, the bits the next header must have, the time *)
(* the epoch started, the last timestamps in a ring and the total work.    *)
(* The model keeps the chain itself beside that state, so that what the    *)
(* verifier decides from its summary is compared with what the rules of    *)
(* the Bitcoin network say of the whole chain.                             *)
(*                                                                         *)
(* A block hash is two things: an identity (the position of the header)    *)
(* and a number that is compared with the target.                          *)
(***************************************************************************)
EXTENDS Integers, Sequences, FiniteSets

CONSTANTS
  Width,           \* bits of a digit (8 in the code)
  Digits,          \* digits of a target (32 in the code)
  Word,            \* modulus of a timestamp (2^32 in the code)
  Networks,        \* the networks of the run
  BLOCKS_PER_EPOCH,
  Window,          \* length of prev_11_timestamps
  Timespan,        \* EXPECTED_EPOCH_TIMESPAN, per network
  ResetAfter,      \* the 20 minutes (1200 s) of testnet4's exception
  MaxTimewarp,     \* the 600 s by which a new epoch of testnet4 may step back
  MaxTarget,       \* max_target, per network
  StartTarget,     \* target of the checkpoint
  StartTimes,      \* timestamps of the headers up to the checkpoint
  TimeSteps,       \* offsets from the tip's time at which headers are offered
  MaxHeight        \* bound on the chain

HeaderChainAssumption ==
  /\ Width \in Nat \ {0}
  /\ Digits \in Nat /\ Digits > 3
  /\ Word \in Nat \ {0}
  /\ Networks \subseteq {"mainnet", "testnet4", "signet", "regtest"}
  /\ BLOCKS_PER_EPOCH \in Nat \ {0}
  /\ Window \in Nat \ {0} /\ Window % 2 = 1
  /\ Len(StartTimes) >= Window
  /\ TimeSteps \subseteq Int
  /\ MaxTimewarp \in Nat

VARIABLES
  network,  \* the network the verifier runs on
  chain,    \* time and bits of the network's headers, the first at height 0
  latest    \* latest_da_state: << >> or the state of the last accepted header

vars == <<network, chain, latest>>

-----------------------------------------------------------------------------
(***************************************************************************)
(* The arithmetic of Bitcoin's proof of work as the verifier computes it:  *)
(* a target is a number of Digits digits, and the four-byte `bits' of a    *)
(* header is a digit count with the three leading digits.  Next to each    *)
(* conversion stands the one of the Bitcoin network, which decides what a  *)
(* valid header is.                                                        *)
(***************************************************************************)
Base == 2 ^ Width
MaxU256 == Base ^ Digits - 1
Targets == 0 .. MaxU256

\* U256::bits: the position of the highest bit that is set.
BitLength(t) ==
  IF t = 0 THEN 0 ELSE CHOOSE n \in 1 .. Width * Digits : 2 ^ (n - 1) <= t /\ t < 2 ^ n

\* The digit at index i of the big-endian array.
DigitAt(t, i) == (t \div Base ^ (Digits - 1 - i)) % Base

-----------------------------------------------------------------------------

bits_to_target(bits) ==
  IF bits.mantissa > Base ^ 3 \div 2 - 1 THEN 0
  ELSE IF bits.size <= 3
  THEN bits.mantissa \div Base ^ (3 - bits.size)
  ELSE (bits.mantissa * Base ^ (bits.size - 3)) % Base ^ Digits

\* The array accesses of target_to_bits are in range only for these targets;
\* the others make the function panic.
HasBits(t) ==
  \E size \in {(Width * Digits + Width - 1 - BitLength(t)) \div Width} :
    size >= 1 /\ size + 1 < Digits

target_to_bits(t) ==
  LET size == (Width * Digits + Width - 1 - BitLength(t)) \div Width
  IN [size |-> Digits + 1 - size,
      mantissa |-> (DigitAt(t, size - 1) * Base + DigitAt(t, size)) * Base + DigitAt(t, size + 1)]

target_to_work(t) ==
  CASE t \in {0, 1} -> MaxU256
    [] t = MaxU256 -> 1
    [] OTHER -> (MaxU256 - t) \div (t + 1) + 1

\* The span is a difference of u32, the product one of 256-bit numbers.
calculate_new_difficulty(epoch_start_time, last_timestamp, bits, max_target, expected) ==
  LET actual == (last_timestamp - epoch_start_time) % Word
      clamped == IF actual < expected \div 4 THEN expected \div 4
                 ELSE IF actual > expected * 4 THEN expected * 4 ELSE actual
      target == ((bits_to_target(bits) * clamped) % Base ^ Digits) \div expected
  IN IF target > max_target THEN max_target ELSE target

-----------------------------------------------------------------------------
(* The same conversions in the rules of the Bitcoin network. *)

\* Number of digits needed to write t.
DigitCount(t) == (BitLength(t) + Width - 1) \div Width

\* Compact form of t: its three leading digits, shifted by one digit when
\* the top bit, which carries the sign, would be set.
Compact(t) ==
  LET size == DigitCount(t)
      leading == IF size <= 3 THEN t * Base ^ (3 - size) ELSE t \div Base ^ (size - 3)
  IN IF leading >= Base ^ 3 \div 2
     THEN [size |-> size + 1, mantissa |-> leading \div Base]
     ELSE [size |-> size, mantissa |-> leading]

\* The target a compact form stands for; 0 for a negative one.
Expanded(bits) ==
  CASE bits.mantissa >= Base ^ 3 \div 2 -> 0
    [] bits.mantissa < Base ^ 3 \div 2 /\ bits.size <= 3 -> bits.mantissa \div Base ^ (3 - bits.size)
    [] OTHER -> bits.mantissa * Base ^ (bits.size - 3)

\* Expected number of hashes for a block with this target.
ExpectedWork(t) == Base ^ Digits \div (t + 1)

\* Retargeting over a signed span.
Retarget(first, last, bits, max_target, expected) ==
  LET span == last - first
      clamped == CASE span < expected \div 4 -> expected \div 4
                   [] span > expected * 4 -> expected * 4
                   [] OTHER -> span
      target == (Expanded(bits) * clamped) \div expected
  IN IF target > max_target THEN max_target ELSE target

-----------------------------------------------------------------------------
MaxBits(net) == target_to_bits(MaxTarget[net])
Tip == chain[Len(chain)]

-----------------------------------------------------------------------------
(* The rules of the network, from the whole chain.  c is the chain so far.  *)

Height(c) == Len(c) - 1
At(c, h) == c[h + 1]

\* Median time past: the middle one of the last Window timestamps.
MedianTimePast(c) ==
  LET last == {h \in 0 .. Height(c) : h > Height(c) - Window}
      Rank(h) == Cardinality({g \in last : \/ At(c, g).time < At(c, h).time
                                           \/ At(c, g).time = At(c, h).time /\ g < h})
  IN At(c, CHOOSE h \in last : Rank(h) = Cardinality(last) \div 2).time

EpochStart(h) == h - (h % BLOCKS_PER_EPOCH)

\* On testnet4 a header that came late has the easiest target and says
\* nothing about the epoch's difficulty.
LastRegular(c) ==
  CHOOSE h \in EpochStart(Height(c)) .. Height(c) :
    /\ h = EpochStart(Height(c)) \/ At(c, h).bits # MaxBits("testnet4")
    /\ \A g \in h + 1 .. Height(c) : At(c, g).bits = MaxBits("testnet4")

\* The bits the next header must have when it carries timestamp time.
RequiredBits(net, c, time) ==
  LET next == Height(c) + 1
      first == At(c, next - BLOCKS_PER_EPOCH)
  IN CASE net = "regtest" -> MaxBits(net)
       [] net # "regtest" /\ next % BLOCKS_PER_EPOCH = 0 ->
            Compact(Retarget(first.time, At(c, Height(c)).time,
                             IF net = "testnet4" THEN first.bits ELSE At(c, Height(c)).bits,
                             MaxTarget[net], Timespan[net]))
       [] net = "testnet4" /\ next % BLOCKS_PER_EPOCH # 0 ->
            IF time > At(c, Height(c)).time + ResetAfter THEN MaxBits(net)
            ELSE At(c, LastRegular(c)).bits
       [] OTHER -> At(c, Height(c)).bits

\* A header of testnet4 that opens an epoch too long before its parent, which
\* the network refuses there (BIP 94) and the verifier knows nothing of.
Timewarp(net, c, h) ==
  /\ net = "testnet4"
  /\ (Height(c) + 1) % BLOCKS_PER_EPOCH = 0
  /\ h.time < At(c, Height(c)).time - MaxTimewarp

ValidHeader(net, c, h) ==
  /\ h.hashed
  /\ h.height = Height(c) + 1
  /\ h.prev = Height(c)
  /\ h.bits = RequiredBits(net, c, h.time)
  /\ h.pow <= Expanded(h.bits)
  /\ h.time > MedianTimePast(c)
  /\ ~Timewarp(net, c, h)

-----------------------------------------------------------------------------
(* The verifier. *)

\* verify_timestamp sorts the ring and takes its middle entry.
Median(ring) ==
  CHOOSE t \in {ring[i] : i \in 0 .. Window - 1} :
    /\ Cardinality({i \in 0 .. Window - 1 : ring[i] < t}) <= Window \div 2
    /\ Cardinality({i \in 0 .. Window - 1 : ring[i] <= t}) > Window \div 2

\* verify_header_chain_common, in the order of its checks; verify_target_hash
\* compares hash and target byte by byte from the most significant one.
CommonRules(h, da, target, expected_bits) ==
  /\ h.hashed
  /\ h.height - 1 = da.block_height
  /\ h.prev = da.block_hash
  /\ h.bits = expected_bits
  /\ h.pow <= target
  /\ h.time > Median(da.prev_11_timestamps)

EpochBlock(h) == h.height % BLOCKS_PER_EPOCH

\* Target and bits a header is checked against.
Expected(net, da, h) ==
  IF \/ net = "regtest"
     \/ /\ net = "testnet4"
        /\ EpochBlock(h) # 0
        /\ h.time > da.prev_11_timestamps[da.block_height % Window] + ResetAfter
  THEN [target |-> MaxTarget[net], bits |-> MaxBits(net)]
  ELSE [target |-> bits_to_target(da.current_target_bits), bits |-> da.current_target_bits]

\* The bits that stand for the epoch's difficulty: a late header of testnet4
\* does not change them.
EpochBits(net, da, h) == IF net = "testnet4" THEN da.current_target_bits ELSE h.bits

\* Mutant: the first header of an epoch does not restart its clock.
MutEpochStartTime(da, h) == da.epoch_start_time

EpochStartTime(da, h) == IF EpochBlock(h) = 0 THEN h.time ELSE da.epoch_start_time

\* After the last header of an epoch the bits are those of the next epoch.
CurrentTargetBits(net, da, h) ==
  IF EpochBlock(h) = BLOCKS_PER_EPOCH - 1
  THEN target_to_bits(calculate_new_difficulty(EpochStartTime(da, h), h.time,
                        EpochBits(net, da, h), MaxTarget[net], Timespan[net]))
  ELSE EpochBits(net, da, h)

\* saturating_add
AddWork(a, b) == IF a + b > MaxU256 THEN MaxU256 ELSE a + b

Ring(da, h) == [da.prev_11_timestamps EXCEPT ![h.height % Window] = h.time]

\* The state after an accepted header.
RegtestState(da, h) ==
  [block_hash |-> h.height,
   block_height |-> h.height,
   total_work |-> 0,
   current_target_bits |-> h.bits,
   epoch_start_time |-> 0,
   prev_11_timestamps |-> Ring(da, h)]

NextState(net, da, h) ==
  IF net = "regtest" THEN RegtestState(da, h)
  ELSE [block_hash |-> h.height,
        block_height |-> h.height,
        total_work |-> AddWork(da.total_work, target_to_work(Expected(net, da, h).target)),
        current_target_bits |-> CurrentTargetBits(net, da, h),
        epoch_start_time |-> EpochStartTime(da, h),
        prev_11_timestamps |-> Ring(da, h)]

\* The state a first proof starts from: the checkpoint of the network, and
\* on regtest the parent of whatever header comes first.
InitialState(net, c, h) ==
  IF net = "regtest"
  THEN [block_hash |-> h.prev, block_height |-> h.height - 1, total_work |-> 0,
        current_target_bits |-> MaxBits(net), epoch_start_time |-> 0,
        prev_11_timestamps |-> [i \in 0 .. Window - 1 |-> 0]]
  ELSE [block_hash |-> Height(c), block_height |-> Height(c), total_work |-> 0,
        current_target_bits |-> RequiredBits(net, c, At(c, Height(c)).time),
        epoch_start_time |-> At(c, EpochStart(Height(c))).time,
        prev_11_timestamps |->
          [i \in 0 .. Window - 1 |->
             At(c, CHOOSE h2 \in Height(c) - Window + 1 .. Height(c) : h2 % Window = i).time]]

State(h) == IF latest = << >> THEN InitialState(network, chain, h) ELSE latest[1]

Accepts(h) ==
  LET expected == Expected(network, State(h), h)
  IN CommonRules(h, State(h), expected.target, expected.bits)

-----------------------------------------------------------------------------

Header(time, bits, pow) ==
  [hashed |-> TRUE, height |-> Height(chain) + 1, prev |-> Height(chain),
   bits |-> bits, pow |-> pow, time |-> time]

OfferedTimes == {Tip.time + d : d \in TimeSteps} \cap Nat

\* Headers offered to the verifier: valid ones, and ones that break one rule
\* or carry the bits of another moment.
Offered ==
  LET Valid(time) == Header(time, RequiredBits(network, chain, time), 0)
      OtherBits == {Tip.bits, MaxBits(network), RequiredBits(network, chain, Tip.time)}
  IN UNION {{Valid(time),
             [Valid(time) EXCEPT !.hashed = FALSE],
             [Valid(time) EXCEPT !.height = @ + 1],
             [Valid(time) EXCEPT !.prev = @ - 1],
             [Valid(time) EXCEPT !.pow = Expanded(Valid(time).bits)],
             [Valid(time) EXCEPT !.pow = Expanded(Valid(time).bits) + 1]}
            \cup {Header(time, bits, 0) : bits \in OtherBits}
            : time \in OfferedTimes}

Init ==
  /\ network \in Networks
  /\ chain = [i \in 1 .. Len(StartTimes) |->
                [time |-> StartTimes[i],
                 bits |-> IF network = "regtest" THEN MaxBits(network)
                          ELSE target_to_bits(StartTarget)]]
  /\ latest = << >>

\* verify_header_chain on the next header of the network.
VerifyHeader(h) ==
  /\ Height(chain) < MaxHeight
  /\ ValidHeader(network, chain, h)
  /\ Accepts(h)
  /\ latest' = <<NextState(network, State(h), h)>>
  /\ chain' = Append(chain, [time |-> h.time, bits |-> h.bits])
  /\ UNCHANGED network

\* An error leaves the light client where it was.
RejectHeader(h) ==
  /\ Height(chain) < MaxHeight
  /\ ~Accepts(h)
  /\ UNCHANGED vars

Next == \E h \in Offered : VerifyHeader(h) \/ RejectHeader(h)

Spec == Init /\ [][Next]_vars

-----------------------------------------------------------------------------
(* Properties. *)

\* A retargeting epoch after the checkpoint ended before it began.  The
\* verifier takes the span as an unsigned difference, which is then huge,
\* where the network takes it as negative.
EndedEarly ==
  /\ network # "regtest"
  /\ \E h \in Len(StartTimes) .. Height(chain) :
       /\ h % BLOCKS_PER_EPOCH = BLOCKS_PER_EPOCH - 1
       /\ At(chain, h).time < At(chain, EpochStart(h)).time

\* Following the network never stops: whatever valid header comes next,
\* across epoch ends, late blocks of testnet4 and timestamps out of order,
\* the verifier accepts it from its summary, as long as no epoch ended
\* before it began: after one it asks for four times the target instead of
\* a quarter of it.
ValidAccepted ==
  ~EndedEarly => \A h \in Offered : ValidHeader(network, chain, h) => Accepts(h)

\* The verifier accepts nothing else: the ring, the epoch clock and the
\* carried bits never let through a header the network rejects, with these
\* exceptions.  It takes a first header of an epoch that testnet4 refuses as
\* a time warp; it asks for the wrong target after an epoch that ended before
\* it began; and on regtest the ring starts with zeros, so that the median
\* check is weaker there.
AcceptedValid ==
  network # "regtest" /\ ~EndedEarly =>
    \A h \in Offered :
      Accepts(h) /\ ~Timewarp(network, chain, h) => ValidHeader(network, chain, h)

\* The total work is that of the headers themselves: a late header of
\* testnet4 counts for its own easy target.
WorkOfHeaders ==
  network # "regtest" /\ latest # << >> =>
    LET Work[h \in Len(StartTimes) - 1 .. MaxHeight] ==
          IF h = Len(StartTimes) - 1 THEN 0
          ELSE Work[h - 1] + ExpectedWork(Expanded(At(chain, h).bits))
    IN latest[1].total_work = Work[Height(chain)]

\* target_to_bits yields the network's compact form of every target it can
\* convert, although it reads fixed positions of the byte array, and reading
\* the bits back loses only what three digits cannot hold.
BitsAreCompact(t) ==
  HasBits(t) =>
    LET bits == target_to_bits(t) IN
    /\ bits = Compact(t)
    /\ bits_to_target(bits) <= t
    /\ (t - bits_to_target(bits)) * Base ^ 3 < Base ^ bits.size

\* bits_to_target reads every bits a header can carry as the network does,
\* the negative and the short ones included.
TargetsAreExpanded(bits) == bits_to_target(bits) = Expanded(bits)

\* The division that avoids a 257-bit numerator counts the expected hashes of
\* every target above 1 (for 0 and 1 the code defines the result as the
\* maximum).
WorkIsExpected(t) == t > 1 => target_to_work(t) = ExpectedWork(t)
=============================================================================
