------------------------------ MODULE FixedPoint ------------------------------
(***************************************************************************)
(* The numbers of the rules (sim/src/fx.rs), vectors of them (vec2.rs) and *)
(* the generator (rng.rs), at a width TLC can go through: a scalar is a    *)
(* raw integer of WIDTH bits read in units of 1 / ONE, and what the code   *)
(* widens to i64 is exact here.  (A product of two i32 fits an i64, and so *)
(* does the sum of two squares but for the one value -2^31 twice, which is *)
(* held at the maximum; both are far above any root taken.)                *)
(***************************************************************************)
EXTENDS Integers, Sequences, Bitwise

CONSTANTS
  WIDTH,        \* bits of a raw value: 32
  ONE,          \* 2^FRAC_BITS, raw
  LIMIT_RAW,    \* the map's half extent, raw
  Speeds,       \* steps per tick, raw
  Coordinates,       \* raw coordinates a walk begins at
  Operands,     \* raw values arithmetic is tried on
  RNG_BITS,     \* bits of the generator's state: 64
  Seeds

MAX_RAW == 2 ^ (WIDTH - 1) - 1
MIN_RAW == - 2 ^ (WIDTH - 1)

VARIABLES
  doing,     \* sums, a walk, or draws: three machines that share nothing
  pair,      \* two operands
  at,        \* a walker
  mirror,    \* history: the walker on the other side of the map's middle
  goal,      \* where the first is going
  step,      \* how far it goes in a tick
  rng        \* the generator's state

fxvars == <<doing, pair, at, mirror, goal, step, rng>>

-----------------------------------------------------------------------------
(* Scalars.  Everything saturates; products and quotients go toward zero.  *)
Magnitude(n) == IF n < 0 THEN - n ELSE n
Fits(n)     == n >= MIN_RAW /\ n <= MAX_RAW                 \* fits_in_i32
ToRange(n)  == IF n < MIN_RAW THEN MIN_RAW ELSE IF n > MAX_RAW THEN MAX_RAW ELSE n

Toward(n, d) == LET q == Magnitude(n) \div Magnitude(d) IN IF (n < 0) # (d < 0) THEN - q ELSE q
ScaleDownShift(p)  == p \div ONE                  \* mutant: an arithmetic shift
ScaleDownToward(p) == Toward(p, ONE)
ScaleDown(p)       == ScaleDownToward(p)

FromInt(n)  == ToRange(n * ONE)
Floor(a)    == a \div ONE
Add(a, b)   == ToRange(a + b)
Sub(a, b)   == ToRange(a - b)
Neg(a)      == ToRange(- a)
Abs(a)      == ToRange(Magnitude(a))
Mul(a, b)   == ToRange(ScaleDown(a * b))
CheckedMul(a, b) == Fits(ScaleDown(a * b))
CheckedDiv(a, b) == b # 0 /\ Fits(Toward(a * ONE, b))
Div(a, b)   ==
  CASE CheckedDiv(a, b)   -> Toward(a * ONE, b)
    [] a = 0 /\ b = 0     -> 0
    [] (a < 0) # (b < 0)  -> MIN_RAW
    [] OTHER              -> MAX_RAW
FromRatio(n, d) == Div(FromInt(n), FromInt(d))

(* isqrt, exact from below (the standard library's).                       *)
RECURSIVE RootBetween(_, _, _)
RootBetween(n, low, high) ==
  IF low = high THEN low
  ELSE LET mid == (low + high + 1) \div 2
       IN  IF mid * mid <= n THEN RootBetween(n, mid, high) ELSE RootBetween(n, low, mid - 1)
Root(n) == RootBetween(n, 0, 2 ^ (WIDTH + 1))
Sqrt(a) == IF a <= 0 THEN 0 ELSE ToRange(Root(a * ONE))

-----------------------------------------------------------------------------
(* Vectors.                                                                *)
VAdd(v, w)  == <<Add(v[1], w[1]), Add(v[2], w[2])>>
VSub(v, w)  == <<Sub(v[1], w[1]), Sub(v[2], w[2])>>
VNeg(v)     == <<Neg(v[1]), Neg(v[2])>>
Scaled(v, f) == <<Mul(v[1], f), Mul(v[2], f)>>
LengthSquared(v) == v[1] * v[1] + v[2] * v[2]
Length(v)   == LET root == Root(LengthSquared(v)) IN IF root > MAX_RAW THEN MAX_RAW ELSE root
Distance(v, w) == Length(VSub(v, w))
WithinRange(v, w, r) == r >= 0 /\ LengthSquared(VSub(v, w)) <= r * r

Normalized(v) == LET l == Length(v) IN IF l = 0 THEN <<0, 0>> ELSE <<Div(v[1], l), Div(v[2], l)>>

StepPast(v, target, s) ==                      \* mutant: without the landing
  VAdd(v, Scaled(Normalized(VSub(target, v)), s))
StepOnto(v, target, s) ==
  IF Distance(target, v) <= s THEN target ELSE StepPast(v, target, s)
StepToward(v, target, s) == StepOnto(v, target, s)

Bounded(n, limit) == IF n > limit THEN limit ELSE IF n < Neg(limit) THEN Neg(limit) ELSE n
ClampComponents(v, limit) == <<Bounded(v[1], limit), Bounded(v[2], limit)>>

-----------------------------------------------------------------------------
(* The generator: SplitMix64 at its width, with the low bits of its        *)
(* constants; a draw below a bound takes the upper half.                   *)
HALF  == RNG_BITS \div 2
GAMMA == 21
MIX_A == 185
MIX_B == 235
Word(n) == n % 2 ^ RNG_BITS
Mixed(z, shift, factor) == Word((z ^^ (z \div 2 ^ shift)) * factor)
Advance(s) == Word(s + GAMMA)
NextWord(s) == Mixed(Mixed(Mixed(s, HALF - 1, MIX_A), HALF - 2, MIX_B), HALF - 1, 1)
BelowByModulus(s, bound) == (NextWord(s) \div 2 ^ HALF) % (bound + 1)    \* mutant
BelowByProduct(s, bound) ==
  IF bound = 0 THEN 0 ELSE ((NextWord(s) \div 2 ^ HALF) * bound) \div 2 ^ HALF
Below(s, bound) == BelowByProduct(s, bound)

-----------------------------------------------------------------------------
Here == <<0, 0>>
FxInit ==
  \/ /\ doing = "sums" /\ pair \in Operands \X Operands
     /\ at = Here /\ mirror = Here /\ goal = Here /\ step = 0 /\ rng = 0
  \/ /\ doing = "walking" /\ at \in Coordinates \X Coordinates /\ mirror = VNeg(at)
     /\ goal \in Coordinates \X Coordinates /\ step \in Speeds
     /\ pair = Here /\ rng = 0
  \/ /\ doing = "drawing" /\ rng \in Seeds
     /\ pair = Here /\ at = Here /\ mirror = Here /\ goal = Here /\ step = 0

(* move_champions: a step toward a destination, inside the map.            *)
Walk ==
  /\ doing = "walking" /\ at # goal
  /\ at' = ClampComponents(StepToward(at, goal, step), LIMIT_RAW)
  /\ mirror' = ClampComponents(StepToward(mirror, VNeg(goal), step), LIMIT_RAW)
  /\ UNCHANGED <<doing, pair, goal, step, rng>>

Draw ==
  /\ doing = "drawing"
  /\ rng' = Advance(rng)
  /\ UNCHANGED <<doing, pair, at, mirror, goal, step>>

FxNext == Walk \/ Draw
FxSpec == FxInit /\ [][FxNext]_fxvars

-----------------------------------------------------------------------------
(* fx.rs:16-50: every operation is the exact result, cut toward zero, or   *)
(* the end of the range where there is no such value, and `checked' says   *)
(* which; the middle of the map is no one's: what is done to the opposites *)
(* is the opposite.  And a range is exact (vec2.rs:106), at its edge and   *)
(* where the difference of two places does not fit.                        *)
CutTowardZero(q, n, d) ==     \* q = n / d, cut
  Magnitude(q * d) <= Magnitude(n) /\ Magnitude(n) < Magnitude(q * d) + Magnitude(d) /\ q * n * d >= 0
ArithmeticIsExact ==
  doing = "sums" =>
    LET a == pair[1]  b == pair[2]
    IN  /\ CheckedMul(a, b) => CutTowardZero(Mul(a, b), a * b, ONE)
        /\ ~ CheckedMul(a, b) => Mul(a, b) = IF (a < 0) = (b < 0) THEN MAX_RAW ELSE MIN_RAW
        /\ CheckedDiv(a, b) => CutTowardZero(Div(a, b), a * ONE, b)
        /\ b # 0 /\ ~ CheckedDiv(a, b) => Div(a, b) = IF (a < 0) = (b < 0) THEN MAX_RAW ELSE MIN_RAW
        /\ a > MIN_RAW /\ CheckedMul(a, b) /\ Mul(a, b) > MIN_RAW => Mul(Neg(a), b) = Neg(Mul(a, b))
        /\ a >= 0 => LET r == Sqrt(a) IN r * r <= a * ONE /\ (r < MAX_RAW => a * ONE < (r + 1) * (r + 1))
        /\ a # 0 => FromRatio(Floor(a), 1) = ToRange(a - (a % ONE))
        /\ \A r \in 0 .. MAX_RAW - 1 :
             WithinRange(<<a, 0>>, <<b, 0>>, r) <=> Magnitude(a - b) <= r

(* Whoever walks comes nearer with every tick until it stands on its       *)
(* destination, goes no farther in one than its speed, by the one part in  *)
(* ONE that a unit vector may be too long, and its mirror image walks the  *)
(* mirror image of its way.  step_toward() and its "landing exactly".      *)
Apart(v, w) == (v[1] - w[1]) * (v[1] - w[1]) + (v[2] - w[2]) * (v[2] - w[2])
WalksStraight ==
  [][doing = "walking" =>
       /\ Apart(at', goal) < Apart(at, goal)
       /\ mirror' = VNeg(at')
       /\ Apart(at', at) <= (step + 1) * (step + 1)]_fxvars

(* The generator gives no word twice in a period, and a draw below a bound *)
(* is below it.                                                            *)
DrawsAreSpread ==
  doing = "drawing" =>
    /\ \A s \in 0 .. 2 ^ RNG_BITS - 1 : NextWord(s) = NextWord(rng) => s = rng
    /\ \A bound \in 1 .. 2 ^ HALF : Below(rng, bound) < bound
=============================================================================
