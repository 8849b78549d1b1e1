----------------------------- MODULE ClockProofs -----------------------------
(***************************************************************************)
(* What the fit of a node's clock is, for all numbers of nodes and blocks, *)
(* all drifts, jitter, loss, doubling, delay and disorder.                 *)
(***************************************************************************)
EXTENDS ClockSync, NumberProofs

(***************************************************************************)
(* One point more: the divisions have no rest, and the sums of products    *)
(* grow by the product of the steps the means take.                        *)
(***************************************************************************)

\* A divisor goes into a number without rest.
LEMMA Divides ==
    ASSUME NEW s \in Nat, NEW k \in Nat \ {0}, s % k = 0
    PROVE  \E p \in Nat : s = k * p
<1>1. s = k * (s \div k) + (s % k) /\ s \div k \in Nat
  BY SMT
<1> QED  BY <1>1

\* A multiple is divided without rest.
LEMMA Exact ==
    ASSUME NEW q \in Int, NEW n \in Nat \ {0}
    PROVE  (n * q) \div n = q
  BY SMT

\* The mean of k numbers with the sum A, scaled; no mean of none.
IsMean(k, mean, A) == k * mean = Scale * A /\ (k = 0 => A = 0 /\ mean = 0)

\* The mean of k numbers takes the step e when a comes.
Moves(k, mean, a, e) == Scale * a - mean = (k + 1) * e

\* The sum of products M of k pairs with the sums A and B and the sum of their products P.
IsMoment(k, M, A, B, P) ==
    /\ k * M = Scale * Scale * (k * P - A * B)
    /\ k = 0 => A = 0 /\ B = 0 /\ P = 0 /\ M = 0

\* The numbers of points before and after one more divide Scale.
Divided(k) == (k > 0 => Scale % k = 0) /\ Scale % (k + 1) = 0

\* The step of the mean of k numbers with the sum A when a comes.
LEMMA MeanStep ==
    ASSUME NEW k \in Nat, NEW mean \in Int, NEW A \in Int, NEW a \in Int,
           IsMean(k, mean, A), Divided(k)
    PROVE  \E e \in Int : Moves(k, mean, a, e) /\ IsMean(k + 1, mean + e, A + a)
<1> DEFINE d == Scale * a - mean
<1>0. /\ k * mean = Scale * A /\ (k = 0 => A = 0 /\ mean = 0)
      /\ (k > 0 => Scale % k = 0) /\ Scale % (k + 1) = 0
  BY DEF IsMean, Divided
<1>1. Scale \in Nat /\ k + 1 \in Nat \ {0} /\ k + 1 \in Int
  BY ScaleAssumption
<1>2. PICK q \in Nat : Scale = (k + 1) * q
  BY <1>0, <1>1, Divides
<1>3. \E c \in Int : d = (k + 1) * c /\ mean + c = q * (A + a)
  <2>1. CASE k = 0
    <3>1. mean = 0 /\ A = 0 /\ Scale = q
      BY <1>0, <1>2, <2>1
    <3>2. d = 1 * (Scale * a) /\ mean + Scale * a = q * (A + a)
      BY <1>1, <3>1
    <3>3. Scale * a \in Int /\ k + 1 = 1
      BY <1>1, <2>1
    <3> QED  BY <3>2, <3>3
  <2>2. CASE k # 0
    <3>1. PICK p \in Nat : Scale = k * p
      <4>1. k \in Nat \ {0} /\ Scale % k = 0
        BY <1>0, <2>2
      <4> QED  BY <1>1, <4>1, Divides
    <3>2. k * mean = k * (p * A)
      BY <1>0, <3>1
    <3>3. mean = p * A
      BY <2>2, <3>2
    <3> DEFINE c == q * (A + a) - mean
    <3>4. (k + 1) * q = k * p
      BY <1>2, <3>1
    <3>5. (k + 1) * c = d
      <4>1. (k + 1) * c = ((k + 1) * q) * (A + a) - (k + 1) * mean
        OBVIOUS
      <4>2. (k + 1) * c = (k * p) * (A + a) - k * (p * A) - mean
        BY <3>2, <3>4, <4>1
      <4>3. (k * p) * (A + a) - k * (p * A) = (k * p) * a
        OBVIOUS
      <4> QED  BY <3>1, <4>2, <4>3
    <3>6. c \in Int /\ mean + c = q * (A + a)
      OBVIOUS
    <3> QED  BY <3>5, <3>6
  <2> QED  BY <2>1, <2>2
<1>4. PICK c \in Int : d = (k + 1) * c /\ mean + c = q * (A + a)
  BY <1>3
<1>5. (k + 1) * (mean + c) = Scale * (A + a)
  <2>1. (k + 1) * (mean + c) = (k + 1) * (q * (A + a))
    BY <1>4
  <2>2. (k + 1) * (q * (A + a)) = ((k + 1) * q) * (A + a)
    OBVIOUS
  <2> QED  BY <1>2, <2>1, <2>2
<1>6. k + 1 # 0
  OBVIOUS
<1> QED  BY <1>4, <1>5, <1>6 DEF IsMean, Moves

\* The sum of products M of two sequences with the sums A, B and P, whose means take the steps
\* e and f when a and b come.
LEMMA MomentStep ==
    ASSUME NEW k \in Nat, NEW A \in Int, NEW B \in Int, NEW P \in Int, NEW M \in Int,
           NEW a \in Int, NEW b \in Int, NEW u \in Int, NEW v \in Int, NEW e \in Int, NEW f \in Int,
           IsMean(k, u, A), IsMean(k, v, B), Moves(k, u, a, e), Moves(k, v, b, f),
           IsMoment(k, M, A, B, P)
    PROVE  IsMoment(k + 1, M + k * (k + 1) * (e * f), A + a, B + b, P + a * b)
<1> DEFINE S == Scale
<1>0. /\ S \in Int /\ k * u = S * A /\ k * v = S * B
      /\ S * a - u = (k + 1) * e /\ S * b - v = (k + 1) * f
      /\ k * M = S * S * (k * P - A * B)
      /\ k = 0 => A = 0 /\ B = 0 /\ P = 0 /\ M = 0
  BY ScaleAssumption DEF IsMean, Moves, IsMoment
<1> HIDE DEF S
<1> DEFINE left == (k + 1) * (M + k * (k + 1) * (e * f))
           right == S * S * ((k + 1) * (P + a * b) - (A + a) * (B + b))
<1>1. ASSUME k = 0 PROVE left = right
  <2>1. left = 0
    BY <1>0, <1>1
  <2>2. right = 0
    BY <1>0, <1>1
  <2> QED  BY <2>1, <2>2
<1>2. ASSUME k # 0 PROVE left = right
  <2>1. k * ((k + 1) * e) = S * (k * a - A)
    <3>1. k * ((k + 1) * e) = k * (S * a) - k * u
      BY <1>0
    <3>2. k * (S * a) - S * A = S * (k * a - A)
      BY <1>0
    <3> QED  BY <1>0, <3>1, <3>2
  <2>2. k * ((k + 1) * f) = S * (k * b - B)
    <3>1. k * ((k + 1) * f) = k * (S * b) - k * v
      BY <1>0
    <3>2. k * (S * b) - S * B = S * (k * b - B)
      BY <1>0
    <3> QED  BY <1>0, <3>1, <3>2
  <2>3. k * left = (k + 1) * (k * M) + (k * ((k + 1) * e)) * (k * ((k + 1) * f))
    BY <1>0
  <2>4. k * left = (k + 1) * (S * S * (k * P - A * B)) + (S * (k * a - A)) * (S * (k * b - B))
    BY <1>0, <2>1, <2>2, <2>3
  <2>5. (k + 1) * (S * S * (k * P - A * B)) + (S * (k * a - A)) * (S * (k * b - B)) = k * right
    BY <1>0
  <2>6. k * left = k * right /\ left \in Int /\ right \in Int
    BY <1>0, <2>4, <2>5
  <2> HIDE DEF left, right
  <2>7. left = right
    BY <1>2, <2>6
  <2> QED  BY <2>7 DEF left, right
<1>3. left = right
  BY <1>1, <1>2
<1> QED  BY <1>0, <1>3 DEF IsMoment, S

-----------------------------------------------------------------------------
(***************************************************************************)
(* What a fit has to do with its points.                                   *)
(***************************************************************************)

Fit == [n : Nat, mean_ref : Int, mean_node : Int, m_rr : Int, m_nn : Int, m_rn : Int]
Point == [t_node : Nat, t_ref : Nat, round : Nat]

RefsOf(ps) == [i \in 1 .. Len(ps) |-> ps[i].t_ref]
StampsOf(ps) == [i \in 1 .. Len(ps) |-> ps[i].t_node]

\* The fit m is that of the points ps.
Fits(m, ps) ==
    LET k == Len(ps)
        R == RefsOf(ps)
        S == StampsOf(ps)
        A == SumFunction(R)
        B == SumFunction(S)
    IN  /\ m.n = k /\ (k = 0 => m = NoPoints)
        /\ IsMean(k, m.mean_ref, A) /\ IsMean(k, m.mean_node, B)
        /\ IsMoment(k, m.m_rr, A, A, SumFunction(Product(R, R)))
        /\ IsMoment(k, m.m_nn, B, B, SumFunction(Product(S, S)))
        /\ IsMoment(k, m.m_rn, A, B, SumFunction(Product(R, S)))

\* No spread until two instants were seen.
Spread(m, ps) ==
    /\ m.m_rr >= 0
    /\ m.m_rr > 0 <=> \E i, j \in 1 .. Len(ps) : ps[i].t_ref # ps[j].t_ref
    /\ m.m_rr = 0 /\ Len(ps) > 0 => m.mean_ref = Scale * ps[1].t_ref

Rising(ps) == \A i, j \in 1 .. Len(ps) : i < j => ps[i].t_node < ps[j].t_node

\* The reference clock never goes back, and where the node's does not either, neither does the fit.
Onward(m, ps) ==
    /\ \A i, j \in 1 .. Len(ps) : i < j => ps[i].t_ref <= ps[j].t_ref
    /\ Len(ps) > 0 => m.mean_ref <= Scale * ps[Len(ps)].t_ref
    /\ Rising(ps) => /\ Len(ps) > 0 => m.mean_node <= Scale * ps[Len(ps)].t_node
                     /\ m.m_rn >= 0 /\ (m.m_rr > 0 => m.m_rn > 0)

\* Points that all came with the same lag lie on the line of the node's clock.
OnLine(m, ps, dt, lag) ==
    (\A i \in 1 .. Len(ps) : /\ ps[i].t_ref = (ps[i].round + lag) * Tick
                             /\ ps[i].t_node = ps[i].round * dt)
    => /\ Len(ps) > 0 => Tick * m.mean_node = dt * (m.mean_ref - Scale * (lag * Tick))
       /\ Tick * m.m_rn = dt * m.m_rr /\ Tick * m.m_nn = dt * m.m_rn

-----------------------------------------------------------------------------
\* The points one longer, and their sums.
LEMMA PointAppended ==
    ASSUME NEW ps \in Seq(Point), NEW p \in Point
    PROVE  LET qs == Append(ps, p)
               k == Len(ps)
           IN  /\ qs \in Seq(Point) /\ k \in Nat /\ Len(qs) = k + 1 /\ qs[k + 1] = p
               /\ \A i \in 1 .. k : qs[i] = ps[i]
               /\ p.t_ref \in Nat /\ p.t_node \in Nat /\ p.round \in Nat
               /\ \A i \in 1 .. k : ps[i].t_ref \in Nat /\ ps[i].t_node \in Nat
<1> DEFINE qs == Append(ps, p)
           k == Len(ps)
<1>1. k \in Nat /\ qs \in Seq(Point) /\ Len(qs) = k + 1 /\ qs[k + 1] = p
      /\ \A i \in 1 .. k : qs[i] = ps[i]
  BY AppendProperties
<1>2. \A i \in 1 .. k : ps[i] \in Point
  BY ElementOfSeq
<1>3. \A q \in Point : q.t_ref \in Nat /\ q.t_node \in Nat /\ q.round \in Nat
  BY DEF Point
<1> HIDE DEF qs, k
<1>4. \A i \in 1 .. k : ps[i].t_ref \in Nat /\ ps[i].t_node \in Nat
  BY <1>2, <1>3
<1> QED  BY <1>1, <1>3, <1>4 DEF qs, k

\* The two columns of one point more.
LEMMA ColumnsGrow ==
    ASSUME NEW ps \in Seq(Point), NEW p \in Point
    PROVE  LET qs == Append(ps, p)
               k == Len(ps)
           IN  /\ k \in Nat
               /\ RefsOf(ps) \in [1 .. k -> Nat] /\ RefsOf(qs) \in [1 .. k + 1 -> Nat]
               /\ \A i \in 1 .. k : RefsOf(qs)[i] = RefsOf(ps)[i]
               /\ RefsOf(qs)[k + 1] = p.t_ref
               /\ StampsOf(ps) \in [1 .. k -> Nat] /\ StampsOf(qs) \in [1 .. k + 1 -> Nat]
               /\ \A i \in 1 .. k : StampsOf(qs)[i] = StampsOf(ps)[i]
               /\ StampsOf(qs)[k + 1] = p.t_node
<1> DEFINE qs == Append(ps, p)
           k == Len(ps)
<1>1. /\ k \in Nat /\ Len(qs) = k + 1 /\ qs[k + 1] = p
      /\ \A i \in 1 .. k : qs[i] = ps[i]
      /\ p.t_ref \in Nat /\ p.t_node \in Nat
      /\ \A i \in 1 .. k : ps[i].t_ref \in Nat /\ ps[i].t_node \in Nat
  BY PointAppended
<1>2. \A i \in 1 .. k + 1 : i \in 1 .. k \/ i = k + 1
  BY <1>1
<1> HIDE DEF qs
<1>3. \A i \in 1 .. k + 1 : qs[i].t_ref \in Nat /\ qs[i].t_node \in Nat
  BY <1>1, <1>2
<1>4. /\ RefsOf(ps) \in [1 .. k -> Nat] /\ RefsOf(qs) \in [1 .. k + 1 -> Nat]
      /\ \A i \in 1 .. k : RefsOf(qs)[i] = RefsOf(ps)[i]
      /\ RefsOf(qs)[k + 1] = p.t_ref
  BY <1>1, <1>2, <1>3 DEF RefsOf
<1>5. /\ StampsOf(ps) \in [1 .. k -> Nat] /\ StampsOf(qs) \in [1 .. k + 1 -> Nat]
      /\ \A i \in 1 .. k : StampsOf(qs)[i] = StampsOf(ps)[i]
      /\ StampsOf(qs)[k + 1] = p.t_node
  BY <1>1, <1>2, <1>3 DEF StampsOf
<1> QED  BY <1>1, <1>4, <1>5 DEF qs, k

LEMMA RefsGrow ==
    ASSUME NEW ps \in Seq(Point), NEW p \in Point
    PROVE  LET qs == Append(ps, p)
           IN  /\ SumFunction(RefsOf(qs)) = SumFunction(RefsOf(ps)) + p.t_ref
               /\ SumFunction(StampsOf(qs)) = SumFunction(StampsOf(ps)) + p.t_node
               /\ SumFunction(RefsOf(ps)) \in Nat /\ SumFunction(StampsOf(ps)) \in Nat
               /\ Len(ps) = 0 => SumFunction(RefsOf(ps)) = 0 /\ SumFunction(StampsOf(ps)) = 0
<1> DEFINE qs == Append(ps, p)
           k == Len(ps)
           R == RefsOf(ps)
           S == StampsOf(ps)
           Q == RefsOf(qs)
           T == StampsOf(qs)
<1>1. /\ k \in Nat /\ R \in [1 .. k -> Nat] /\ Q \in [1 .. k + 1 -> Nat]
      /\ \A i \in 1 .. k : Q[i] = R[i]
      /\ Q[k + 1] = p.t_ref
  BY ColumnsGrow
<1>2. /\ S \in [1 .. k -> Nat] /\ T \in [1 .. k + 1 -> Nat]
      /\ \A i \in 1 .. k : T[i] = S[i]
      /\ T[k + 1] = p.t_node
  BY ColumnsGrow
<1> HIDE DEF k, R, S, Q, T
<1>3. SumFunction(Q) = SumFunction(R) + p.t_ref
      /\ SumFunction(R) \in Nat /\ (k = 0 => SumFunction(R) = 0)
  BY <1>1, SumAppend
<1>4. SumFunction(T) = SumFunction(S) + p.t_node
      /\ SumFunction(S) \in Nat /\ (k = 0 => SumFunction(S) = 0)
  BY <1>1, <1>2, SumAppend
<1> QED  BY <1>3, <1>4 DEF k, R, S, Q, T

\* A sum of products grows by the product of the new values.
LEMMA ProductsGrow ==
    ASSUME NEW k \in Nat, NEW f \in [1 .. k -> Nat], NEW g \in [1 .. k -> Nat],
           NEW F \in [1 .. k + 1 -> Nat], NEW G \in [1 .. k + 1 -> Nat],
           \A i \in 1 .. k : F[i] = f[i] /\ G[i] = g[i]
    PROVE  /\ SumFunction(Product(F, G)) = SumFunction(Product(f, g)) + F[k + 1] * G[k + 1]
           /\ SumFunction(Product(f, g)) \in Nat /\ (k = 0 => SumFunction(Product(f, g)) = 0)
<1>1. Product(f, g) = [i \in 1 .. k |-> f[i] * g[i]]
      /\ Product(F, G) = [i \in 1 .. k + 1 |-> F[i] * G[i]]
  BY DEF Product
<1>2. \A x, y \in Nat : x * y \in Nat
  OBVIOUS
<1>3. Product(f, g) \in [1 .. k -> Nat] /\ Product(F, G) \in [1 .. k + 1 -> Nat]
  BY SMTT(30), <1>1, <1>2
<1>4. \A i \in 1 .. k : Product(F, G)[i] = Product(f, g)[i]
  BY <1>1
<1>5. Product(F, G)[k + 1] = F[k + 1] * G[k + 1]
  BY <1>1
<1> QED  BY <1>3, <1>4, <1>5, SumAppend

LEMMA ProductsOfPoints ==
    ASSUME NEW ps \in Seq(Point), NEW p \in Point
    PROVE  LET qs == Append(ps, p)
               R == RefsOf(ps)
               S == StampsOf(ps)
           IN  /\ SumFunction(Product(RefsOf(qs), RefsOf(qs)))
                     = SumFunction(Product(R, R)) + p.t_ref * p.t_ref
               /\ SumFunction(Product(StampsOf(qs), StampsOf(qs)))
                     = SumFunction(Product(S, S)) + p.t_node * p.t_node
               /\ SumFunction(Product(RefsOf(qs), StampsOf(qs)))
                     = SumFunction(Product(R, S)) + p.t_ref * p.t_node
               /\ SumFunction(Product(R, R)) \in Nat /\ SumFunction(Product(S, S)) \in Nat
               /\ SumFunction(Product(R, S)) \in Nat
               /\ Len(ps) = 0 => /\ SumFunction(Product(R, R)) = 0
                                 /\ SumFunction(Product(S, S)) = 0
                                 /\ SumFunction(Product(R, S)) = 0
<1> DEFINE qs == Append(ps, p)
           k == Len(ps)
           R == RefsOf(ps)
           S == StampsOf(ps)
           Q == RefsOf(qs)
           T == StampsOf(qs)
<1>1. /\ k \in Nat /\ R \in [1 .. k -> Nat] /\ Q \in [1 .. k + 1 -> Nat]
      /\ \A i \in 1 .. k : Q[i] = R[i]
      /\ Q[k + 1] = p.t_ref
  BY ColumnsGrow
<1>2. /\ S \in [1 .. k -> Nat] /\ T \in [1 .. k + 1 -> Nat]
      /\ \A i \in 1 .. k : T[i] = S[i]
      /\ T[k + 1] = p.t_node
  BY ColumnsGrow
<1> HIDE DEF k, R, S, Q, T
<1>3. \A i \in 1 .. k : Q[i] = R[i] /\ T[i] = S[i]
  BY <1>1, <1>2
<1>4. /\ SumFunction(Product(Q, Q)) = SumFunction(Product(R, R)) + p.t_ref * p.t_ref
      /\ SumFunction(Product(R, R)) \in Nat /\ (k = 0 => SumFunction(Product(R, R)) = 0)
  BY <1>1, ProductsGrow
<1>5. /\ SumFunction(Product(T, T)) = SumFunction(Product(S, S)) + p.t_node * p.t_node
      /\ SumFunction(Product(S, S)) \in Nat /\ (k = 0 => SumFunction(Product(S, S)) = 0)
  BY ZenonT(60), <1>1, <1>2, ProductsGrow
<1>6. /\ SumFunction(Product(Q, T)) = SumFunction(Product(R, S)) + p.t_ref * p.t_node
      /\ SumFunction(Product(R, S)) \in Nat /\ (k = 0 => SumFunction(Product(R, S)) = 0)
  BY ZenonT(60), <1>1, <1>2, <1>3, ProductsGrow
<1> QED  BY <1>4, <1>5, <1>6 DEF k, R, S, Q, T

-----------------------------------------------------------------------------
(***************************************************************************)
(* A packet more, seen by each of these parts.                             *)
(***************************************************************************)

\* The fit of k points whose means take the steps e and f when one more comes.
Grown(m, k, e, f) ==
    [n |-> k + 1, mean_ref |-> m.mean_ref + e, mean_node |-> m.mean_node + f,
     m_rr |-> m.m_rr + k * (k + 1) * (e * e), m_nn |-> m.m_nn + k * (k + 1) * (f * f),
     m_rn |-> m.m_rn + k * (k + 1) * (e * f)]

\* e and f are those steps for the point p.
Steps(m, k, p, e, f) ==
    Moves(k, m.mean_ref, p.t_ref, e) /\ Moves(k, m.mean_node, p.t_node, f)

LEMMA GrownFits ==
    ASSUME NEW m \in Fit, NEW k \in Nat, NEW e \in Int, NEW f \in Int
    PROVE  Grown(m, k, e, f) \in Fit
<1>1. \A x, y \in Int : x * y \in Int /\ x + y \in Int
  OBVIOUS
<1>2. m.mean_ref + e \in Int /\ m.mean_node + f \in Int
  BY DEF Fit
<1>3. k * (k + 1) \in Int /\ e * e \in Int /\ f * f \in Int /\ e * f \in Int
  BY <1>1
<1>4. /\ k * (k + 1) * (e * e) \in Int /\ k * (k + 1) * (f * f) \in Int
      /\ k * (k + 1) * (e * f) \in Int
  BY <1>1, <1>3
<1>5. /\ m.m_rr + k * (k + 1) * (e * e) \in Int /\ m.m_nn + k * (k + 1) * (f * f) \in Int
      /\ m.m_rn + k * (k + 1) * (e * f) \in Int
  BY <1>1, <1>4 DEF Fit
<1>6. k + 1 \in Nat
  OBVIOUS
<1> QED  BY <1>2, <1>5, <1>6 DEF Grown, Fit

\* Update takes just these steps, and leaves nothing of its divisions behind.
LEMMA UpdateGrows ==
    ASSUME NEW m \in Fit, NEW k \in Nat, m.n = k, NEW p \in Point, NEW e \in Int, NEW f \in Int,
           Steps(m, k, p, e, f)
    PROVE  Update(m, p.t_node, p.t_ref) = Grown(m, k, e, f)
<1> DEFINE a == Scale * p.t_ref
           b == Scale * p.t_node
<1>1. a \in Int /\ b \in Int
  BY ScaleAssumption DEF Point
<1>2. m.mean_ref \in Int /\ m.mean_node \in Int /\ k + 1 \in Nat \ {0}
  BY DEF Fit
<1>3. a - m.mean_ref = (k + 1) * e /\ b - m.mean_node = (k + 1) * f
  BY DEF Steps, Moves
<1> HIDE DEF a, b
<1>4. (a - m.mean_ref) \div (k + 1) = e /\ (b - m.mean_node) \div (k + 1) = f
  BY <1>2, <1>3, Exact
<1>5. a - (m.mean_ref + e) = k * e /\ b - (m.mean_node + f) = k * f
  <2> DEFINE ke == k * e
             kf == k * f
  <2>1. (k + 1) * e = ke + e /\ (k + 1) * f = kf + f /\ ke \in Int /\ kf \in Int
    OBVIOUS
  <2> HIDE DEF ke, kf
  <2>2. a - m.mean_ref = ke + e /\ b - m.mean_node = kf + f
    BY <1>3, <2>1
  <2>3. a - (m.mean_ref + e) = ke /\ b - (m.mean_node + f) = kf
    BY <1>1, <1>2, <2>1, <2>2
  <2> QED  BY <2>3 DEF ke, kf
<1>6. /\ ((k + 1) * e) * (k * e) = k * (k + 1) * (e * e)
      /\ ((k + 1) * f) * (k * f) = k * (k + 1) * (f * f)
      /\ ((k + 1) * e) * (k * f) = k * (k + 1) * (e * f)
  OBVIOUS
<1>7. /\ (a - m.mean_ref) * (a - (m.mean_ref + e)) = k * (k + 1) * (e * e)
      /\ (b - m.mean_node) * (b - (m.mean_node + f)) = k * (k + 1) * (f * f)
      /\ (a - m.mean_ref) * (b - (m.mean_node + f)) = k * (k + 1) * (e * f)
  BY <1>3, <1>5, <1>6
<1>8. Update(m, p.t_node, p.t_ref)
         = [n |-> k + 1, mean_ref |-> m.mean_ref + e, mean_node |-> m.mean_node + f,
            m_rr |-> m.m_rr + (a - m.mean_ref) * (a - (m.mean_ref + e)),
            m_nn |-> m.m_nn + (b - m.mean_node) * (b - (m.mean_node + f)),
            m_rn |-> m.m_rn + (a - m.mean_ref) * (b - (m.mean_node + f))]
  BY <1>4 DEF Update, a, b
<1> QED  BY <1>7, <1>8 DEF Grown

\* The fit of the points is the fit of one more, when the two numbers of points divide Scale.
LEMMA FitsStep ==
    ASSUME NEW m \in Fit, NEW ps \in Seq(Point), NEW p \in Point, Fits(m, ps),
           Len(ps) > 0 => Scale % Len(ps) = 0, Scale % (Len(ps) + 1) = 0
    PROVE  \E e, f \in Int : /\ Steps(m, Len(ps), p, e, f)
                             /\ Update(m, p.t_node, p.t_ref) = Grown(m, Len(ps), e, f)
                             /\ Fits(Grown(m, Len(ps), e, f), Append(ps, p))
<1> DEFINE qs == Append(ps, p)
           k == Len(ps)
           a == p.t_ref
           b == p.t_node
           A == SumFunction(RefsOf(ps))
           B == SumFunction(StampsOf(ps))
           Prr == SumFunction(Product(RefsOf(ps), RefsOf(ps)))
           Pnn == SumFunction(Product(StampsOf(ps), StampsOf(ps)))
           Prn == SumFunction(Product(RefsOf(ps), StampsOf(ps)))
<1>1. k \in Nat /\ Len(qs) = k + 1 /\ a \in Nat /\ b \in Nat
  BY PointAppended
<1>2. SumFunction(RefsOf(qs)) = A + a /\ SumFunction(StampsOf(qs)) = B + b
  BY RefsGrow
<1>3. A \in Nat /\ B \in Nat /\ (k = 0 => A = 0 /\ B = 0)
  BY RefsGrow
<1>4. /\ SumFunction(Product(RefsOf(qs), RefsOf(qs))) = Prr + a * a
      /\ SumFunction(Product(StampsOf(qs), StampsOf(qs))) = Pnn + b * b
      /\ SumFunction(Product(RefsOf(qs), StampsOf(qs))) = Prn + a * b
      /\ Prr \in Nat /\ Pnn \in Nat /\ Prn \in Nat
      /\ k = 0 => Prr = 0 /\ Pnn = 0 /\ Prn = 0
  BY ProductsOfPoints
<1>5. /\ m.mean_ref \in Int /\ m.mean_node \in Int
      /\ m.m_rr \in Int /\ m.m_nn \in Int /\ m.m_rn \in Int /\ Scale \in Int
  BY ScaleAssumption DEF Fit
<1>6. /\ m.n = k /\ Divided(k)
      /\ IsMean(k, m.mean_ref, A) /\ IsMean(k, m.mean_node, B)
      /\ IsMoment(k, m.m_rr, A, A, Prr) /\ IsMoment(k, m.m_nn, B, B, Pnn)
      /\ IsMoment(k, m.m_rn, A, B, Prn)
  BY DEF Fits, Divided
<1> HIDE DEF qs, k, a, b, A, B, Prr, Pnn, Prn
<1>7. A \in Int /\ B \in Int /\ a \in Int /\ b \in Int /\ Prr \in Int /\ Pnn \in Int /\ Prn \in Int
  BY <1>1, <1>3, <1>4
<1>8. PICK e \in Int : Moves(k, m.mean_ref, a, e) /\ IsMean(k + 1, m.mean_ref + e, A + a)
  BY <1>1, <1>5, <1>6, <1>7, MeanStep
<1>9. PICK f \in Int : Moves(k, m.mean_node, b, f) /\ IsMean(k + 1, m.mean_node + f, B + b)
  BY <1>1, <1>5, <1>6, <1>7, MeanStep
<1>10. IsMoment(k + 1, m.m_rr + k * (k + 1) * (e * e), A + a, A + a, Prr + a * a)
  BY <1>1, <1>5, <1>6, <1>7, <1>8, MomentStep
<1>11. IsMoment(k + 1, m.m_nn + k * (k + 1) * (f * f), B + b, B + b, Pnn + b * b)
  BY <1>1, <1>5, <1>6, <1>7, <1>9, MomentStep
<1>12. IsMoment(k + 1, m.m_rn + k * (k + 1) * (e * f), A + a, B + b, Prn + a * b)
  BY <1>1, <1>5, <1>6, <1>7, <1>8, <1>9, MomentStep
<1>13. Steps(m, k, p, e, f)
  BY <1>8, <1>9 DEF Steps, a, b
<1>14. Update(m, p.t_node, p.t_ref) = Grown(m, k, e, f)
  BY <1>1, <1>6, <1>13, UpdateGrows
<1>15. Fits(Grown(m, k, e, f), qs)
  <2> DEFINE g == Grown(m, k, e, f)
  <2>1. /\ g.n = k + 1 /\ g.mean_ref = m.mean_ref + e /\ g.mean_node = m.mean_node + f
        /\ g.m_rr = m.m_rr + k * (k + 1) * (e * e) /\ g.m_nn = m.m_nn + k * (k + 1) * (f * f)
        /\ g.m_rn = m.m_rn + k * (k + 1) * (e * f)
    BY DEF Grown
  <2>2. k + 1 # 0
    BY <1>1
  <2> HIDE DEF g
  <2>3. /\ IsMean(k + 1, g.mean_ref, A + a) /\ IsMean(k + 1, g.mean_node, B + b)
        /\ IsMoment(k + 1, g.m_rr, A + a, A + a, Prr + a * a)
        /\ IsMoment(k + 1, g.m_nn, B + b, B + b, Pnn + b * b)
        /\ IsMoment(k + 1, g.m_rn, A + a, B + b, Prn + a * b)
    BY <1>8, <1>9, <1>10, <1>11, <1>12, <2>1
  <2>4. Fits(g, qs)
    BY <1>1, <1>2, <1>4, <2>1, <2>2, <2>3 DEF Fits
  <2> QED  BY <2>4 DEF g
<1> QED  BY <1>13, <1>14, <1>15 DEF k, qs

\* Products of numbers of known sign.
LEMMA Signs ==
    ASSUME NEW k \in Nat, NEW e \in Int, NEW f \in Int
    PROVE  /\ k * (k + 1) * (e * f) \in Int
           /\ e >= 0 /\ f >= 0 => k * (k + 1) * (e * f) >= 0
           /\ e > 0 /\ f > 0 /\ k > 0 => k * (k + 1) * (e * f) > 0
           /\ k = 0 \/ e = 0 => k * (k + 1) * (e * f) = 0
           /\ k * (k + 1) * (e * e) >= 0
           /\ e # 0 /\ k > 0 => k * (k + 1) * (e * e) > 0
<1>1. \A x, y \in Int : /\ x * y \in Int
                        /\ x >= 0 /\ y >= 0 => x * y >= 0
                        /\ x > 0 /\ y > 0 => x * y > 0
                        /\ x * x >= 0 /\ (x # 0 => x * x > 0)
                        /\ 0 * x = 0 /\ x * 0 = 0
  BY SMT
<1>2. k * (k + 1) \in Int /\ k * (k + 1) >= 0 /\ (k > 0 => k * (k + 1) > 0)
  BY <1>1
<1>3. e * f \in Int /\ e * e \in Int
  BY <1>1
<1> DEFINE c == k * (k + 1)
<1>4. k = 0 => c = 0
  OBVIOUS
<1> HIDE DEF c
<1>5. c \in Int /\ c >= 0 /\ (k > 0 => c > 0)
  BY <1>2 DEF c
<1>6. c * (e * f) \in Int /\ (e >= 0 /\ f >= 0 => c * (e * f) >= 0)
  BY <1>1, <1>3, <1>5
<1>7. e > 0 /\ f > 0 /\ k > 0 => c * (e * f) > 0
  BY <1>1, <1>3, <1>5
<1>8. k = 0 \/ e = 0 => c * (e * f) = 0
  <2>1. CASE k = 0
    BY <1>1, <1>3, <1>4, <2>1
  <2>2. CASE e = 0
    <3>1. e * f = 0
      BY <1>1, <2>2
    <3> QED  BY <1>1, <1>5, <3>1
  <2> QED  BY <2>1, <2>2
<1>9. c * (e * e) >= 0
  BY <1>1, <1>3, <1>5
<1>10. e # 0 /\ k > 0 => c * (e * e) > 0
  BY <1>1, <1>3, <1>5
<1> QED  BY <1>6, <1>7, <1>8, <1>9, <1>10 DEF c

LEMMA SpreadStep ==
    ASSUME NEW m \in Fit, NEW ps \in Seq(Point), NEW p \in Point, NEW e \in Int, NEW f \in Int,
           Len(ps) = 0 => m = NoPoints, Spread(m, ps), Steps(m, Len(ps), p, e, f)
    PROVE  Spread(Grown(m, Len(ps), e, f), Append(ps, p))
<1> DEFINE qs == Append(ps, p)
           k == Len(ps)
           g == Grown(m, k, e, f)
           a == p.t_ref
           c == k * (k + 1) * (e * e)
<1>1. /\ k \in Nat /\ Len(qs) = k + 1 /\ qs[k + 1] = p
      /\ \A i \in 1 .. k : qs[i] = ps[i]
      /\ a \in Nat /\ \A i \in 1 .. k : ps[i].t_ref \in Nat
  BY PointAppended
<1>2. /\ m.mean_ref \in Int /\ m.m_rr \in Int /\ Scale \in Nat /\ Scale > 0
  BY ScaleAssumption DEF Fit
<1>3. g.m_rr = m.m_rr + c /\ g.mean_ref = m.mean_ref + e
  BY DEF Grown
<1>4. /\ c \in Int /\ c >= 0 /\ (k = 0 \/ e = 0 => c = 0) /\ (e # 0 /\ k > 0 => c > 0)
  BY <1>1, Signs
<1>5. Scale * a - m.mean_ref = (k + 1) * e
  BY DEF Steps, Moves
<1>6. /\ m.m_rr >= 0
      /\ m.m_rr > 0 <=> \E i, j \in 1 .. k : ps[i].t_ref # ps[j].t_ref
      /\ m.m_rr = 0 /\ k > 0 => m.mean_ref = Scale * ps[1].t_ref
  BY DEF Spread
<1>7. k = 0 => m.mean_ref = 0 /\ m.m_rr = 0
  BY DEF NoPoints
<1>8. Scale * a \in Int /\ g.m_rr \in Int
  BY <1>1, <1>2, <1>3, <1>4
<1> HIDE DEF c, qs, k, g, a
<1>9. CASE m.m_rr > 0
  <2>1. g.m_rr > 0
    BY <1>2, <1>3, <1>4, <1>9
  <2>2. PICK i, j \in 1 .. k : ps[i].t_ref # ps[j].t_ref
    BY <1>6, <1>9
  <2>3. i \in 1 .. k + 1 /\ j \in 1 .. k + 1 /\ qs[i].t_ref # qs[j].t_ref
    BY <1>1, <2>2
  <2>4. Spread(g, qs)
    BY <1>1, <1>8, <2>1, <2>3 DEF Spread
  <2> QED  BY <2>4 DEF g, qs, k
<1>10. CASE k = 0
  <2>1. g.m_rr = 0
    BY <1>3, <1>4, <1>7, <1>10
  <2>2. g.mean_ref = Scale * a
    BY <1>3, <1>5, <1>7, <1>8, <1>10
  <2>3. qs[1].t_ref = a /\ \A i \in 1 .. k + 1 : i = 1
    BY <1>1, <1>10 DEF a
  <2>4. Spread(g, qs)
    BY <1>1, <2>1, <2>2, <2>3 DEF Spread
  <2> QED  BY <2>4 DEF g, qs, k
<1>11. CASE k > 0 /\ ~(m.m_rr > 0)
  <2> DEFINE t == ps[1].t_ref
  <2>1. m.m_rr = 0 /\ m.mean_ref = Scale * t /\ t \in Nat /\ 1 \in 1 .. k
    BY <1>1, <1>2, <1>6, <1>11
  <2>2. \A i \in 1 .. k : ps[i].t_ref = t
    BY <1>6, <1>11, <2>1
  <2>3. qs[1].t_ref = t /\ qs[k + 1].t_ref = a /\ 1 \in 1 .. k + 1 /\ k + 1 \in 1 .. k + 1
    BY <1>1, <2>1 DEF a
  <2> HIDE DEF t
  <2>4. g.m_rr = c
    BY <1>3, <1>4, <2>1
  <2>5. CASE e = 0
    <3>1. g.m_rr = 0 /\ g.mean_ref = Scale * t
      BY <1>2, <1>3, <1>4, <2>1, <2>4, <2>5
    <3>2. a = t
      <4>1. (k + 1) * e = 0
        BY <1>1, <2>5
      <4>2. Scale * a = Scale * t /\ Scale * t \in Int
        BY <1>2, <1>5, <1>8, <2>1, <4>1
      <4>3. \A x, y \in Nat : Scale * x = Scale * y => x = y
        BY <1>2, SMT
      <4> QED  BY <1>1, <2>1, <4>2, <4>3 DEF a
    <3>3. \A i \in 1 .. k + 1 : qs[i].t_ref = t
      <4>1. \A i \in 1 .. k + 1 : i \in 1 .. k \/ i = k + 1
        BY <1>1
      <4> QED  BY <1>1, <2>2, <2>3, <3>2, <4>1
    <3>4. Spread(g, qs)
      BY <1>1, <2>3, <3>1, <3>3 DEF Spread
    <3> QED  BY <3>4 DEF g, qs, k
  <2>6. CASE e # 0
    <3>1. g.m_rr > 0
      BY <1>4, <1>11, <2>4, <2>6
    <3>2. a # t
      <4> SUFFICES ASSUME a = t PROVE FALSE
        OBVIOUS
      <4>1. (k + 1) * e = 0
        BY <1>5, <1>8, <2>1
      <4> QED  BY <1>1, <2>6, <4>1
    <3>3. Spread(g, qs)
      BY <1>1, <1>8, <2>3, <3>1, <3>2 DEF Spread
    <3> QED  BY <3>3 DEF g, qs, k
  <2> QED  BY <2>5, <2>6
<1>12. k > 0 \/ k = 0
  BY <1>1
<1> QED  BY <1>9, <1>10, <1>11, <1>12

LEMMA OnwardStep ==
    ASSUME NEW m \in Fit, NEW ps \in Seq(Point), NEW p \in Point, NEW e \in Int, NEW f \in Int,
           Len(ps) = 0 => m = NoPoints, Spread(m, ps), Onward(m, ps), Steps(m, Len(ps), p, e, f),
           \A i \in 1 .. Len(ps) : ps[i].t_ref <= p.t_ref
    PROVE  Onward(Grown(m, Len(ps), e, f), Append(ps, p))
<1> DEFINE qs == Append(ps, p)
           k == Len(ps)
           g == Grown(m, k, e, f)
           a == p.t_ref
           b == p.t_node
           last == ps[k]
<1>1. /\ k \in Nat /\ Len(qs) = k + 1 /\ qs[k + 1] = p
      /\ \A i \in 1 .. k : qs[i] = ps[i]
      /\ a \in Nat /\ b \in Nat /\ \A i \in 1 .. k : ps[i].t_ref \in Nat /\ ps[i].t_node \in Nat
  BY PointAppended
<1>2. /\ m.mean_ref \in Int /\ m.mean_node \in Int /\ m.m_rr \in Int /\ m.m_rn \in Int
      /\ Scale \in Nat /\ Scale > 0
  BY ScaleAssumption DEF Fit
<1>3. /\ g.m_rr = m.m_rr + k * (k + 1) * (e * e) /\ g.m_rn = m.m_rn + k * (k + 1) * (e * f)
      /\ g.mean_ref = m.mean_ref + e /\ g.mean_node = m.mean_node + f
  BY DEF Grown
<1>4. Scale * a - m.mean_ref = (k + 1) * e /\ Scale * b - m.mean_node = (k + 1) * f
  BY DEF Steps, Moves
<1>5. m.m_rr >= 0
  BY DEF Spread
<1>6. k = 0 => m.mean_ref = 0 /\ m.mean_node = 0 /\ m.m_rr = 0 /\ m.m_rn = 0
  BY DEF NoPoints
<1>7. Scale * a \in Int /\ Scale * b \in Int
  BY <1>1, <1>2
<1>8. \A i \in 1 .. k : ps[i].t_ref <= a
  OBVIOUS
<1>9. /\ \A i, j \in 1 .. k : i < j => ps[i].t_ref <= ps[j].t_ref
      /\ k > 0 => m.mean_ref <= Scale * last.t_ref
      /\ Rising(ps) => /\ k > 0 => m.mean_node <= Scale * last.t_node
                       /\ m.m_rn >= 0 /\ (m.m_rr > 0 => m.m_rn > 0)
  BY DEF Onward
<1>10. \A i \in 1 .. k + 1 : i \in 1 .. k \/ i = k + 1
  BY <1>1
<1>11. k > 0 => k \in 1 .. k
  BY <1>1
<1> HIDE DEF qs, g
<1>12. \A i, j \in 1 .. k + 1 : i < j => i \in 1 .. k
  BY <1>1
<1>13. \A i, j \in 1 .. k + 1 : i < j => qs[i].t_ref <= qs[j].t_ref
  BY <1>1, <1>8, <1>9, <1>10, <1>12
\* The mean is behind the last value it will have, and is not carried beyond it.
<1>14. \A x, y, s \in Int : y - x = (k + 1) * s => /\ x <= y => s >= 0 /\ x + s <= y
                                                   /\ x < y => s > 0
                                                   /\ k = 0 => x + s = y
  BY <1>1, SMT
<1>15. \A x, y \in Nat : /\ x <= y => Scale * x <= Scale * y
                         /\ x < y => Scale * x < Scale * y
                         /\ Scale * x \in Int
  BY <1>2, SMT
<1>16. e >= 0 /\ g.mean_ref <= Scale * a
  <2>1. CASE k = 0
    <3>1. m.mean_ref <= Scale * a
      BY <1>1, <1>2, <1>6, <2>1
    <3> QED  BY SMTT(30), <1>2, <1>3, <1>4, <1>7, <1>14, <3>1
  <2>2. CASE k > 0
    <3>1. last.t_ref \in Nat /\ last.t_ref <= a
      BY <1>1, <1>8, <1>11, <2>2
    <3>2. m.mean_ref <= Scale * last.t_ref /\ Scale * last.t_ref <= Scale * a
          /\ Scale * last.t_ref \in Int
      BY <1>1, <1>9, <1>15, <2>2, <3>1
    <3>3. m.mean_ref <= Scale * a
      BY <1>2, <1>7, <3>2
    <3> QED  BY SMTT(30), <1>2, <1>3, <1>4, <1>7, <1>14, <3>3
  <2> QED  BY <1>1, <2>1, <2>2
<1>17. ASSUME Rising(qs)
       PROVE  /\ g.mean_node <= Scale * b
              /\ g.m_rn >= 0 /\ (g.m_rr > 0 => g.m_rn > 0)
  <2>1. Rising(ps)
    <3>1. \A i \in 1 .. k : i \in 1 .. k + 1
      BY <1>1
    <3> QED  BY <1>1, <1>17, <3>1 DEF Rising
  <2>2. m.m_rn >= 0 /\ (m.m_rr > 0 => m.m_rn > 0)
    BY <1>9, <2>1
  <2>3. f >= 0 /\ g.mean_node <= Scale * b /\ (k > 0 => f > 0)
    <3>1. CASE k = 0
      <4>1. m.mean_node <= Scale * b
        BY <1>1, <1>2, <1>6, <3>1
      <4> QED  BY <1>2, <1>3, <1>4, <1>7, <1>14, <3>1, <4>1
    <3>2. CASE k > 0
      <4>1. last.t_node \in Nat /\ last.t_node < b
        <5>1. k \in 1 .. k + 1 /\ k + 1 \in 1 .. k + 1 /\ k < k + 1
          BY <1>1, <3>2
        <5>2. qs[k].t_node < qs[k + 1].t_node
          BY <1>1, <1>17, <5>1 DEF Rising
        <5> QED  BY <1>1, <1>11, <3>2, <5>2
      <4>2. m.mean_node <= Scale * last.t_node /\ Scale * last.t_node < Scale * b
            /\ Scale * last.t_node \in Int
        BY <1>1, <1>9, <1>15, <2>1, <3>2, <4>1
      <4>3. m.mean_node < Scale * b
        BY <1>2, <1>7, <4>2
      <4>4. f > 0 /\ m.mean_node + f <= Scale * b
        BY <1>2, <1>4, <1>7, <1>14, <4>3
      <4> QED  BY <1>3, <4>4
    <3> QED  BY <1>1, <3>1, <3>2
  <2> DEFINE c == k * (k + 1) * (e * e)
             d == k * (k + 1) * (e * f)
  <2>4. /\ c \in Int /\ d \in Int /\ d >= 0
        /\ e > 0 /\ f > 0 /\ k > 0 => d > 0
        /\ k = 0 \/ e = 0 => c = 0
    BY <1>1, <1>16, <2>3, Signs
  <2>5. g.m_rr = m.m_rr + c /\ g.m_rn = m.m_rn + d
    BY <1>3
  <2> HIDE DEF c, d, k, last
  <2>6. g.m_rn >= 0
    BY <1>2, <2>2, <2>4, <2>5
  <2>7. ASSUME g.m_rr > 0 PROVE g.m_rn > 0
    <3>1. CASE m.m_rr > 0
      BY <1>2, <2>2, <2>4, <2>5, <3>1
    <3>2. CASE ~(m.m_rr > 0)
      <4>1. c # 0
        BY <1>2, <1>5, <2>4, <2>5, <2>7, <3>2
      <4>2. k > 0 /\ e > 0
        BY <1>1, <1>16, <2>4, <4>1
      <4>3. d > 0
        BY <2>3, <2>4, <4>2
      <4> QED  BY <1>2, <2>2, <2>4, <2>5, <4>3
    <3> QED  BY <3>1, <3>2
  <2> QED  BY <2>3, <2>6, <2>7
<1> HIDE DEF k, a, b
<1>18. Onward(g, qs)
  BY <1>1, <1>13, <1>16, <1>17 DEF Onward, a, b
<1> QED  BY <1>18 DEF g, qs, k

\* The means u and v of k points lie on the line of a node's clock, dt a round and lag rounds late.
Lies(k, u, v, dt, lag) ==
    /\ k = 0 => u = 0 /\ v = 0
    /\ k > 0 => Tick * v = dt * (u - Scale * (lag * Tick))

\* The means of points on a line take their steps along the line.
LEMMA LineStep ==
    ASSUME NEW k \in Nat, NEW lag \in Int, NEW r \in Int, NEW dt \in Int,
           NEW u \in Int, NEW v \in Int, NEW e \in Int, NEW f \in Int,
           Moves(k, u, (r + lag) * Tick, e), Moves(k, v, r * dt, f),
           Lies(k, u, v, dt, lag)
    PROVE  (k > 0 => Tick * f = dt * e) /\ Lies(k + 1, u + e, v + f, dt, lag)
<1> DEFINE T == Tick
           S == Scale
<1>0. /\ S * ((r + lag) * T) - u = (k + 1) * e /\ S * (r * dt) - v = (k + 1) * f
      /\ k = 0 => u = 0 /\ v = 0
      /\ k > 0 => T * v = dt * (u - S * (lag * T))
  BY DEF Moves, Lies
<1>7. T \in Int /\ S \in Int
  BY ScaleAssumption, ClockAssumption
<1> HIDE DEF T, S
<1> DEFINE X == S * ((r + lag) * T)
           Y == S * (r * dt)
           L == S * (lag * T)
<1>1. T * Y = dt * (X - L)
  BY <1>7
<1>2. \A x, y \in Int : x * y \in Int
  OBVIOUS
<1>3. X \in Int /\ Y \in Int /\ L \in Int
  BY <1>2, <1>7
<1>4. X - u = (k + 1) * e /\ Y - v = (k + 1) * f /\ (k > 0 => T * v = dt * (u - L))
  BY <1>0
<1> HIDE DEF X, Y, L
<1>5. ASSUME k = 0 PROVE T * (v + f) = dt * ((u + e) - L)
  <2>1. u = 0 /\ v = 0 /\ (k + 1) * e = e /\ (k + 1) * f = f
    BY <1>0, <1>5
  <2>2. X = e /\ Y = f
    BY <1>3, <1>4, <2>1
  <2>3. T * f = dt * (e - L)
    BY <1>1, <2>2
  <2>4. v + f = f /\ (u + e) - L = e - L
    BY <1>3, <2>1
  <2> QED  BY <2>3, <2>4
<1>6. ASSUME k > 0 PROVE T * f = dt * e /\ T * (v + f) = dt * ((u + e) - L)
  <2>1. T * v = dt * (u - L)
    BY <1>4, <1>6
  <2>2. T * (Y - v) = dt * (X - u)
    <3>1. T * (Y - v) = T * Y - T * v /\ dt * (X - L) - dt * (u - L) = dt * (X - u)
      BY <1>3, <1>7
    <3>2. T * Y - T * v = dt * (X - L) - dt * (u - L)
      BY <1>1, <1>7, <2>1
    <3> QED  BY <3>1, <3>2
  <2>3. T * ((k + 1) * f) = dt * ((k + 1) * e)
    BY <1>4, <2>2
  <2>4. (k + 1) * (T * f) = (k + 1) * (dt * e)
    <3>1. T * ((k + 1) * f) = (k + 1) * (T * f) /\ dt * ((k + 1) * e) = (k + 1) * (dt * e)
      BY <1>7
    <3> QED  BY <2>3, <3>1
  <2>5. T * f = dt * e
    <3>1. \A x, y \in Int : (k + 1) * x = (k + 1) * y => x = y
      BY SMT
    <3>2. T * f \in Int /\ dt * e \in Int
      BY <1>2, <1>7
    <3> QED  BY <2>4, <3>1, <3>2
  <2>6. T * (v + f) = T * v + T * f /\ dt * ((u + e) - L) = dt * (u - L) + dt * e
    BY <1>3, <1>7
  <2> QED  BY <2>1, <2>5, <2>6
<1>8. k + 1 # 0 /\ (k = 0 \/ k > 0)
  OBVIOUS
<1> QED  BY <1>5, <1>6, <1>8 DEF Lies, L, S, T

LEMMA OnLineStep ==
    ASSUME NEW m \in Fit, NEW ps \in Seq(Point), NEW p \in Point, NEW e \in Int, NEW f \in Int,
           NEW dt \in Nat, NEW lag \in Nat,
           Len(ps) = 0 => m = NoPoints, OnLine(m, ps, dt, lag), Steps(m, Len(ps), p, e, f)
    PROVE  OnLine(Grown(m, Len(ps), e, f), Append(ps, p), dt, lag)
<1> DEFINE qs == Append(ps, p)
           k == Len(ps)
           g == Grown(m, k, e, f)
           r == p.round
           On(q) == q.t_ref = (q.round + lag) * Tick /\ q.t_node = q.round * dt
<1>1. /\ k \in Nat /\ Len(qs) = k + 1 /\ qs[k + 1] = p
      /\ \A i \in 1 .. k : qs[i] = ps[i]
      /\ r \in Nat
  BY PointAppended
<1>2. /\ m.mean_ref \in Int /\ m.mean_node \in Int /\ m.m_rr \in Int /\ m.m_rn \in Int
      /\ m.m_nn \in Int /\ Scale \in Int /\ Tick \in Int /\ dt \in Int /\ lag \in Int
  BY ScaleAssumption, ClockAssumption DEF Fit
<1>3. /\ g.m_rr = m.m_rr + k * (k + 1) * (e * e) /\ g.m_rn = m.m_rn + k * (k + 1) * (e * f)
      /\ g.m_nn = m.m_nn + k * (k + 1) * (f * f)
      /\ g.mean_ref = m.mean_ref + e /\ g.mean_node = m.mean_node + f
  BY DEF Grown
<1>4. Moves(k, m.mean_ref, p.t_ref, e) /\ Moves(k, m.mean_node, p.t_node, f)
  BY DEF Steps
<1>5. k = 0 => m.mean_ref = 0 /\ m.mean_node = 0 /\ m.m_rr = 0 /\ m.m_rn = 0 /\ m.m_nn = 0
  BY DEF NoPoints
<1>6. (\A i \in 1 .. k : On(ps[i]))
      => /\ k > 0 => Tick * m.mean_node = dt * (m.mean_ref - Scale * (lag * Tick))
         /\ Tick * m.m_rn = dt * m.m_rr /\ Tick * m.m_nn = dt * m.m_rn
  BY DEF OnLine
<1>7. SUFFICES ASSUME \A i \in 1 .. k + 1 : On(qs[i])
               PROVE  /\ Tick * g.mean_node = dt * (g.mean_ref - Scale * (lag * Tick))
                      /\ Tick * g.m_rn = dt * g.m_rr /\ Tick * g.m_nn = dt * g.m_rn
  <2> HIDE DEF g, qs, k
  <2> SUFFICES OnLine(g, qs, dt, lag)
    BY DEF g, qs, k
  <2> QED  BY <1>1 DEF OnLine
<1> HIDE DEF qs, g
<1>8. k + 1 \in 1 .. k + 1 /\ \A i \in 1 .. k : i \in 1 .. k + 1
  BY <1>1
<1>9. p.t_ref = (r + lag) * Tick /\ p.t_node = r * dt
  BY <1>1, <1>7, <1>8
<1>10. \A i \in 1 .. k : On(ps[i])
  BY <1>1, <1>7, <1>8
<1> HIDE DEF On
<1>11. Tick * m.m_rn = dt * m.m_rr /\ Tick * m.m_nn = dt * m.m_rn
       /\ (k > 0 => Tick * m.mean_node = dt * (m.mean_ref - Scale * (lag * Tick)))
  BY <1>6, <1>10
<1> DEFINE u == m.mean_ref
           v == m.mean_node
           L == Scale * (lag * Tick)
<1>12. Moves(k, u, (r + lag) * Tick, e) /\ Moves(k, v, r * dt, f)
  BY <1>4, <1>9
<1>13. u \in Int /\ v \in Int /\ r \in Int
  BY <1>1, <1>2
<1> HIDE DEF k
\* The means take their steps along the line.
<1>14. (k > 0 => Tick * f = dt * e) /\ Tick * (v + f) = dt * ((u + e) - L)
  <2>1. Lies(k, u, v, dt, lag)
    BY <1>5, <1>11 DEF Lies
  <2> HIDE DEF u, v, r, L
  <2>2. (k > 0 => Tick * f = dt * e) /\ Lies(k + 1, u + e, v + f, dt, lag)
    BY <1>1, <1>2, <1>12, <1>13, <2>1, LineStep
  <2>3. k + 1 > 0
    BY <1>1
  <2> QED  BY <2>2, <2>3 DEF Lies, L
<1> HIDE DEF u, v, L
<1>15. k = 0 \/ k > 0
  BY <1>1
<1>16. Tick * (k * (k + 1) * (e * f)) = dt * (k * (k + 1) * (e * e))
  <2>1. Tick * (k * (k + 1) * (e * f)) = k * (k + 1) * e * (Tick * f)
    BY <1>1, <1>2
  <2>2. dt * (k * (k + 1) * (e * e)) = k * (k + 1) * e * (dt * e)
    BY <1>1, <1>2
  <2>3. CASE k = 0
    BY <1>2, <2>3
  <2>4. CASE k > 0
    BY <1>14, <2>1, <2>2, <2>4
  <2> QED  BY <1>15, <2>3, <2>4
<1>17. Tick * (k * (k + 1) * (f * f)) = dt * (k * (k + 1) * (e * f))
  <2>1. Tick * (k * (k + 1) * (f * f)) = k * (k + 1) * f * (Tick * f)
    BY <1>1, <1>2
  <2>2. dt * (k * (k + 1) * (e * f)) = k * (k + 1) * f * (dt * e)
    BY <1>1, <1>2
  <2>3. CASE k = 0
    BY <1>2, <2>3
  <2>4. CASE k > 0
    BY <1>14, <2>1, <2>2, <2>4
  <2> QED  BY <1>15, <2>3, <2>4
<1> DEFINE ee == k * (k + 1) * (e * e)
           ef == k * (k + 1) * (e * f)
           ff == k * (k + 1) * (f * f)
<1>18. ee \in Int /\ ef \in Int /\ ff \in Int
  BY <1>1, Signs
<1>19. Tick * ef = dt * ee /\ Tick * ff = dt * ef
  BY <1>16, <1>17
<1>20. g.m_rr = m.m_rr + ee /\ g.m_rn = m.m_rn + ef /\ g.m_nn = m.m_nn + ff
  BY <1>3
<1> HIDE DEF ee, ef, ff
<1>21. Tick * g.m_rn = dt * g.m_rr /\ Tick * g.m_nn = dt * g.m_rn
  <2> DEFINE rr == m.m_rr
             rn == m.m_rn
             nn == m.m_nn
  <2>1. rr \in Int /\ rn \in Int /\ nn \in Int
    BY <1>2
  <2>2. Tick * rn = dt * rr /\ Tick * nn = dt * rn
    BY <1>11
  <2>3. g.m_rr = rr + ee /\ g.m_rn = rn + ef /\ g.m_nn = nn + ff
    BY <1>20
  <2> HIDE DEF rr, rn, nn
  <2>4. /\ Tick * (rn + ef) = Tick * rn + Tick * ef /\ dt * (rr + ee) = dt * rr + dt * ee
        /\ Tick * (nn + ff) = Tick * nn + Tick * ff /\ dt * (rn + ef) = dt * rn + dt * ef
    BY <1>2, <1>18, <2>1
  <2>5. Tick * (rn + ef) = dt * (rr + ee)
    BY <1>19, <2>2, <2>4
  <2>6. Tick * (nn + ff) = dt * (rn + ef)
    BY <1>19, <2>2, <2>4
  <2> QED  BY <2>3, <2>5, <2>6
<1>22. Tick * g.mean_node = dt * (g.mean_ref - L)
  <2>1. g.mean_node = v + f /\ g.mean_ref = u + e
    BY <1>3 DEF u, v
  <2>2. Tick * (v + f) = dt * ((u + e) - L)
    BY <1>14
  <2> QED  BY <2>1, <2>2
<1> QED  BY <1>21, <1>22 DEF L

LEMMA NearestExact ==
    ASSUME NEW q \in Int, NEW d \in Int, d > 0
    PROVE  Nearest(q * d, d) = q
<1>1. d \in Nat \ {0} /\ ~(d < 0)
  OBVIOUS
<1>2. q * d = d * q
  OBVIOUS
<1>3. (d * q) \div d = q
  BY <1>1, Exact
<1>4. (d * q) % d = 0
  BY <1>1, SMT
<1>5. (q * d) \div d = q /\ 2 * ((q * d) % d) < d
  BY <1>2, <1>3, <1>4
<1> QED  BY <1>1, <1>5 DEF Nearest

\* A fit on the line has the slope of the node's clock, no residual, and takes every block to
\* its place on the reference timeline but for the lag.
LEMMA LineExact ==
    ASSUME NEW m \in Fit, NEW dt \in Nat, dt > 0, NEW lag \in Nat, Ready(m),
           Tick * m.mean_node = dt * (m.mean_ref - Scale * (lag * Tick)),
           Tick * m.m_rn = dt * m.m_rr, Tick * m.m_nn = dt * m.m_rn
    PROVE  /\ Skew(m).num * Tick = Skew(m).den * dt
           /\ Residual(m) = 0
           /\ \A r \in Nat : ToRef(m, r * dt) = (r + lag) * Tick
<1> DEFINE u == m.mean_ref
           v == m.mean_node
           x == m.m_rr
           y == m.m_nn
           z == m.m_rn
<1>1. /\ u \in Int /\ v \in Int /\ x \in Int /\ y \in Int /\ z \in Int /\ x > 0
      /\ Tick \in Int /\ Tick > 0 /\ Scale \in Int /\ Scale > 0 /\ dt \in Int /\ lag \in Int
  BY ScaleAssumption, ClockAssumption DEF Fit, Ready
<1>2. Tick * v = dt * (u - Scale * (lag * Tick)) /\ Tick * z = dt * x /\ Tick * y = dt * z
  OBVIOUS
<1>3. Skew(m) = [num |-> z, den |-> x]
  BY DEF Skew
<1>4. /\ Residual(m) = y * x - z * z
      /\ \A t : ToRef(m, t) = IF z = 0 THEN t ELSE Nearest(u * z + (Scale * t - v) * x, Scale * z)
  BY <1>3 DEF Residual, ToRef
<1> HIDE DEF u, v, x, y, z
<1>5. \A b, c \in Int : /\ b * c \in Int
                        /\ b > 0 /\ c > 0 => b * c > 0
                        /\ Tick * b = Tick * c => b = c
                        /\ b * 0 = 0
  BY <1>1, SMT
<1>6. z > 0
  <2>1. dt * x > 0
    BY <1>1, <1>5
  <2>2. \A b \in Int : Tick * b > 0 => b > 0
    BY <1>1, SMT
  <2> QED  BY <1>1, <1>2, <2>1, <2>2
<1>7. z * Tick = x * dt
  <2>1. z * Tick = Tick * z /\ x * dt = dt * x
    BY <1>1
  <2> QED  BY <1>2, <2>1
<1>8. y * x = z * z
  <2>1. Tick * (y * x) = (Tick * y) * x /\ (dt * z) * x = z * (dt * x)
        /\ z * (Tick * z) = Tick * (z * z)
    BY <1>1
  <2>2. Tick * (y * x) = Tick * (z * z)
    BY <1>2, <2>1
  <2>3. y * x \in Int /\ z * z \in Int
    BY <1>1, <1>5
  <2> QED  BY <1>5, <2>2, <2>3
<1>9. ASSUME NEW r \in Nat
      PROVE  ToRef(m, r * dt) = (r + lag) * Tick
  <2> DEFINE D == (r + lag) * Tick
             N == u * z + (Scale * (r * dt) - v) * x
  <2>1. r \in Int
    OBVIOUS
  <2>2. Tick * N = u * (Tick * z) + (Tick * (Scale * (r * dt)) - Tick * v) * x
    BY <1>1, <2>1
  <2>3. Tick * N = u * (dt * x) + (Tick * (Scale * (r * dt)) - dt * (u - Scale * (lag * Tick))) * x
    BY <1>2, <2>2
  <2>4. u * (dt * x) + (Tick * (Scale * (r * dt)) - dt * (u - Scale * (lag * Tick))) * x
           = (D * Scale) * (dt * x)
    BY <1>1, <2>1
  <2>5. (D * Scale) * (Tick * z) = Tick * (D * (Scale * z))
    BY <1>1, <2>1
  <2>6. Tick * N = Tick * (D * (Scale * z))
    BY <1>2, <2>3, <2>4, <2>5
  <2>7. N \in Int /\ D \in Int /\ Scale * z \in Int /\ Scale * z > 0 /\ D * (Scale * z) \in Int
    BY <1>1, <1>5, <1>6, <2>1
  <2>8. ToRef(m, r * dt) = Nearest(N, Scale * z)
    BY <1>1, <1>4, <1>6
  <2> HIDE DEF N, D
  <2>9. N = D * (Scale * z)
    BY <1>5, <2>6, <2>7
  <2>10. Nearest(D * (Scale * z), Scale * z) = D
    BY <2>7, NearestExact
  <2> QED  BY <2>8, <2>9, <2>10 DEF D
<1> QED  BY <1>3, <1>4, <1>7, <1>8, <1>9, <1>1

-----------------------------------------------------------------------------
\* All that is kept of a node's fit and points.
Kept(m, ps) ==
    /\ m \in Fit /\ ps \in Seq(Point)
    /\ Fits(m, ps) /\ Spread(m, ps) /\ Onward(m, ps)
    /\ \A dt \in Nat, lag \in Nat : OnLine(m, ps, dt, lag)

LEMMA KeptAtFirst == Kept(NoPoints, <<>>)
<1> DEFINE ps == <<>>
<1>1. ps \in Seq(Point) /\ Len(ps) = 0 /\ 1 .. Len(ps) = {}
  BY EmptySeq
<1>2. NoPoints \in Fit
  BY DEF NoPoints, Fit
<1> HIDE DEF ps
<1>3. RefsOf(ps) \in [1 .. 0 -> Nat] /\ StampsOf(ps) \in [1 .. 0 -> Nat]
  BY <1>1 DEF RefsOf, StampsOf
<1>4. /\ Product(RefsOf(ps), RefsOf(ps)) \in [1 .. 0 -> Nat]
      /\ Product(StampsOf(ps), StampsOf(ps)) \in [1 .. 0 -> Nat]
      /\ Product(RefsOf(ps), StampsOf(ps)) \in [1 .. 0 -> Nat]
  BY <1>3 DEF Product
<1>5. \A f \in [1 .. 0 -> Nat] : SumFunction(f) = 0
  <2>1. IsFiniteSet(1 .. 0) /\ 0 \in Nat
    BY FS_Interval
  <2> SUFFICES ASSUME NEW f \in [1 .. 0 -> Nat] PROVE SumFunction(f) = 0
    OBVIOUS
  <2>2. 1 .. 0 = {}
    OBVIOUS
  <2> QED  BY <2>1, <2>2, SumType
<1>6. /\ SumFunction(RefsOf(ps)) = 0 /\ SumFunction(StampsOf(ps)) = 0
      /\ SumFunction(Product(RefsOf(ps), RefsOf(ps))) = 0
      /\ SumFunction(Product(StampsOf(ps), StampsOf(ps))) = 0
      /\ SumFunction(Product(RefsOf(ps), StampsOf(ps))) = 0
  BY <1>3, <1>4, <1>5
<1>7. \A x \in Int : 0 * x = 0 /\ x * 0 = 0
  OBVIOUS
<1>8. Fits(NoPoints, ps)
  <2>1. IsMean(0, 0, 0) /\ IsMoment(0, 0, 0, 0, 0)
    BY ScaleAssumption DEF IsMean, IsMoment
  <2> QED  BY <1>1, <1>6, <2>1 DEF Fits, NoPoints
<1>9. Spread(NoPoints, ps) /\ Onward(NoPoints, ps)
  BY <1>1 DEF Spread, Onward, NoPoints
<1>10. \A dt \in Nat, lag \in Nat : OnLine(NoPoints, ps, dt, lag)
  BY <1>1, ClockAssumption DEF OnLine, NoPoints
<1>11. Kept(NoPoints, ps)
  BY <1>1, <1>2, <1>8, <1>9, <1>10 DEF Kept
<1> QED  BY <1>11 DEF ps

LEMMA KeptStep ==
    ASSUME NEW m, NEW ps, NEW p \in Point, Kept(m, ps),
           Len(ps) > 0 => Scale % Len(ps) = 0, Scale % (Len(ps) + 1) = 0,
           \A i \in 1 .. Len(ps) : ps[i].t_ref <= p.t_ref
    PROVE  Kept(Update(m, p.t_node, p.t_ref), Append(ps, p))
<1>1. m \in Fit /\ ps \in Seq(Point) /\ Len(ps) \in Nat
  BY LenProperties DEF Kept
<1>2. Fits(m, ps) /\ Spread(m, ps) /\ Onward(m, ps)
  BY DEF Kept
<1>3. PICK e \in Int, f \in Int : /\ Steps(m, Len(ps), p, e, f)
                                  /\ Update(m, p.t_node, p.t_ref) = Grown(m, Len(ps), e, f)
                                  /\ Fits(Grown(m, Len(ps), e, f), Append(ps, p))
  BY <1>1, <1>2, FitsStep
<1>4. Len(ps) = 0 => m = NoPoints
  BY <1>2 DEF Fits
<1> DEFINE g == Grown(m, Len(ps), e, f)
           qs == Append(ps, p)
<1>5. g \in Fit /\ qs \in Seq(Point)
  BY <1>1, GrownFits, AppendProperties
<1>6. Spread(g, qs) /\ Onward(g, qs)
  BY <1>1, <1>2, <1>3, <1>4, SpreadStep, OnwardStep
<1>7. ASSUME NEW dt \in Nat, NEW lag \in Nat
      PROVE  OnLine(g, qs, dt, lag)
  <2>1. OnLine(m, ps, dt, lag)
    BY DEF Kept
  <2> QED  BY <1>1, <1>3, <1>4, <2>1, OnLineStep
<1> HIDE DEF g, qs
<1>8. Kept(g, qs)
  BY <1>3, <1>5, <1>6, <1>7 DEF Kept, g, qs
<1> QED  BY <1>3, <1>8 DEF g, qs

-----------------------------------------------------------------------------
(***************************************************************************)
(* The invariant.                                                          *)
(***************************************************************************)

\* The r-th frame of node n.
FrameOf(n, r) == [node |-> n, t_node |-> Emitted(r) * BlockDt[n], round |-> r,
                  heartbeat |-> Emitted(r + 1) = Emitted(r)]

OfNode(P, n) == {a \in P : a.frame.node = n}

\* The rounds in which frames were emitted.
Begun == IF pc = "deliver" /\ ~Exhausted THEN round + 1 ELSE round

\* The points that came with this lag only, and what the CSV then has of them.
Steady(ps, lag) == \A i \in 1 .. Len(ps) : ps[i].t_ref = (ps[i].round + lag) * Tick
WrittenOf(ps, i, lag) ==
    IF ps[i].t_ref = ps[1].t_ref THEN Blank ELSE (ps[i].round + lag) * Tick

\* The program never stands at the refusal.
Types ==
    /\ setup \in Setups
    /\ pc \in {"emit", "deliver", "drain", "done"}
    /\ round \in Nat /\ now \in Nat /\ doubled \in 0 .. MaxDoubled
    /\ DOMAIN fits = Nodes /\ DOMAIN points = Nodes
    /\ csv \in [Nodes -> Seq(Int)]
    /\ \A n \in Nodes : Len(csv[n]) = Len(points[n])
    /\ setup.program = "clocksync" => doubled = 0

\* What is on its way is what was emitted; of the clock-sync program's, of this round only.
Underway ==
    /\ IsFiniteSet(pending)
    /\ \A a \in pending : \E n \in Nodes, r \in 0 .. round : a.frame = FrameOf(n, r)
    /\ setup.program = "clocksync" =>
          /\ pc # "deliver" => pending = {}
          /\ pc = "deliver" => ~Exhausted
          /\ \A a \in pending : a.due \in Int /\ a.due >= round * Tick - setup.jitter

\* The rounds follow the blocks, and the reference clock follows the rounds.
Paced ==
    /\ round > 0 => Emitted(round - 1) < setup.blocks
    /\ setup.program = "clocksync" => now >= (round - 1) * Tick - setup.jitter
    /\ setup.program = "slice" => now >= round * Tick

\* A node has no more points than frames were sent and doubled.
Few == \A n \in Nodes : Len(points[n]) + Cardinality(OfNode(pending, n)) <= Begun + doubled

Fitted == \A n \in Nodes : Kept(fits[n], points[n])

\* Every point has its frame's time and came no later than now.
Stamped ==
    \A n \in Nodes : \A i \in PointsOf(n) :
        /\ points[n][i].t_node = Emitted(points[n][i].round) * BlockDt[n]
        /\ points[n][i].t_ref <= now

Written ==
    \A n \in Nodes, lag \in Nat :
        setup.heartbeat_every = 0 /\ Steady(points[n], lag)
        => \A i \in PointsOf(n) : csv[n][i] = WrittenOf(points[n], i, lag)

IInv == Types /\ Underway /\ Paced /\ Few /\ Fitted /\ Stamped /\ Written

-----------------------------------------------------------------------------
\* What is known of a setup.
LEMMA SetupType ==
    ASSUME NEW s \in Setups
    PROVE  /\ s.program \in {"clocksync", "slice"}
           /\ s.nodes \in Nat \ {0} /\ s.jitter \in Nat /\ s.blocks \in Nat
           /\ s.heartbeat_every \in Nat
           /\ s.program = "clocksync" => s.heartbeat_every = 0
           /\ \A n \in 1 .. s.nodes : BlockDt[n] \in Nat \ {0}
           /\ Tick \in Nat \ {0} /\ MaxDoubled \in Nat
  BY ClockAssumption

\* Quotient and remainder.
LEMMA Quotient ==
    ASSUME NEW r \in Nat, NEW d \in Nat \ {0}
    PROVE  /\ r \div d \in Nat /\ r % d \in 0 .. d - 1
           /\ r = d * (r \div d) + (r % d)
           /\ r \div d <= r
  BY SMT

LEMMA EmittedType ==
    ASSUME setup \in Setups, NEW r \in Nat
    PROVE  Emitted(r) \in Nat
<1>1. setup.heartbeat_every \in Nat
  BY SetupType
<1>2. CASE setup.heartbeat_every = 0
  BY <1>2 DEF Emitted
<1>3. CASE setup.heartbeat_every # 0
  <2> DEFINE d == setup.heartbeat_every + 1
  <2>1. d \in Nat \ {0}
    BY <1>1
  <2>2. Emitted(r) = r - r \div d
    BY <1>3 DEF Emitted
  <2> HIDE DEF d
  <2>3. r \div d \in Nat /\ r \div d <= r
    BY <2>1, Quotient
  <2> QED  BY <2>2, <2>3
<1> QED  BY <1>2, <1>3

\* As long as a node has a block left, no more rounds have begun than it can have points.
LEMMA RoundsOfBlocks ==
    ASSUME setup \in Setups, NEW r \in Nat, Emitted(r) < setup.blocks
    PROVE  r + 1 <= setup.blocks + Heartbeats(setup)
<1> DEFINE h == setup.heartbeat_every
           B == setup.blocks
<1>1. h \in Nat /\ B \in Nat
  BY SetupType
<1>2. CASE h = 0
  BY <1>1, <1>2 DEF Emitted, Heartbeats
<1>3. CASE h # 0
  <2> DEFINE q == r \div (h + 1)
             t == r % (h + 1)
             w == (B - 1) \div h
  <2>1. h + 1 \in Nat \ {0}
    BY <1>1
  <2>2. q \in Nat /\ t \in Nat /\ r = (h + 1) * q + t
    <3> DEFINE d == h + 1
    <3>1. d \in Nat \ {0}
      BY <2>1
    <3> HIDE DEF d
    <3>2. r \div d \in Nat /\ r % d \in 0 .. d - 1 /\ r = d * (r \div d) + (r % d)
      BY <3>1, Quotient
    <3>3. r % d \in Nat
      BY <3>1, <3>2
    <3> QED  BY <3>2, <3>3 DEF d
  <2>3. Emitted(r) = r - q
    BY <1>3 DEF Emitted
  <2> HIDE DEF q, t
  <2>4. (h + 1) * q = h * q + q /\ h * q \in Nat
    BY <1>1, <2>2
  <2>5. h * q + t < B
    BY <1>1, <2>2, <2>3, <2>4
  <2>6. B - 1 \in Nat /\ h \in Nat \ {0} /\ B # 0
    BY <1>1, <1>3, <2>2, <2>4, <2>5
  <2>7. w \in Nat /\ B - 1 < h * (w + 1)
    <3>1. w \in Nat /\ (B - 1) % h \in 0 .. h - 1 /\ B - 1 = h * w + ((B - 1) % h)
      BY <2>6, Quotient
    <3> HIDE DEF w
    <3>2. h * (w + 1) = h * w + h /\ h * w \in Nat
      BY <1>1, <3>1
    <3> QED  BY <1>1, <3>1, <3>2
  <2>8. Heartbeats(setup) = w
    BY <1>3, <2>6 DEF Heartbeats
  <2> HIDE DEF w
  <2>9. q <= w
    <3> SUFFICES ASSUME q >= w + 1 PROVE FALSE
      BY <2>2, <2>7
    <3>1. h * q >= h * (w + 1)
      <4>1. \A x, y \in Nat : x >= y => h * x >= h * y
        BY <1>1, SMT
      <4>2. w + 1 \in Nat
        BY <2>7
      <4> QED  BY <2>2, <4>1, <4>2
    <3>2. h * (w + 1) \in Nat
      BY <1>1, <2>7
    <3> QED  BY <1>1, <2>2, <2>4, <2>5, <2>7, <3>1, <3>2
  <2> QED  BY <1>1, <2>2, <2>4, <2>5, <2>7, <2>8, <2>9
<1> QED  BY <1>2, <1>3

LEMMA HeartbeatsType ==
    ASSUME NEW s \in Setups
    PROVE  Heartbeats(s) \in Nat
<1>1. s.blocks \in Nat /\ s.heartbeat_every \in Nat
  BY SetupType
<1>2. CASE s.heartbeat_every = 0 \/ s.blocks = 0
  BY <1>2 DEF Heartbeats
<1>3. CASE ~(s.heartbeat_every = 0 \/ s.blocks = 0)
  <2>1. s.blocks - 1 \in Nat /\ s.heartbeat_every \in Nat \ {0}
    BY <1>1, <1>3
  <2> QED  BY <1>3, <2>1, Quotient DEF Heartbeats
<1> QED  BY <1>2, <1>3

\* So the divisions of a packet more have no rest.
LEMMA Divisible ==
    ASSUME Types, Paced, Few, NEW n \in Nodes, NEW a \in pending, IsFiniteSet(pending),
           a.frame.node = n, Len(points[n]) \in Nat
    PROVE  /\ Len(points[n]) > 0 => Scale % Len(points[n]) = 0
           /\ Scale % (Len(points[n]) + 1) = 0
<1> DEFINE k == Len(points[n])
           M == MostPoints(setup)
           c == Cardinality(OfNode(pending, n))
<1>1. c \in Nat /\ c > 0
  <2>1. IsFiniteSet(OfNode(pending, n)) /\ OfNode(pending, n) # {}
    BY FS_Subset DEF OfNode
  <2> QED  BY <2>1, FS_EmptySet, FS_CardinalityType
<1>2. k + c <= Begun + doubled
  BY DEF Few
<1>3. /\ setup \in Setups /\ round \in Nat /\ doubled \in Nat /\ doubled <= MaxDoubled
      /\ setup.program = "clocksync" => doubled = 0
  BY ClockAssumption DEF Types
<1>4. setup.blocks \in Nat /\ Heartbeats(setup) \in Nat /\ MaxDoubled \in Nat
      /\ setup.program \in {"clocksync", "slice"}
  BY <1>3, SetupType, HeartbeatsType
<1>5. Begun \in Nat /\ Begun <= setup.blocks + Heartbeats(setup)
  <2>1. CASE pc = "deliver" /\ ~Exhausted
    <3>1. Emitted(round) < setup.blocks
      BY SMTT(30), <1>3, <1>4, <2>1, EmittedType DEF Exhausted
    <3> QED  BY <1>3, <2>1, <3>1, RoundsOfBlocks DEF Begun
  <2>2. CASE ~(pc = "deliver" /\ ~Exhausted)
    <3>1. Begun = round
      BY <2>2 DEF Begun
    <3>2. CASE round = 0
      BY <1>4, <3>1, <3>2
    <3>3. CASE round > 0
      <4>1. round - 1 \in Nat /\ Emitted(round - 1) < setup.blocks
        BY <1>3, <3>3 DEF Paced
      <4>2. (round - 1) + 1 <= setup.blocks + Heartbeats(setup)
        BY <1>3, <4>1, RoundsOfBlocks
      <4> QED  BY <1>3, <1>4, <3>1, <4>2
    <3> QED  BY <1>3, <3>2, <3>3
  <2> QED  BY <2>1, <2>2
<1>6. setup.blocks + Heartbeats(setup) + doubled <= M /\ M \in Nat
  BY <1>3, <1>4 DEF MostPoints
<1> HIDE DEF k, M, c
<1>7. k \in Nat
  BY DEF k
<1>8. k + 1 <= M
  BY <1>1, <1>2, <1>3, <1>4, <1>5, <1>6, <1>7
<1>9. k + 1 \in 1 .. M /\ (k > 0 => k \in 1 .. M)
  BY <1>6, <1>7, <1>8
<1> QED  BY <1>3, <1>9, ScaleDivides DEF k, M

\* A frame that is delivered is no longer under way.
LEMMA OneLess ==
    ASSUME NEW P, IsFiniteSet(P), NEW a \in P, NEW n
    PROVE  LET c == Cardinality(OfNode(P, n))
               d == Cardinality(OfNode(P \ {a}, n))
           IN  /\ c \in Nat /\ d \in Nat /\ IsFiniteSet(P \ {a})
               /\ d = IF a.frame.node = n THEN c - 1 ELSE c
<1>1. IsFiniteSet(OfNode(P, n)) /\ IsFiniteSet(P \ {a}) /\ IsFiniteSet(OfNode(P \ {a}, n))
  BY FS_Subset DEF OfNode
<1>2. Cardinality(OfNode(P, n)) \in Nat /\ Cardinality(OfNode(P \ {a}, n)) \in Nat
  BY <1>1, FS_CardinalityType
<1>3. CASE a.frame.node = n
  <2>1. OfNode(P \ {a}, n) = OfNode(P, n) \ {a} /\ a \in OfNode(P, n)
    BY <1>3 DEF OfNode
  <2> QED  BY <1>1, <1>2, <1>3, <2>1, FS_RemoveElement
<1>4. CASE a.frame.node # n
  <2>1. OfNode(P \ {a}, n) = OfNode(P, n)
    BY <1>4 DEF OfNode
  <2> QED  BY <1>1, <1>2, <1>4, <2>1
<1> QED  BY <1>3, <1>4

LEMMA NearestType ==
    ASSUME NEW a \in Int, NEW d \in Int, d # 0
    PROVE  Nearest(a, d) \in Int
<1>1. \A x \in Int, y \in Int : y > 0 => x \div y \in Int
  BY SMT
<1> DEFINE x == IF d < 0 THEN -a ELSE a
           y == IF d < 0 THEN -d ELSE d
<1>2. x \in Int /\ y \in Int /\ y > 0
  OBVIOUS
<1>3. Nearest(a, d) = x \div y \/ Nearest(a, d) = (x \div y) + 1
  BY DEF Nearest
<1> HIDE DEF x, y
<1>4. x \div y \in Int
  BY <1>1, <1>2
<1> QED  BY <1>3, <1>4

LEMMA ToRefType ==
    ASSUME NEW m \in Fit, NEW t \in Int
    PROVE  ToRef(m, t) \in Int
<1>1. /\ m.mean_ref \in Int /\ m.mean_node \in Int /\ m.m_rn \in Int /\ m.m_rr \in Int
      /\ Scale \in Int /\ Scale > 0
  BY ScaleAssumption DEF Fit
<1> DEFINE num == Skew(m).num
           den == Skew(m).den
<1>2. num \in Int /\ den \in Int
  BY <1>1 DEF Skew
<1> HIDE DEF num, den
<1>3. \A x, y \in Int : x * y \in Int /\ (x > 0 /\ y # 0 => x * y # 0)
  BY SMT
<1> DEFINE N == m.mean_ref * num + (Scale * t - m.mean_node) * den
<1>4. N \in Int
  BY <1>1, <1>2, <1>3
<1>5. num # 0 => Scale * num \in Int /\ Scale * num # 0
  BY <1>1, <1>2, <1>3
<1>6. ToRef(m, t) = IF num = 0 THEN t ELSE Nearest(N, Scale * num)
  BY DEF ToRef, num, den
<1> HIDE DEF N
<1>7. num # 0 => Nearest(N, Scale * num) \in Int
  BY <1>4, <1>5, NearestType
<1> QED  BY <1>6, <1>7

-----------------------------------------------------------------------------
(***************************************************************************)
(* The steps.                                                              *)
(***************************************************************************)

\* What the fit, points and column of node n become with the point p.
Taken(n, r, at, p, fit, col) ==
    /\ p = [t_node |-> Emitted(r) * BlockDt[n], t_ref |-> at, round |-> r]
    /\ fits' = [fits EXCEPT ![n] = fit]
    /\ points' = [points EXCEPT ![n] = Append(points[n], p)]
    /\ csv' = [csv EXCEPT ![n] = Append(csv[n], col)]
    /\ Kept(fit, Append(points[n], p))
    /\ \A lag \in Nat :
          setup.heartbeat_every = 0 /\ Steady(Append(points[n], p), lag)
          => \A i \in 1 .. Len(points[n]) + 1 :
                 Append(csv[n], col)[i] = WrittenOf(Append(points[n], p), i, lag)

LEMMA AcceptKeeps ==
    ASSUME Types, Fitted, Stamped, Written, NEW n \in Nodes, NEW r \in Nat, NEW at \in Nat,
           now <= at, Accept(FrameOf(n, r), at),
           Len(points[n]) > 0 => Scale % Len(points[n]) = 0, Scale % (Len(points[n]) + 1) = 0
    PROVE  \E p \in Point, fit \in Fit, col \in Int : Taken(n, r, at, p, fit, col)
<1> DEFINE dt == BlockDt[n]
           ps == points[n]
           k == Len(ps)
           p == [t_node |-> Emitted(r) * dt, t_ref |-> at, round |-> r]
           fit == Update(fits[n], p.t_node, at)
           qs == Append(ps, p)
           col == Column(fit, FrameOf(n, r))
<1>1. /\ fits' = [fits EXCEPT ![n] = fit]
      /\ points' = [points EXCEPT ![n] = qs]
      /\ csv' = [csv EXCEPT ![n] = Append(csv[n], col)]
  BY DEF Accept, FrameOf
<1>2. setup \in Setups /\ dt \in Nat \ {0}
  BY SetupType DEF Types, Nodes
<1>3. Emitted(r) \in Nat
  BY <1>2, EmittedType
<1>4. Emitted(r) * dt \in Nat
  BY <1>2, <1>3
<1>5. p \in Point
  BY <1>4 DEF Point
<1>6. Kept(fits[n], ps)
  BY DEF Fitted
<1>7. ps \in Seq(Point) /\ k \in Nat /\ \A i \in 1 .. k : ps[i].t_ref \in Nat
  <2>1. ps \in Seq(Point)
    BY <1>6 DEF Kept
  <2> QED  BY <1>5, <2>1, PointAppended
<1>8. \A i \in 1 .. k : ps[i].t_ref <= p.t_ref
  <2>1. \A i \in 1 .. k : ps[i].t_ref <= now
    BY DEF Stamped, PointsOf
  <2>2. now \in Nat
    BY DEF Types
  <2> QED  BY <1>7, <2>1, <2>2
<1>9. Kept(fit, qs)
  <2> HIDE DEF ps
  <2>1. (Len(ps) > 0 => Scale % Len(ps) = 0) /\ Scale % (Len(ps) + 1) = 0
    BY DEF ps
  <2>2. Kept(Update(fits[n], p.t_node, p.t_ref), Append(ps, p))
    BY <1>5, <1>6, <1>8, <2>1, KeptStep
  <2> QED  BY <2>2
<1>10. fit \in Fit /\ qs \in Seq(Point)
  BY <1>9 DEF Kept
<1>11. col \in Int
  <2> HIDE DEF fit
  <2>1. CASE Ready(fit) /\ ~FrameOf(n, r).heartbeat
    <3>1. col = ToRef(fit, Emitted(r) * dt)
      BY <2>1 DEF Column, FrameOf
    <3>2. \A t \in Int : ToRef(fit, t) \in Int
      BY <1>10, ToRefType
    <3>3. Emitted(r) * dt \in Int
      BY <1>4
    <3> QED  BY <3>1, <3>2, <3>3
  <2>2. CASE ~(Ready(fit) /\ ~FrameOf(n, r).heartbeat)
    BY <2>2 DEF Column, Blank
  <2> QED  BY <2>1, <2>2
<1>12. ASSUME NEW lag \in Nat, setup.heartbeat_every = 0, Steady(qs, lag),
              NEW i \in 1 .. k + 1
       PROVE  Append(csv[n], col)[i] = WrittenOf(qs, i, lag)
  <2>1. /\ Len(qs) = k + 1 /\ qs[k + 1] = p /\ \A j \in 1 .. k : qs[j] = ps[j]
        /\ \A j \in 1 .. k : j \in 1 .. k + 1
    BY <1>5, <1>7, PointAppended
  <2>2. csv[n] \in Seq(Int) /\ Len(csv[n]) = k
    BY DEF Types
  <2>3. Append(csv[n], col)[k + 1] = col /\ \A j \in 1 .. k : Append(csv[n], col)[j] = csv[n][j]
    BY <1>11, <2>2, AppendProperties
  <2> HIDE DEF col, qs, fit, ps
  <2>4. CASE i \in 1 .. k
    <3>1. Steady(ps, lag)
      BY <1>12, <2>1 DEF Steady
    <3>2. csv[n][i] = WrittenOf(ps, i, lag)
      BY <1>12, <2>4, <3>1 DEF Written, PointsOf, ps
    <3>3. 1 \in 1 .. k
      BY <1>7, <2>4
    <3>4. qs[i] = ps[i] /\ qs[1] = ps[1]
      BY <2>1, <2>4, <3>3
    <3> QED  BY <2>3, <2>4, <3>2, <3>4 DEF WrittenOf
  <2>5. CASE i = k + 1
    <3>1. Emitted(r) = r /\ Emitted(r + 1) = r + 1
      BY <1>12 DEF Emitted
    <3>2. FrameOf(n, r).t_node = r * dt /\ ~FrameOf(n, r).heartbeat
      <4>1. FrameOf(n, r).heartbeat = (Emitted(r + 1) = Emitted(r)) /\ r + 1 # r
        BY DEF FrameOf
      <4>2. FrameOf(n, r).t_node = Emitted(r) * dt
        BY DEF FrameOf
      <4> QED  BY <3>1, <4>1, <4>2
    <3>3. Fits(fit, qs) /\ Spread(fit, qs) /\ Onward(fit, qs) /\ OnLine(fit, qs, dt, lag)
      BY <1>2, <1>9 DEF Kept
    <3>4. fit.n = k + 1 /\ (fit.m_rr > 0 <=> \E j, l \in 1 .. k + 1 : qs[j].t_ref # qs[l].t_ref)
      BY <2>1, <3>3 DEF Fits, Spread
    <3>5. /\ \A j, l \in 1 .. k + 1 : j < l => qs[j].t_ref <= qs[l].t_ref
          /\ \A j \in 1 .. k + 1 : qs[j].t_ref \in Nat
      <4>1. \A j \in 1 .. k + 1 : qs[j] \in Point
        BY <1>10, <2>1, ElementOfSeq
      <4> QED  BY <2>1, <3>3, <4>1 DEF Onward, Point
    <3>6. 1 \in 1 .. k + 1 /\ k + 1 \in 1 .. k + 1
      BY <1>7
    <3>7. qs[k + 1].round = r /\ qs[k + 1].t_ref = at
      BY <2>1
    <3>8. CASE at = qs[1].t_ref
      <4>1. \A j \in 1 .. k + 1 : qs[j].t_ref = at
        <5> SUFFICES ASSUME NEW j \in 1 .. k + 1 PROVE qs[j].t_ref = at
          OBVIOUS
        <5>1. at <= qs[j].t_ref
          BY <3>5, <3>6, <3>8
        <5>2. qs[j].t_ref <= at
          BY <1>7, <3>5, <3>6, <3>7
        <5> QED  BY <3>5, <5>1, <5>2
      <4>2. ~Ready(fit)
        BY <3>4, <4>1 DEF Ready
      <4>3. col = Blank
        BY <4>2 DEF Column, col
      <4> QED  BY <2>3, <2>5, <3>7, <3>8, <4>3 DEF WrittenOf
    <3>9. CASE at # qs[1].t_ref
      <4>1. fit.m_rr > 0
        BY <3>4, <3>6, <3>7, <3>9
      <4>2. k + 1 # 1
        BY <3>7, <3>9
      <4>3. Ready(fit)
        BY <1>7, <3>4, <4>1, <4>2 DEF Ready
      <4>4. col = ToRef(fit, r * dt)
        BY <3>2, <4>3 DEF Column, col
      <4>5. \A j \in 1 .. k + 1 : /\ qs[j].t_ref = (qs[j].round + lag) * Tick
                                  /\ qs[j].t_node = qs[j].round * dt
        <5>1. \A j \in 1 .. k + 1 : qs[j].t_ref = (qs[j].round + lag) * Tick
          BY <1>12, <2>1 DEF Steady
        <5> SUFFICES ASSUME NEW j \in 1 .. k + 1 PROVE qs[j].t_node = qs[j].round * dt
          BY <5>1
        <5>2. CASE j \in 1 .. k
          <6>1. ps[j].t_node = Emitted(ps[j].round) * dt
            BY <5>2 DEF Stamped, PointsOf, ps
          <6>2. Emitted(ps[j].round) = ps[j].round
            BY <1>12 DEF Emitted
          <6> QED  BY <2>1, <5>2, <6>1, <6>2
        <5>3. CASE j = k + 1
          BY <2>1, <3>1, <5>3
        <5> QED  BY <1>7, <5>2, <5>3
      <4>6. /\ Tick * fit.mean_node = dt * (fit.mean_ref - Scale * (lag * Tick))
            /\ Tick * fit.m_rn = dt * fit.m_rr /\ Tick * fit.m_nn = dt * fit.m_rn
        <5>1. Len(qs) > 0
          BY <1>7, <2>1
        <5> QED  BY <2>1, <3>3, <4>5, <5>1 DEF OnLine
      <4>7. ToRef(fit, r * dt) = (r + lag) * Tick
        <5>1. dt \in Nat /\ dt > 0
          BY <1>2
        <5> HIDE DEF dt
        <5>2. \A t \in Nat : ToRef(fit, t * dt) = (t + lag) * Tick
          BY <1>10, <4>3, <4>6, <5>1, LineExact
        <5> QED  BY <5>2
      <4> QED  BY <2>3, <2>5, <3>7, <3>9, <4>4, <4>7 DEF WrittenOf
    <3> QED  BY <3>8, <3>9
  <2>6. i \in 1 .. k \/ i = k + 1
    <3> HIDE DEF k
    <3> QED  BY <1>7
  <2> QED  BY <2>4, <2>5, <2>6
<1> HIDE DEF fit, col
<1>13. Taken(n, r, at, p, fit, col)
  BY <1>1, <1>9, <1>12 DEF Taken
<1> QED  BY <1>5, <1>10, <1>11, <1>13

\* The setup is never changed, so neither is what a node emits.
LEMMA SameSetup ==
    ASSUME setup' = setup
    PROVE  /\ Nodes' = Nodes
           /\ \A r : Emitted(r)' = Emitted(r)
           /\ \A n, r : FrameOf(n, r)' = FrameOf(n, r)
<1>1. \A r : Emitted(r)' = Emitted(r)
  BY DEF Emitted
<1> QED  BY <1>1 DEF Nodes, FrameOf

\* What a step that accepts nothing leaves alone.
LEMMA Idle ==
    ASSUME IInv, UNCHANGED <<setup, fits, points, csv>>, now' \in Nat, now <= now'
    PROVE  Fitted' /\ Stamped' /\ Written'
<1>1. Nodes' = Nodes /\ \A r : Emitted(r)' = Emitted(r)
  BY SameSetup
<1>2. Fitted'
  BY <1>1 DEF IInv, Fitted
<1>3. Stamped'
  <2> SUFFICES ASSUME NEW n \in Nodes, NEW i \in PointsOf(n)
               PROVE  /\ points[n][i].t_node = Emitted(points[n][i].round) * BlockDt[n]
                      /\ points[n][i].t_ref <= now'
    BY <1>1 DEF Stamped, PointsOf
  <2>1. /\ points[n][i].t_node = Emitted(points[n][i].round) * BlockDt[n]
        /\ points[n][i].t_ref <= now
    BY DEF IInv, Stamped
  <2>2. points[n] \in Seq(Point)
    BY DEF IInv, Fitted, Kept
  <2>3. points[n][i].t_ref \in Nat
    <3>1. points[n][i] \in Point
      BY <2>2, ElementOfSeq DEF PointsOf
    <3> QED  BY <3>1 DEF Point
  <2>4. now \in Nat
    BY DEF IInv, Types
  <2> QED  BY <2>1, <2>3, <2>4
<1>4. Written'
  BY <1>1 DEF IInv, Written, PointsOf
<1> QED  BY <1>2, <1>3, <1>4

\* The delivery of a frame that is under way.
LEMMA Delivery ==
    ASSUME IInv, NEW a \in pending, pending' = pending \ {a}, NEW at \in Nat, now <= at, now' = at,
           Accept(a.frame, at), setup' = setup
    PROVE  /\ DOMAIN fits' = Nodes /\ DOMAIN points' = Nodes
           /\ csv' \in [Nodes -> Seq(Int)]
           /\ \A n \in Nodes : Len(csv'[n]) = Len(points'[n])
           /\ IsFiniteSet(pending')
           /\ \A n \in Nodes : Len(points'[n]) + Cardinality(OfNode(pending', n))
                                  <= Len(points[n]) + Cardinality(OfNode(pending, n))
           /\ Fitted' /\ Stamped' /\ Written'
<1>1. Types /\ Underway /\ Paced /\ Few /\ Fitted /\ Stamped /\ Written
  BY DEF IInv
<1>2. IsFiniteSet(pending) /\ round \in Nat
  BY <1>1 DEF Underway, Types
<1>3. PICK n \in Nodes : \E r \in 0 .. round : a.frame = FrameOf(n, r)
  BY <1>1 DEF Underway
<1>4. PICK r \in 0 .. round : a.frame = FrameOf(n, r)
  BY <1>3
<1>5. r \in Nat /\ a.frame.node = n
  BY <1>2, <1>4 DEF FrameOf
<1>6. \A x \in Nodes : points[x] \in Seq(Point) /\ Len(points[x]) \in Nat
  <2>1. \A x \in Nodes : points[x] \in Seq(Point)
    BY <1>1 DEF Fitted, Kept
  <2> QED  BY <2>1, LenProperties
<1>7. PICK p \in Point, fit \in Fit, col \in Int : Taken(n, r, at, p, fit, col)
  <2>1. /\ Len(points[n]) > 0 => Scale % Len(points[n]) = 0
        /\ Scale % (Len(points[n]) + 1) = 0
    BY <1>1, <1>2, <1>5, <1>6, Divisible
  <2>2. Accept(FrameOf(n, r), at)
    BY <1>4
  <2>3. Types /\ Fitted /\ Stamped /\ Written /\ now <= at
    BY <1>1
  <2> QED  BY <1>5, <2>1, <2>2, <2>3, AcceptKeeps
<1> DEFINE qs == Append(points[n], p)
           column == Append(csv[n], col)
<1>8. /\ fits' = [fits EXCEPT ![n] = fit]
      /\ points' = [points EXCEPT ![n] = qs]
      /\ csv' = [csv EXCEPT ![n] = column]
      /\ Kept(fit, qs)
      /\ \A lag \in Nat : setup.heartbeat_every = 0 /\ Steady(qs, lag)
                          => \A i \in 1 .. Len(points[n]) + 1 : column[i] = WrittenOf(qs, i, lag)
  BY <1>7 DEF Taken
<1>9. /\ qs \in Seq(Point) /\ Len(qs) = Len(points[n]) + 1 /\ qs[Len(points[n]) + 1] = p
      /\ \A i \in 1 .. Len(points[n]) : qs[i] = points[n][i]
  BY <1>6, <1>8, PointAppended
<1>10. /\ DOMAIN fits = Nodes /\ DOMAIN points = Nodes /\ csv \in [Nodes -> Seq(Int)]
      /\ \A x \in Nodes : Len(csv[x]) = Len(points[x])
  BY <1>1 DEF Types
<1>11. column \in Seq(Int) /\ Len(column) = Len(points[n]) + 1
  <2>1. csv[n] \in Seq(Int) /\ Len(csv[n]) = Len(points[n])
    BY <1>10
  <2> QED  BY <1>8, <2>1, AppendProperties
<1>12. Nodes' = Nodes /\ \A x : Emitted(x)' = Emitted(x)
  BY SameSetup
<1>13. p.t_node = Emitted(p.round) * BlockDt[n] /\ p.t_ref = at
  BY <1>7 DEF Taken
<1> HIDE DEF qs, column
<1>14. /\ fits'[n] = fit /\ points'[n] = qs /\ csv'[n] = column
       /\ \A x \in Nodes \ {n} : fits'[x] = fits[x] /\ points'[x] = points[x] /\ csv'[x] = csv[x]
       /\ DOMAIN fits' = Nodes /\ DOMAIN points' = Nodes
  BY <1>8, <1>10
<1>15. csv' \in [Nodes -> Seq(Int)]
  BY <1>8, <1>10, <1>11
<1>16. ASSUME NEW x \in Nodes PROVE Len(csv'[x]) = Len(points'[x])
  <2>1. CASE x = n
    BY <1>9, <1>11, <1>14, <2>1
  <2>2. CASE x # n
    BY <1>10, <1>14, <2>2
  <2> QED  BY <2>1, <2>2
<1>17. ASSUME NEW x \in Nodes
       PROVE  Len(points'[x]) + Cardinality(OfNode(pending', x))
                 <= Len(points[x]) + Cardinality(OfNode(pending, x))
  <2> DEFINE c == Cardinality(OfNode(pending, x))
             d == Cardinality(OfNode(pending', x))
  <2>1. c \in Nat /\ d \in Nat /\ d = IF a.frame.node = x THEN c - 1 ELSE c
    BY <1>2, OneLess
  <2> HIDE DEF c, d
  <2>2. CASE x = n
    <3>1. d = c - 1 /\ Len(points'[x]) = Len(points[x]) + 1
      BY <1>5, <1>9, <1>14, <2>1, <2>2
    <3> QED  BY <1>6, <2>1, <3>1 DEF c, d
  <2>3. CASE x # n
    <3>1. d = c /\ points'[x] = points[x]
      BY <1>5, <1>14, <2>1, <2>3
    <3>2. Len(points'[x]) + d <= Len(points[x]) + c
      BY <1>6, <2>1, <3>1
    <3> QED  BY <3>2 DEF c, d
  <2> QED  BY <2>2, <2>3
<1>18. IsFiniteSet(pending')
  BY <1>2, FS_RemoveElement
<1>19. Fitted'
  <2> SUFFICES ASSUME NEW x \in Nodes PROVE Kept(fits'[x], points'[x])
    BY <1>12 DEF Fitted
  <2>1. CASE x = n
    BY <1>8, <1>14, <2>1
  <2>2. CASE x # n
    BY <1>1, <1>14, <2>2 DEF Fitted
  <2> QED  BY <2>1, <2>2
<1>20. Stamped'
  <2> SUFFICES ASSUME NEW x \in Nodes, NEW i \in 1 .. Len(points'[x])
               PROVE  /\ points'[x][i].t_node = Emitted(points'[x][i].round) * BlockDt[x]
                      /\ points'[x][i].t_ref <= at
    BY <1>12 DEF Stamped, PointsOf
  <2>1. ASSUME NEW j \in 1 .. Len(points[x])
        PROVE  /\ points[x][j].t_node = Emitted(points[x][j].round) * BlockDt[x]
               /\ points[x][j].t_ref <= at
    <3>1. /\ points[x][j].t_node = Emitted(points[x][j].round) * BlockDt[x]
          /\ points[x][j].t_ref <= now
      BY <1>1 DEF Stamped, PointsOf
    <3>2. points[x][j].t_ref \in Nat
      <4>1. points[x][j] \in Point
        BY <1>6, ElementOfSeq
      <4> QED  BY <4>1 DEF Point
    <3>3. now \in Nat
      BY <1>1 DEF Types
    <3> QED  BY <3>1, <3>2, <3>3
  <2>2. CASE x # n
    BY <1>14, <2>1, <2>2
  <2>3. CASE x = n /\ i \in 1 .. Len(points[n])
    BY <1>9, <1>14, <2>1, <2>3
  <2>4. CASE x = n /\ i = Len(points[n]) + 1
    BY <1>9, <1>13, <1>14, <2>4
  <2>5. x = n => i \in 1 .. Len(points[n]) \/ i = Len(points[n]) + 1
    BY <1>6, <1>9, <1>14
  <2> QED  BY <2>2, <2>3, <2>4, <2>5
<1>21. Written'
  <2> SUFFICES ASSUME NEW x \in Nodes, NEW lag \in Nat, setup.heartbeat_every = 0,
                      Steady(points'[x], lag), NEW i \in 1 .. Len(points'[x])
               PROVE  csv'[x][i] = WrittenOf(points'[x], i, lag)
    BY <1>12 DEF Written, PointsOf
  <2>1. CASE x = n
    BY <1>8, <1>9, <1>14, <2>1
  <2>2. CASE x # n
    <3>1. points'[x] = points[x] /\ csv'[x] = csv[x]
      BY <1>14, <2>2
    <3>2. csv[x][i] = WrittenOf(points[x], i, lag)
      BY <1>1, <3>1 DEF Written, PointsOf
    <3> QED  BY <3>1, <3>2
  <2> QED  BY <2>1, <2>2
<1> QED  BY <1>14, <1>15, <1>16, <1>17, <1>18, <1>19, <1>20, <1>21

\* The values of a function on a finite set are finitely many.
LEMMA ImageFinite ==
    ASSUME NEW S, IsFiniteSet(S), NEW f
    PROVE  IsFiniteSet({f[x] : x \in S})
<1> DEFINE T == {f[x] : x \in S}
           g == [x \in S |-> f[x]]
<1>1. g \in [S -> T] /\ \A t \in T : \E x \in S : g[x] = t
  OBVIOUS
<1> HIDE DEF T, g
<1>2. g \in Surjection(S, T)
  BY <1>1 DEF Surjection
<1>3. IsFiniteSet(T)
  BY <1>2, FS_Surjection
<1> QED  BY <1>3 DEF T

\* One element more.
LEMMA UnionOne ==
    ASSUME NEW S, IsFiniteSet(S), NEW x
    PROVE  /\ IsFiniteSet(S \union {x}) /\ Cardinality(S \union {x}) \in Nat
           /\ Cardinality(S \union {x}) <= Cardinality(S) + 1
<1>1. Cardinality(S) \in Nat
  BY FS_CardinalityType
<1>2. /\ IsFiniteSet(S \union {x})
      /\ Cardinality(S \union {x}) = IF x \in S THEN Cardinality(S) ELSE Cardinality(S) + 1
  BY FS_AddElement
<1> QED  BY <1>1, <1>2

\* What was few enough and has not become more still is.
LEMMA NoMore ==
    ASSUME Nodes' = Nodes, NEW limit \in Nat,
           \A n \in Nodes : Len(points[n]) \in Nat /\ Cardinality(OfNode(pending, n)) \in Nat,
           Fitted', IsFiniteSet(pending'),
           \A n \in Nodes : Len(points'[n]) + Cardinality(OfNode(pending', n))
                               <= Len(points[n]) + Cardinality(OfNode(pending, n)),
           \A n \in Nodes : Len(points[n]) + Cardinality(OfNode(pending, n)) <= limit,
           limit = Begun' + doubled'
    PROVE  Few'
<1> SUFFICES ASSUME NEW n \in Nodes
             PROVE  Len(points'[n]) + Cardinality(OfNode(pending', n)) <= limit
  BY DEF Few
<1>1. Len(points'[n]) \in Nat
  <2>1. points'[n] \in Seq(Point)
    BY DEF Fitted, Kept
  <2> QED  BY <2>1, LenProperties
<1>2. Cardinality(OfNode(pending', n)) \in Nat
  BY FS_Subset, FS_CardinalityType DEF OfNode
<1> DEFINE c == Cardinality(OfNode(pending', n))
           d == Cardinality(OfNode(pending, n))
           l == Len(points[n])
<1>3. Len(points'[n]) + c <= l + d /\ l + d <= limit /\ l \in Nat /\ d \in Nat /\ c \in Nat
  BY <1>2
<1> HIDE DEF c, d, l
<1> QED  BY <1>1, <1>3 DEF c

LEMMA Initially == Init => IInv
<1> SUFFICES ASSUME Init PROVE IInv
  OBVIOUS
<1>1. /\ setup \in Setups /\ pc = "emit" /\ round = 0 /\ now = 0 /\ pending = {} /\ doubled = 0
      /\ fits = [n \in Nodes |-> NoPoints]
      /\ points = [n \in Nodes |-> <<>>]
      /\ csv = [n \in Nodes |-> <<>>]
  BY DEF Init
<1>2. setup.jitter \in Nat /\ Tick \in Nat /\ MaxDoubled \in Nat
  BY <1>1, SetupType
<1>3. \A n \in Nodes : fits[n] = NoPoints /\ points[n] = <<>> /\ csv[n] = <<>>
  BY <1>1
<1>4. \A n \in Nodes : Len(points[n]) = 0 /\ PointsOf(n) = {}
  <2>1. Len(<<>>) = 0 /\ 1 .. 0 = {}
    OBVIOUS
  <2> QED  BY <1>3, <2>1 DEF PointsOf
<1>5. Types
  <2>1. csv \in [Nodes -> Seq(Int)]
    <3>1. <<>> \in Seq(Int)
      BY EmptySeq
    <3> QED  BY <1>1, <3>1
  <2>2. 0 \in 0 .. MaxDoubled
    BY <1>2
  <2> QED  BY <1>1, <1>3, <2>1, <2>2 DEF Types
<1>6. Underway
  <2>1. IsFiniteSet(pending)
    BY <1>1, FS_EmptySet
  <2> QED  BY <1>1, <2>1 DEF Underway
<1>7. Paced
  <2>1. 0 >= (0 - 1) * Tick - setup.jitter /\ 0 >= 0 * Tick
    BY <1>2
  <2> QED  BY <1>1, <2>1 DEF Paced
<1>8. Few
  <2>1. \A n : OfNode(pending, n) = {}
    BY <1>1 DEF OfNode
  <2>2. Cardinality({}) = 0
    BY FS_EmptySet
  <2>3. Begun = 0
    BY <1>1 DEF Begun
  <2>4. \A n \in Nodes : Cardinality(OfNode(pending, n)) = 0
    BY <2>1, <2>2
  <2>5. \A n \in Nodes : Len(points[n]) + Cardinality(OfNode(pending, n)) = 0
    BY <1>4, <2>4
  <2> QED  BY <1>1, <2>3, <2>5 DEF Few
<1>9. Fitted
  BY <1>3, KeptAtFirst DEF Fitted
<1>10. Stamped /\ Written
  BY <1>4 DEF Stamped, Written
<1> QED  BY <1>5, <1>6, <1>7, <1>8, <1>9, <1>10 DEF IInv

\* The numbers of a state.
LEMMA Numbers ==
    ASSUME IInv
    PROVE  /\ setup \in Setups /\ round \in Nat /\ now \in Nat /\ doubled \in Nat
           /\ Tick \in Nat \ {0} /\ MaxDoubled \in Nat /\ setup.jitter \in Nat /\ setup.blocks \in Nat
           /\ setup.program \in {"clocksync", "slice"} /\ Nodes = 1 .. setup.nodes
           /\ setup.nodes \in Nat /\ IsFiniteSet(Nodes) /\ IsFiniteSet(pending)
           /\ Begun \in Nat /\ Emitted(round) \in Nat
           /\ \A n \in Nodes : Len(points[n]) \in Nat
           /\ \A n : Cardinality(OfNode(pending, n)) \in Nat /\ IsFiniteSet(OfNode(pending, n))
<1>1. setup \in Setups /\ round \in Nat /\ now \in Nat /\ doubled \in 0 .. MaxDoubled
  BY DEF IInv, Types
<1>2. /\ Tick \in Nat \ {0} /\ MaxDoubled \in Nat /\ setup.jitter \in Nat /\ setup.blocks \in Nat
      /\ setup.program \in {"clocksync", "slice"} /\ setup.nodes \in Nat
  BY <1>1, SetupType
<1>3. Nodes = 1 .. setup.nodes /\ IsFiniteSet(Nodes)
  <2>1. IsFiniteSet(1 .. setup.nodes)
    BY <1>2, FS_Interval
  <2> QED  BY <2>1 DEF Nodes
<1>4. IsFiniteSet(pending)
  BY DEF IInv, Underway
<1>5. \A n : Cardinality(OfNode(pending, n)) \in Nat /\ IsFiniteSet(OfNode(pending, n))
  BY <1>4, FS_Subset, FS_CardinalityType DEF OfNode
<1>6. \A n \in Nodes : Len(points[n]) \in Nat
  <2>1. \A n \in Nodes : points[n] \in Seq(Point)
    BY DEF IInv, Fitted, Kept
  <2> QED  BY <2>1, LenProperties
<1>7. Begun \in Nat /\ doubled \in Nat
  BY <1>1, <1>2 DEF Begun
<1>8. Emitted(round) \in Nat
  BY <1>1, EmittedType
<1> QED  BY <1>1, <1>2, <1>3, <1>4, <1>5, <1>6, <1>7, <1>8

LEMMA EmitJitteredKeeps ==
    ASSUME IInv, EmitJittered
    PROVE  IInv'
<1>1. /\ setup.program = "clocksync" /\ pc = "emit" /\ ~Exhausted /\ pc' = "deliver"
      /\ setup' = setup /\ round' = round /\ now' = now /\ doubled' = doubled
      /\ fits' = fits /\ points' = points /\ csv' = csv
  BY DEF EmitJittered
<1>2. PICK jitter \in [Nodes -> (-setup.jitter) .. setup.jitter] :
          pending' = {[frame |-> Frame(n), due |-> round * Tick + jitter[n]] : n \in Nodes}
  BY DEF EmitJittered
<1>3. /\ setup \in Setups /\ round \in Nat /\ now \in Nat /\ doubled \in Nat /\ Tick \in Nat
      /\ setup.jitter \in Nat /\ IsFiniteSet(Nodes) /\ Begun \in Nat
      /\ \A n \in Nodes : Len(points[n]) \in Nat
      /\ \A n : Cardinality(OfNode(pending, n)) \in Nat
  BY Numbers
<1>4. /\ Nodes' = Nodes /\ Exhausted' = Exhausted
      /\ \A r : Emitted(r)' = Emitted(r)
      /\ \A n, r : FrameOf(n, r)' = FrameOf(n, r)
  <2>1. Exhausted' = Exhausted
    BY <1>1 DEF Exhausted, Emitted
  <2> QED  BY <1>1, <2>1, SameSetup
<1> DEFINE One(n) == [frame |-> Frame(n), due |-> round * Tick + jitter[n]]
<1>5. Types'
  BY <1>1, <1>4 DEF IInv, Types
<1>6. \A n : Frame(n) = FrameOf(n, round) /\ Frame(n).node = n
  BY DEF Frame, FrameOf
<1>7. IsFiniteSet(pending')
  <2>1. IsFiniteSet({One(n) : n \in Nodes})
    <3> DEFINE f == [n \in Nodes |-> One(n)]
    <3>1. {One(n) : n \in Nodes} = {f[n] : n \in Nodes}
      OBVIOUS
    <3> HIDE DEF f, One
    <3> QED  BY <1>3, <3>1, ImageFinite
  <2> QED  BY <1>2, <2>1
<1>8. Underway'
  <2>1. \A a \in pending' : \E n \in Nodes, r \in 0 .. round : a.frame = FrameOf(n, r)
    <3> SUFFICES ASSUME NEW n \in Nodes
                 PROVE  \E m \in Nodes, r \in 0 .. round : One(n).frame = FrameOf(m, r)
      BY <1>2
    <3>1. round \in 0 .. round
      BY <1>3
    <3> QED  BY <1>6, <3>1
  <2>2. \A a \in pending' : a.due \in Int /\ a.due >= round * Tick - setup.jitter
    <3> SUFFICES ASSUME NEW n \in Nodes
                 PROVE  One(n).due \in Int /\ One(n).due >= round * Tick - setup.jitter
      BY <1>2
    <3>1. round * Tick \in Int
      BY <1>3
    <3>2. jitter[n] \in (-setup.jitter) .. setup.jitter
      OBVIOUS
    <3>3. jitter[n] \in Int /\ jitter[n] >= -setup.jitter
      BY <1>3, <3>2
    <3> QED  BY <1>3, <3>1, <3>3
  <2> QED  BY <1>1, <1>4, <1>7, <2>1, <2>2 DEF Underway
<1>9. Paced'
  BY <1>1, <1>4 DEF IInv, Paced
<1>10. Few'
  <2> SUFFICES ASSUME NEW n \in Nodes
               PROVE  Len(points[n]) + Cardinality(OfNode(pending', n)) <= Begun' + doubled
    BY <1>1, <1>4 DEF Few
  <2>1. Begun = round /\ Begun' = round + 1
    BY <1>1, <1>4 DEF Begun
  <2>2. Len(points[n]) + Cardinality(OfNode(pending, n)) <= round + doubled
    BY <2>1 DEF IInv, Few
  <2>3. OfNode(pending', n) \subseteq {One(n)}
    BY <1>2, <1>6 DEF OfNode
  <2>4. Cardinality(OfNode(pending', n)) \in Nat /\ Cardinality(OfNode(pending', n)) <= 1
    <3>1. IsFiniteSet({One(n)}) /\ Cardinality({One(n)}) = 1
      BY FS_Singleton
    <3> HIDE DEF One
    <3>2. IsFiniteSet(OfNode(pending', n))
          /\ Cardinality(OfNode(pending', n)) <= Cardinality({One(n)})
      BY <2>3, <3>1, FS_Subset
    <3> QED  BY <3>1, <3>2, FS_CardinalityType
  <2> QED  BY <1>3, <2>1, <2>2, <2>4
<1>11. Fitted' /\ Stamped' /\ Written'
  BY <1>1, <1>3, Idle
<1> QED  BY <1>5, <1>8, <1>9, <1>10, <1>11 DEF IInv

LEMMA EmitRoundKeeps ==
    ASSUME IInv, EmitRound
    PROVE  IInv'
<1>1. /\ setup.program = "slice" /\ pc = "emit" /\ pc' = "deliver"
      /\ setup' = setup /\ round' = round /\ now' = now
      /\ fits' = fits /\ points' = points /\ csv' = csv
  BY DEF EmitRound
<1>2. /\ setup \in Setups /\ round \in Nat /\ now \in Nat /\ doubled \in Nat /\ MaxDoubled \in Nat
      /\ IsFiniteSet(Nodes) /\ IsFiniteSet(pending) /\ Begun \in Nat
      /\ \A n \in Nodes : Len(points[n]) \in Nat
      /\ \A n : Cardinality(OfNode(pending, n)) \in Nat /\ IsFiniteSet(OfNode(pending, n))
  BY Numbers
<1>3. /\ Nodes' = Nodes /\ Exhausted' = Exhausted
      /\ \A r : Emitted(r)' = Emitted(r)
      /\ \A n, r : FrameOf(n, r)' = FrameOf(n, r)
  <2>1. Exhausted' = Exhausted
    BY <1>1 DEF Exhausted, Emitted
  <2> QED  BY <1>1, <2>1, SameSetup
<1>4. Paced'
  BY <1>1, <1>3 DEF IInv, Paced
<1>5. Fitted' /\ Stamped' /\ Written'
  BY <1>1, <1>2, Idle
<1>6. Begun = round /\ (Exhausted => Begun' = round) /\ (~Exhausted => Begun' = round + 1)
  BY <1>1, <1>3 DEF Begun
<1>7. \A n \in Nodes : Len(points[n]) + Cardinality(OfNode(pending, n)) <= round + doubled
  BY <1>6 DEF IInv, Few
<1>8. \A a \in pending : \E n \in Nodes, r \in 0 .. round : a.frame = FrameOf(n, r)
  BY DEF IInv, Underway
<1>9. SUFFICES Types' /\ Underway' /\ Few'
  BY <1>4, <1>5 DEF IInv
<1>10. CASE Exhausted
  <2>1. pending' = pending /\ doubled' = doubled
    BY <1>10 DEF EmitRound
  <2>2. Types'
    BY <1>1, <1>3, <2>1 DEF IInv, Types
  <2>3. Underway'
    BY <1>1, <1>2, <1>3, <1>8, <2>1 DEF Underway
  <2>4. Few'
    BY <1>1, <1>3, <1>6, <1>7, <1>10, <2>1 DEF Few
  <2> QED  BY <2>2, <2>3, <2>4
<1>11. CASE ~Exhausted
  <2>1. PICK copies \in [Nodes -> 0 .. 2] :
          LET twice == {n \in Nodes : copies[n] = 2}
          IN  /\ doubled + Cardinality(twice) <= MaxDoubled
              /\ doubled' = doubled + Cardinality(twice)
              /\ pending' = pending \union
                    {[frame |-> Frame(n), copy |-> 1] : n \in {m \in Nodes : copies[m] > 0}} \union
                    {[frame |-> Frame(n), copy |-> 2] : n \in twice}
    BY <1>11 DEF EmitRound
  <2> DEFINE once == {m \in Nodes : copies[m] > 0}
             twice == {n \in Nodes : copies[n] = 2}
             One(n) == [frame |-> Frame(n), copy |-> 1]
             Two(n) == [frame |-> Frame(n), copy |-> 2]
             first == {One(n) : n \in once}
             second == {Two(n) : n \in twice}
  <2>2. /\ doubled + Cardinality(twice) <= MaxDoubled /\ doubled' = doubled + Cardinality(twice)
        /\ pending' = pending \union first \union second
    BY <2>1
  <2>3. \A n : /\ One(n).frame = FrameOf(n, round) /\ One(n).frame.node = n
               /\ Two(n).frame = FrameOf(n, round) /\ Two(n).frame.node = n
    BY DEF Frame, FrameOf
  <2>4. once \subseteq Nodes /\ twice \subseteq Nodes
    OBVIOUS
  <2>5. IsFiniteSet(once) /\ IsFiniteSet(twice) /\ Cardinality(twice) \in Nat
    BY <1>2, <2>4, FS_Subset, FS_CardinalityType
  <2> HIDE DEF once, twice, One, Two
  <2>6. IsFiniteSet(first) /\ IsFiniteSet(second)
    <3> DEFINE f == [n \in once |-> One(n)]
               g == [n \in twice |-> Two(n)]
    <3>1. first = {f[n] : n \in once} /\ second = {g[n] : n \in twice}
      OBVIOUS
    <3> HIDE DEF f, g, first, second
    <3> QED  BY <2>5, <3>1, ImageFinite
  <2>7. IsFiniteSet(pending')
    <3> HIDE DEF first, second
    <3>1. IsFiniteSet(pending \union first)
      BY <1>2, <2>6, FS_Union
    <3> QED  BY <2>2, <2>6, <3>1, FS_Union
  <2>8. Types'
    <3>1. doubled' \in 0 .. MaxDoubled
      BY <1>2, <2>2, <2>5
    <3> QED  BY <1>1, <1>3, <3>1 DEF IInv, Types
  <2>9. Underway'
    <3>1. ASSUME NEW a \in pending'
          PROVE  \E n \in Nodes, r \in 0 .. round : a.frame = FrameOf(n, r)
      <4>1. round \in 0 .. round
        BY <1>2
      <4>2. CASE a \in pending
        BY <1>8, <4>2
      <4>3. CASE a \in first
        BY <2>3, <2>4, <4>1, <4>3
      <4>4. CASE a \in second
        BY <2>3, <2>4, <4>1, <4>4
      <4> QED  BY <2>2, <3>1, <4>2, <4>3, <4>4
    <3> QED  BY <1>1, <1>3, <2>7, <3>1 DEF Underway
  <2>10. Few'
    <3> SUFFICES ASSUME NEW n \in Nodes
                 PROVE  Len(points[n]) + Cardinality(OfNode(pending', n)) <= round + 1 + doubled'
      BY <1>1, <1>3, <1>6, <1>11 DEF Few
    <3> DEFINE old == OfNode(pending, n)
               new == OfNode(pending', n)
    <3>1. IsFiniteSet(old) /\ Cardinality(old) \in Nat
      BY <1>2
    <3>2. /\ IsFiniteSet({One(n)}) /\ Cardinality({One(n)}) = 1
          /\ IsFiniteSet({Two(n)}) /\ Cardinality({Two(n)}) = 1
      BY FS_Singleton
    <3>3. new \subseteq old \union {One(n)} \union {Two(n)}
          /\ (n \notin twice => new \subseteq old \union {One(n)})
      <4>1. ASSUME NEW a \in new
            PROVE  a \in old \/ a = One(n) \/ (a = Two(n) /\ n \in twice)
        <5>1. a \in pending' /\ a.frame.node = n
          BY <4>1 DEF OfNode
        <5>2. CASE a \in pending
          BY <5>1, <5>2 DEF OfNode
        <5>3. CASE a \in first
          BY <2>3, <5>1, <5>3
        <5>4. CASE a \in second
          BY <2>3, <5>1, <5>4
        <5> QED  BY <2>2, <5>1, <5>2, <5>3, <5>4
      <4> HIDE DEF old, new
      <4> QED  BY <4>1
    <3> HIDE DEF old, new
    <3>4. /\ IsFiniteSet(old \union {One(n)})
          /\ Cardinality(old \union {One(n)}) <= Cardinality(old) + 1
          /\ Cardinality(old \union {One(n)}) \in Nat
      BY <3>1, UnionOne
    <3>5. /\ IsFiniteSet(old \union {One(n)} \union {Two(n)})
          /\ Cardinality(old \union {One(n)} \union {Two(n)}) <= Cardinality(old) + 2
          /\ Cardinality(old \union {One(n)} \union {Two(n)}) \in Nat
      <4> DEFINE with == old \union {One(n)}
      <4>1. IsFiniteSet(with)
        BY <3>4
      <4> HIDE DEF with
      <4>2. /\ IsFiniteSet(with \union {Two(n)})
            /\ Cardinality(with \union {Two(n)}) <= Cardinality(with) + 1
            /\ Cardinality(with \union {Two(n)}) \in Nat
        BY <4>1, UnionOne
      <4>3. Cardinality(with) <= Cardinality(old) + 1 /\ Cardinality(with) \in Nat
        BY <3>4 DEF with
      <4>4. Cardinality(with \union {Two(n)}) <= Cardinality(old) + 2
        BY <3>1, <4>2, <4>3
      <4> QED  BY <4>2, <4>4 DEF with
    <3>6. CASE n \in twice
      <4>1. Cardinality(twice) >= 1
        BY <2>5, <3>6, FS_EmptySet
      <4>2. Cardinality(new) \in Nat /\ Cardinality(new) <= Cardinality(old) + 2
        <5>1. /\ IsFiniteSet(new)
              /\ Cardinality(new) <= Cardinality(old \union {One(n)} \union {Two(n)})
          BY <3>3, <3>5, FS_Subset
        <5>2. Cardinality(new) \in Nat
          BY <5>1, FS_CardinalityType
        <5> QED  BY <3>1, <3>5, <5>1, <5>2
      <4>3. Len(points[n]) + Cardinality(old) <= round + doubled /\ Len(points[n]) \in Nat
        BY <1>2, <1>7 DEF old
      <4>4. Len(points[n]) + Cardinality(new) <= round + 1 + doubled'
        BY SMTT(30), <1>2, <2>2, <2>5, <3>1, <4>1, <4>2, <4>3
      <4> QED  BY <4>4 DEF new
    <3>7. CASE n \notin twice
      <4>1. Cardinality(new) \in Nat /\ Cardinality(new) <= Cardinality(old) + 1
        <5>1. IsFiniteSet(new) /\ Cardinality(new) <= Cardinality(old \union {One(n)})
          BY <3>3, <3>4, <3>7, FS_Subset
        <5>2. Cardinality(new) \in Nat
          BY <5>1, FS_CardinalityType
        <5> QED  BY <3>1, <3>4, <5>1, <5>2
      <4>2. Len(points[n]) + Cardinality(old) <= round + doubled /\ Len(points[n]) \in Nat
        BY <1>2, <1>7 DEF old
      <4>3. Len(points[n]) + Cardinality(new) <= round + 1 + doubled'
        BY SMTT(30), <1>2, <2>2, <2>5, <3>1, <4>1, <4>2
      <4> QED  BY <4>3 DEF new
    <3> QED  BY <3>6, <3>7
  <2> QED  BY <2>8, <2>9, <2>10
<1> QED  BY <1>10, <1>11

LEMMA DeliverAnyKeeps ==
    ASSUME IInv, DeliverAny
    PROVE  IInv'
<1>1. /\ setup.program = "slice" /\ pc' = pc /\ setup' = setup /\ round' = round /\ now' = now
      /\ doubled' = doubled
  BY DEF DeliverAny
<1>2. PICK a \in pending : pending' = pending \ {a} /\ Accept(a.frame, now)
  BY DEF DeliverAny
<1>3. /\ setup \in Setups /\ round \in Nat /\ now \in Nat /\ doubled \in Nat /\ Begun \in Nat
      /\ \A n \in Nodes : Len(points[n]) \in Nat
      /\ \A n : Cardinality(OfNode(pending, n)) \in Nat
  BY Numbers
<1>4. /\ Nodes' = Nodes /\ Exhausted' = Exhausted
      /\ \A r : Emitted(r)' = Emitted(r)
      /\ \A n, r : FrameOf(n, r)' = FrameOf(n, r)
  <2>1. Exhausted' = Exhausted
    BY <1>1 DEF Exhausted, Emitted
  <2> QED  BY <1>1, <2>1, SameSetup
<1>5. /\ DOMAIN fits' = Nodes /\ DOMAIN points' = Nodes
      /\ csv' \in [Nodes -> Seq(Int)]
      /\ \A n \in Nodes : Len(csv'[n]) = Len(points'[n])
      /\ IsFiniteSet(pending')
      /\ \A n \in Nodes : Len(points'[n]) + Cardinality(OfNode(pending', n))
                             <= Len(points[n]) + Cardinality(OfNode(pending, n))
      /\ Fitted' /\ Stamped' /\ Written'
  <2>1. now <= now
    BY <1>3
  <2> QED  BY <1>1, <1>2, <1>3, <2>1, Delivery
<1>6. Types'
  BY <1>1, <1>4, <1>5 DEF IInv, Types
<1>7. Underway'
  BY <1>1, <1>2, <1>4, <1>5 DEF IInv, Underway
<1>8. Paced'
  BY <1>1, <1>4 DEF IInv, Paced
<1>9. Few'
  <2>1. Begun' = Begun
    BY <1>1, <1>4 DEF Begun
  <2>2. \A n \in Nodes : Len(points[n]) + Cardinality(OfNode(pending, n)) <= Begun + doubled
    BY DEF IInv, Few
  <2> QED  BY <1>1, <1>3, <1>4, <1>5, <2>1, <2>2, NoMore
<1> QED  BY <1>5, <1>6, <1>7, <1>8, <1>9 DEF IInv

LEMMA DeliverDueKeeps ==
    ASSUME IInv, DeliverDue
    PROVE  IInv'
<1>1. setup.program = "clocksync" /\ pc = "deliver" /\ setup' = setup /\ doubled' = doubled
  BY DEF DeliverDue
<1>2. PICK a \in pending :
          /\ pending' = pending \ {a}
          /\ IF SetToRaises(Target(a))
             THEN pc' = "raised" /\ UNCHANGED <<round, now, fits, points, csv>>
             ELSE /\ now' = Target(a) /\ Accept(a.frame, Target(a))
                  /\ IF pending' = {}
                     THEN pc' = "emit" /\ round' = round + 1
                     ELSE UNCHANGED <<pc, round>>
  BY DEF DeliverDue
<1>3. /\ setup \in Setups /\ round \in Nat /\ now \in Nat /\ doubled \in Nat /\ Begun \in Nat
      /\ Tick \in Nat /\ setup.jitter \in Nat
      /\ \A n \in Nodes : Len(points[n]) \in Nat
      /\ \A n : Cardinality(OfNode(pending, n)) \in Nat
  BY Numbers
<1>4. /\ Nodes' = Nodes
      /\ \A r : Emitted(r)' = Emitted(r)
      /\ \A n, r : FrameOf(n, r)' = FrameOf(n, r)
  BY <1>1, SameSetup
<1>5. /\ ~Exhausted /\ \A b \in pending : b.due \in Int /\ b.due >= round * Tick - setup.jitter
      /\ \A b \in pending : \E n \in Nodes, r \in 0 .. round : b.frame = FrameOf(n, r)
  BY <1>1 DEF IInv, Underway
\* The reference clock is never asked to go back.
<1>6. Target(a) \in Nat /\ now <= Target(a) /\ a.due <= Target(a) /\ ~SetToRaises(Target(a))
  <2>1. a.due \in Int
    BY <1>5
  <2> QED  BY <1>3, <2>1 DEF Target, SetToRaises
<1>7. /\ now' = Target(a) /\ Accept(a.frame, Target(a))
      /\ pending' = {} => pc' = "emit" /\ round' = round + 1
      /\ pending' # {} => pc' = "deliver" /\ round' = round
  BY <1>1, <1>2, <1>6
<1>8. /\ DOMAIN fits' = Nodes /\ DOMAIN points' = Nodes
      /\ csv' \in [Nodes -> Seq(Int)]
      /\ \A n \in Nodes : Len(csv'[n]) = Len(points'[n])
      /\ IsFiniteSet(pending')
      /\ \A n \in Nodes : Len(points'[n]) + Cardinality(OfNode(pending', n))
                             <= Len(points[n]) + Cardinality(OfNode(pending, n))
      /\ Fitted' /\ Stamped' /\ Written'
  BY <1>1, <1>2, <1>6, <1>7, Delivery
<1>9. Types'
  <2>1. round' \in Nat /\ now' \in Nat /\ pc' \in {"emit", "deliver"}
    BY <1>3, <1>6, <1>7
  <2> QED  BY <1>1, <1>4, <1>8, <2>1 DEF IInv, Types
<1>10. Underway'
  <2>1. CASE pending' = {}
    BY <1>7, <1>8, <2>1 DEF Underway
  <2>2. CASE pending' # {}
    <3>1. Exhausted' = Exhausted
      BY <1>1, <1>7, <2>2 DEF Exhausted, Emitted
    <3> QED  BY <1>1, <1>2, <1>4, <1>5, <1>7, <1>8, <2>2, <3>1 DEF Underway
  <2> QED  BY <2>1, <2>2
<1>11. Paced'
  <2>1. /\ round > 0 => Emitted(round - 1) < setup.blocks
        /\ now >= (round - 1) * Tick - setup.jitter
    BY <1>1 DEF IInv, Paced
  <2>2. setup.program # "slice"
    BY <1>1
  <2>3. CASE pending' = {}
    <3>1. round' = round + 1
      BY <1>7, <2>3
    <3>2. round' - 1 = round
      BY <1>3, <3>1
    <3>3. Emitted(round) < setup.blocks
      <4>1. Emitted(round) \in Nat /\ setup.blocks \in Nat
        BY Numbers
      <4> QED  BY <1>5, <4>1 DEF Exhausted
    <3>4. now' >= round * Tick - setup.jitter
      <4>1. a.due \in Int /\ a.due >= round * Tick - setup.jitter /\ round * Tick \in Int
        BY <1>3, <1>5
      <4> QED  BY <1>3, <1>6, <1>7, <4>1
    <3> QED  BY <1>1, <1>4, <2>2, <3>2, <3>3, <3>4 DEF Paced
  <2>4. CASE pending' # {}
    <3>1. round' = round
      BY <1>7, <2>4
    <3>2. now' >= (round - 1) * Tick - setup.jitter
      <4>1. (round - 1) * Tick \in Int
        BY <1>3
      <4> QED  BY <1>3, <1>6, <1>7, <2>1, <4>1
    <3> QED  BY <1>1, <1>4, <2>1, <2>2, <3>1, <3>2 DEF Paced
  <2> QED  BY <2>3, <2>4
<1>12. Few'
  <2>1. Begun = round + 1 /\ Begun' = round + 1
    <3>1. CASE pending' = {}
      BY <1>1, <1>5, <1>7, <3>1 DEF Begun
    <3>2. CASE pending' # {}
      <4>1. Exhausted' = Exhausted
        BY <1>1, <1>7, <3>2 DEF Exhausted, Emitted
      <4> QED  BY <1>1, <1>5, <1>7, <3>2, <4>1 DEF Begun
    <3> QED  BY <3>1, <3>2
  <2>2. \A n \in Nodes : Len(points[n]) + Cardinality(OfNode(pending, n)) <= Begun + doubled
    BY DEF IInv, Few
  <2> QED  BY <1>1, <1>3, <1>4, <1>8, <2>1, <2>2, NoMore
<1> QED  BY <1>8, <1>9, <1>10, <1>11, <1>12 DEF IInv

LEMMA EndRoundKeeps ==
    ASSUME IInv, EndRound
    PROVE  IInv'
<1>1. /\ setup.program = "slice" /\ pc = "deliver" /\ now' = now + Tick
      /\ setup' = setup /\ pending' = pending /\ doubled' = doubled
      /\ fits' = fits /\ points' = points /\ csv' = csv
      /\ Exhausted => pc' = "drain" /\ round' = round
      /\ ~Exhausted => pc' = "emit" /\ round' = round + 1
  BY DEF EndRound
<1>2. /\ setup \in Setups /\ round \in Nat /\ now \in Nat /\ Tick \in Nat /\ setup.blocks \in Nat
      /\ Emitted(round) \in Nat
  BY Numbers
<1>3. /\ Nodes' = Nodes
      /\ \A r : Emitted(r)' = Emitted(r)
      /\ \A n, r : FrameOf(n, r)' = FrameOf(n, r)
  BY <1>1, SameSetup
<1>4. now' \in Nat /\ now <= now' /\ round' \in Nat /\ round <= round'
  BY <1>1, <1>2
<1>5. Types'
  BY <1>1, <1>3, <1>4 DEF IInv, Types
<1>6. Underway'
  <2>1. \A a \in pending : \E n \in Nodes, r \in 0 .. round' : a.frame = FrameOf(n, r)
    <3> SUFFICES ASSUME NEW a \in pending
                 PROVE  \E n \in Nodes, r \in 0 .. round' : a.frame = FrameOf(n, r)
      OBVIOUS
    <3>1. PICK n \in Nodes : \E r \in 0 .. round : a.frame = FrameOf(n, r)
      BY DEF IInv, Underway
    <3>2. PICK r \in 0 .. round : a.frame = FrameOf(n, r)
      BY <3>1
    <3>3. r \in 0 .. round'
      BY <1>2, <1>4, <3>2
    <3> QED  BY <3>2, <3>3
  <2> QED  BY <1>1, <1>3, <2>1 DEF IInv, Underway
<1>7. Paced'
  <2>1. (round > 0 => Emitted(round - 1) < setup.blocks) /\ now >= round * Tick
    BY <1>1 DEF IInv, Paced
  <2>2. setup.program # "clocksync"
    BY <1>1
  <2>3. (round + 1) * Tick = round * Tick + Tick /\ round * Tick \in Int
    BY <1>2
  <2>4. CASE Exhausted
    <3>1. round' = round /\ now' >= round * Tick
      BY <1>1, <1>2, <2>1, <2>3, <2>4
    <3> QED  BY <1>1, <1>3, <2>1, <2>2, <3>1 DEF Paced
  <2>5. CASE ~Exhausted
    <3>1. round' = round + 1 /\ round' - 1 = round
      BY <1>1, <1>2, <2>5
    <3>2. now' >= (round + 1) * Tick
      BY <1>1, <1>2, <2>1, <2>3
    <3>3. Emitted(round) < setup.blocks
      BY <1>2, <2>5 DEF Exhausted
    <3> QED  BY <1>1, <1>3, <2>2, <3>1, <3>2, <3>3 DEF Paced
  <2> QED  BY <2>4, <2>5
<1>8. Few'
  <2>1. Begun' = Begun
    BY <1>1 DEF Begun
  <2> QED  BY <1>1, <1>3, <2>1 DEF IInv, Few
<1>9. Fitted' /\ Stamped' /\ Written'
  BY <1>1, <1>4, Idle
<1> QED  BY <1>5, <1>6, <1>7, <1>8, <1>9 DEF IInv

LEMMA FinishKeeps ==
    ASSUME IInv, Finish
    PROVE  IInv'
<1>1. /\ pending = {} /\ pc' = "done" /\ pc # "deliver"
      /\ UNCHANGED <<setup, round, now, pending, doubled, fits, points, csv>>
  BY DEF Finish
<1>2. /\ Nodes' = Nodes
      /\ \A r : Emitted(r)' = Emitted(r)
      /\ \A n, r : FrameOf(n, r)' = FrameOf(n, r)
  BY <1>1, SameSetup
<1>3. Types'
  BY <1>1, <1>2 DEF IInv, Types
<1>4. Underway'
  BY <1>1, <1>2 DEF IInv, Underway
<1>5. Paced'
  BY <1>1, <1>2 DEF IInv, Paced
<1>6. Few'
  <2>1. Begun' = Begun
    BY <1>1 DEF Begun
  <2> QED  BY <1>1, <1>2, <2>1 DEF IInv, Few
<1>7. Fitted' /\ Stamped' /\ Written'
  <2>1. now' \in Nat /\ now <= now'
    BY <1>1, Numbers
  <2> QED  BY <1>1, <2>1, Idle
<1> QED  BY <1>3, <1>4, <1>5, <1>6, <1>7 DEF IInv

LEMMA StutterKeeps ==
    ASSUME IInv, UNCHANGED vars
    PROVE  IInv'
<1>1. UNCHANGED <<setup, pc, round, now, pending, doubled, fits, points, csv>>
  BY DEF vars
<1>2. /\ Nodes' = Nodes
      /\ \A r : Emitted(r)' = Emitted(r)
      /\ \A n, r : FrameOf(n, r)' = FrameOf(n, r)
  BY <1>1, SameSetup
<1>3. Exhausted' = Exhausted
  BY <1>1 DEF Exhausted, Emitted
<1>4. Types'
  BY <1>1, <1>2 DEF IInv, Types
<1>5. Underway'
  BY <1>1, <1>2, <1>3 DEF IInv, Underway
<1>6. Paced'
  BY <1>1, <1>2 DEF IInv, Paced
<1>7. Few'
  <2>1. Begun' = Begun
    BY <1>1, <1>3 DEF Begun
  <2> QED  BY <1>1, <1>2, <2>1 DEF IInv, Few
<1>8. Fitted' /\ Stamped' /\ Written'
  <2>1. now' \in Nat /\ now <= now'
    BY <1>1, Numbers
  <2> QED  BY <1>1, <2>1, Idle
<1> QED  BY <1>4, <1>5, <1>6, <1>7, <1>8 DEF IInv

LEMMA Inductive == Spec => []IInv
<1>1. ASSUME IInv, [Next]_vars PROVE IInv'
  <2>1. CASE EmitJittered
    BY <1>1, <2>1, EmitJitteredKeeps
  <2>2. CASE DeliverDue
    BY <1>1, <2>2, DeliverDueKeeps
  <2>3. CASE EmitRound
    BY <1>1, <2>3, EmitRoundKeeps
  <2>4. CASE DeliverAny
    BY <1>1, <2>4, DeliverAnyKeeps
  <2>5. CASE EndRound
    BY <1>1, <2>5, EndRoundKeeps
  <2>6. CASE Finish
    BY <1>1, <2>6, FinishKeeps
  <2>7. CASE UNCHANGED vars
    BY <1>1, <2>7, StutterKeeps
  <2> QED  BY <1>1, <2>1, <2>2, <2>3, <2>4, <2>5, <2>6, <2>7 DEF Next
<1> QED  BY Initially, <1>1, PTL DEF Spec

-----------------------------------------------------------------------------
(***************************************************************************)
(* The results.                                                            *)
(***************************************************************************)

\* The clock-sync program and the slice keep the types of their state, a fit has as many points
\* as packets were accepted, and the reference clock is never behind the rounds but for the jitter.
THEOREM TypeCorrect == Spec => []TypeOK
<1>1. IInv => TypeOK
  <2> SUFFICES ASSUME IInv PROVE TypeOK
    OBVIOUS
  <2>1. Types /\ Underway /\ Paced /\ Fitted
    BY DEF IInv
  <2>2. now >= (round - 1) * Tick - setup.jitter
    <3>1. /\ setup.program \in {"clocksync", "slice"} /\ setup.jitter \in Nat /\ Tick \in Nat
          /\ round \in Nat /\ now \in Nat
      BY Numbers
    <3>2. CASE setup.program = "clocksync"
      BY <2>1, <3>2 DEF Paced
    <3>3. CASE setup.program = "slice"
      <4>1. now >= round * Tick
        BY <2>1, <3>3 DEF Paced
      <4>2. (round - 1) * Tick = round * Tick - Tick /\ round * Tick \in Int
        BY <3>1
      <4> QED  BY <3>1, <4>1, <4>2
    <3> QED  BY <3>1, <3>2, <3>3
  <2>3. \A n \in Nodes : fits[n].n = Len(points[n])
    BY <2>1 DEF Fitted, Kept, Fits
  <2> QED  BY <2>1, <2>2, <2>3 DEF TypeOK, Types, Underway
<1> QED  BY Inductive, <1>1, PTL

\* "Welford's streaming covariance" (clock_model.py:23-25) is the covariance of all the points,
\* and is zero as long as all came at one instant.
THEOREM LeastSquares == Spec => []FitIsLeastSquares
<1>1. IInv => FitIsLeastSquares
  <2> SUFFICES ASSUME IInv, NEW n \in Nodes
               PROVE  LET m == fits[n]
                          k == Len(points[n])
                      IN  /\ k * m.mean_ref = Scale * SumFunction(Arrivals(n))
                          /\ k * m.mean_node = Scale * SumFunction(Stamps(n))
                          /\ k * m.m_rr = Moment(n, Arrivals(n), Arrivals(n))
                          /\ k * m.m_nn = Moment(n, Stamps(n), Stamps(n))
                          /\ k * m.m_rn = Moment(n, Arrivals(n), Stamps(n))
                          /\ Ready(m) <=> \E i, j \in PointsOf(n) :
                                             points[n][i].t_ref # points[n][j].t_ref
    BY DEF FitIsLeastSquares
  <2> DEFINE m == fits[n]
             ps == points[n]
             k == Len(ps)
  <2>1. Fits(m, ps) /\ Spread(m, ps) /\ k \in Nat
    BY Numbers DEF IInv, Fitted, Kept
  <2>2. Arrivals(n) = RefsOf(ps) /\ Stamps(n) = StampsOf(ps)
    BY DEF Arrivals, Stamps, RefsOf, StampsOf, PointsOf
  <2>3. \A f, g : Moment(n, f, g) = Scale * Scale * (k * SumFunction(Product(f, g))
                                                      - SumFunction(f) * SumFunction(g))
    BY DEF Moment
  <2>4. Ready(m) <=> \E i, j \in PointsOf(n) : ps[i].t_ref # ps[j].t_ref
    <3>1. m.m_rr > 0 <=> \E i, j \in 1 .. k : ps[i].t_ref # ps[j].t_ref
      BY <2>1 DEF Spread
    <3>2. m.n = k
      BY <2>1 DEF Fits
    <3>3. (\E i, j \in 1 .. k : ps[i].t_ref # ps[j].t_ref) => k >= 2
      <4> SUFFICES ASSUME NEW i \in 1 .. k, NEW j \in 1 .. k, ps[i].t_ref # ps[j].t_ref PROVE k >= 2
        OBVIOUS
      <4>1. i # j
        OBVIOUS
      <4> HIDE DEF k, ps
      <4> QED  BY <2>1, <4>1
    <3> HIDE DEF m
    <3> QED  BY <3>1, <3>2, <3>3 DEF Ready, PointsOf
  <2>5. /\ k * m.mean_ref = Scale * SumFunction(RefsOf(ps))
        /\ k * m.mean_node = Scale * SumFunction(StampsOf(ps))
        /\ k * m.m_rr = Moment(n, RefsOf(ps), RefsOf(ps))
        /\ k * m.m_nn = Moment(n, StampsOf(ps), StampsOf(ps))
        /\ k * m.m_rn = Moment(n, RefsOf(ps), StampsOf(ps))
    <3> HIDE DEF m
    <3> QED  BY <2>1, <2>3 DEF Fits, IsMean, IsMoment
  <2> QED  BY <2>2, <2>4, <2>5
<1> QED  BY Inductive, <1>1, PTL

\* "Packet loss doesn't bias it either" (clock_model.py:20-21): with one latency for all, the fit
\* is the node's clock itself, and the CSV has every packet at its place.
THEOREM SteadyExact == Spec => []SteadyIsExact
<1>1. IInv => SteadyIsExact
  <2> SUFFICES ASSUME IInv, NEW n \in Nodes, NEW lag \in 0 .. round + 1,
                      Ready(fits[n]), setup.heartbeat_every = 0,
                      \A i \in PointsOf(n) : points[n][i].t_ref = (points[n][i].round + lag) * Tick
               PROVE  /\ Skew(fits[n]).num * Tick = Skew(fits[n]).den * BlockDt[n]
                      /\ Residual(fits[n]) = 0
                      /\ \A r \in 0 .. round : ToRef(fits[n], r * BlockDt[n]) = (r + lag) * Tick
                      /\ \A i \in PointsOf(n) :
                            IF points[n][i].t_ref = points[n][1].t_ref
                            THEN csv[n][i] = Blank
                            ELSE csv[n][i] = (points[n][i].round + lag) * Tick
    BY DEF SteadyIsExact
  <2> DEFINE m == fits[n]
             ps == points[n]
             dt == BlockDt[n]
  <2>1. round \in Nat /\ lag \in Nat
    BY Numbers
  <2>2. dt \in Nat /\ dt > 0
    <3>1. setup \in Setups
      BY Numbers
    <3> QED  BY <3>1, SetupType DEF Nodes
  <2>3. m \in Fit /\ Fits(m, ps) /\ OnLine(m, ps, dt, lag) /\ Len(ps) \in Nat
    BY <2>1, <2>2, Numbers DEF IInv, Fitted, Kept
  <2>4. Steady(ps, lag)
    BY DEF Steady, PointsOf
  <2>5. \A i \in 1 .. Len(ps) : csv[n][i] = WrittenOf(ps, i, lag)
    BY <2>1, <2>4 DEF IInv, Written, PointsOf
  <2>6. \A i \in 1 .. Len(ps) : /\ ps[i].t_ref = (ps[i].round + lag) * Tick
                                /\ ps[i].t_node = ps[i].round * dt
    <3>1. \A i \in 1 .. Len(ps) : ps[i].t_node = Emitted(ps[i].round) * dt
      BY DEF IInv, Stamped, PointsOf
    <3>2. \A r : Emitted(r) = r
      BY DEF Emitted
    <3> QED  BY <2>4, <3>1, <3>2 DEF Steady
  <2>7. Len(ps) > 0
    <3>1. m.n = Len(ps)
      BY <2>3 DEF Fits
    <3>2. m.n >= 2
      BY DEF Ready
    <3> QED  BY <2>3, <3>1, <3>2
  <2>8. /\ Tick * m.mean_node = dt * (m.mean_ref - Scale * (lag * Tick))
        /\ Tick * m.m_rn = dt * m.m_rr /\ Tick * m.m_nn = dt * m.m_rn
    BY <2>3, <2>6, <2>7 DEF OnLine
  <2>9. Ready(m)
    OBVIOUS
  <2> HIDE DEF m, dt
  <2>10. /\ Skew(m).num * Tick = Skew(m).den * dt
         /\ Residual(m) = 0
         /\ \A r \in Nat : ToRef(m, r * dt) = (r + lag) * Tick
    BY <2>1, <2>2, <2>3, <2>8, <2>9, LineExact
  <2>11. \A r \in 0 .. round : ToRef(m, r * dt) = (r + lag) * Tick
    BY <2>1, <2>10
  <2>12. \A i \in PointsOf(n) : IF ps[i].t_ref = ps[1].t_ref
                                THEN csv[n][i] = Blank
                                ELSE csv[n][i] = (ps[i].round + lag) * Tick
    BY <2>5 DEF PointsOf, WrittenOf
  <2> QED  BY <2>10, <2>11, <2>12 DEF m, dt
<1> QED  BY Inductive, <1>1, PTL

\* No jitter, loss or delay turns a fit backwards as long as a node's own times rise.
THEOREM Forward == Spec => []ForwardUnlessDisorder
<1>1. IInv => ForwardUnlessDisorder
  <2> SUFFICES ASSUME IInv, NEW n \in Nodes, Ready(fits[n]),
                      \A i, j \in PointsOf(n) : i < j => points[n][i].t_node < points[n][j].t_node
               PROVE  Skew(fits[n]).num > 0
    BY DEF ForwardUnlessDisorder
  <2>1. Onward(fits[n], points[n])
    BY DEF IInv, Fitted, Kept
  <2>2. Rising(points[n])
    BY DEF Rising, PointsOf
  <2>3. fits[n].m_rn > 0
    BY <2>1, <2>2 DEF Onward, Ready
  <2> QED  BY <2>3 DEF Skew
<1> QED  BY Inductive, <1>1, PTL

\* The refusal of the reference clock to go back (clock.py:69) is never met.
THEOREM NeverRefused == Spec => [](pc # "raised")
<1>1. IInv => pc # "raised"
  BY DEF IInv, Types
<1> QED  BY Inductive, <1>1, PTL
=============================================================================
