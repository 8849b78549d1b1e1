----------------------------- MODULE ClockModel -----------------------------
(***************************************************************************)
(* The fit of a node's clock against the reference clock                   *)
(* (ground_station/timing/clock_model.py): least squares, one point at a   *)
(* time (Welford), t_node = skew * t_ref + offset.                         *)
(*                                                                         *)
(* The floating point of the code is replaced by exact fractions: means    *)
(* are kept times Scale, the sums of products times Scale^2.  With Scale a *)
(* multiple of every number of points, each division below has no rest.    *)
(***************************************************************************)
EXTENDS Integers

CONSTANT Scale

ASSUME ScaleAssumption == Scale \in Nat \ {0}

NoPoints == [n |-> 0, mean_ref |-> 0, mean_node |-> 0, m_rr |-> 0, m_nn |-> 0, m_rn |-> 0]

\* Mutant: the deviations are taken from the means before the point.
UpdateFromOldMeans(m, t_node, t_ref) ==
    LET n == m.n + 1
        d_ref == Scale * t_ref - m.mean_ref
        d_node == Scale * t_node - m.mean_node
    IN  [n |-> n, mean_ref |-> m.mean_ref + d_ref \div n, mean_node |-> m.mean_node + d_node \div n,
         m_rr |-> m.m_rr + d_ref * d_ref, m_nn |-> m.m_nn + d_node * d_node,
         m_rn |-> m.m_rn + d_ref * d_node]

Update(m, t_node, t_ref) ==
    LET n == m.n + 1
        d_ref == Scale * t_ref - m.mean_ref
        d_node == Scale * t_node - m.mean_node
        mean_ref == m.mean_ref + d_ref \div n
        mean_node == m.mean_node + d_node \div n
    IN  [n |-> n, mean_ref |-> mean_ref, mean_node |-> mean_node,
         m_rr |-> m.m_rr + d_ref * (Scale * t_ref - mean_ref),
         m_nn |-> m.m_nn + d_node * (Scale * t_node - mean_node),
         m_rn |-> m.m_rn + d_ref * (Scale * t_node - mean_node)]

\* Mutant: any two points will do.
ReadyOnTwo(m) == m.n >= 2

Ready(m) == m.n >= 2 /\ m.m_rr > 0

\* skew, as a fraction: one before the fit is ready.
Skew(m) == IF Ready(m) THEN [num |-> m.m_rn, den |-> m.m_rr] ELSE [num |-> 1, den |-> 1]

\* round: to the nearest integer, halves to the even one.
Nearest(num, den) ==
    LET a == IF den < 0 THEN -num ELSE num
        b == IF den < 0 THEN -den ELSE den
        low == a \div b
        rest == 2 * (a % b)
    IN  IF rest < b \/ (rest = b /\ low % 2 = 0) THEN low ELSE low + 1

\* Mutant: the offset is left out.
ToRefThroughOrigin(m, t_node) ==
    IF Skew(m).num = 0 THEN t_node ELSE Nearest(t_node * Skew(m).den, Skew(m).num)

\* to_ref: (t_node - offset) / skew, where offset is mean_node - skew * mean_ref.
ToRef(m, t_node) ==
    LET skew == Skew(m)
    IN  IF skew.num = 0 THEN t_node
        ELSE Nearest(m.mean_ref * skew.num + (Scale * t_node - m.mean_node) * skew.den,
                     Scale * skew.num)

\* The residual sum of squares of the fit, times m_rr; residual_std_us and drift_ppm_stderr
\* are its roots.
Residual(m) == m.m_nn * m.m_rr - m.m_rn * m.m_rn
=============================================================================
