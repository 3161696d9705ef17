------------------------------ MODULE Analyses -------------------------------
(* The results of an analysis, by number of node or element, and the rules   *)
(* they are integrated by (modules/fem/src/analysis.c and integration.c).    *)
(* The values of all of them are in one list.                                *)
EXTENDS Integers, Sequences, FiniteSets, SequencesExt

CONSTANTS
  Kinds,          \* words for the type of an analysis
  Spaces,         \* numbers of components of a value
  ResultRows,     \* the numbers results are of
  Sizes,          \* of values
  Informations,   \* sizes of informations
  Values,
  AnalysisCalls   \* bound on the requests

ASSUME AnalysesAssumption ==
  Spaces \subseteq Nat /\ Sizes \subseteq Nat /\ Informations \subseteq Nat \ {0} /\ AnalysisCalls \in Nat

VARIABLES
  analysis,   \* [type, dim, values_list, number, value_allocator, info_allocator]
  written,    \* what was written as the values of a number, since they are where they are
  requests

analysisVars == <<analysis, written, requests>>

\* A value: [n, at, nb_values, info]: where its values and its information begin, -1 for nowhere.
Nowhere == 0 - 1

fem_analysis_new_type(string) ==
  IF string \in {"NODES", "NODE_ON_ELEMENTS", "ELEMENTS", "POINTS", "ELEMENTS_AT_NODES"}
  THEN string ELSE "OTHER"

\* The case of ELEMENTS ends without a break: its list is made, and lost (analysis.c:342).
fem_analysis_new(type, dim) ==
  [type |-> type, dim |-> dim, values_list |-> <<>>, number |-> <<>>, value_allocator |-> <<>>,
   info_allocator |-> IF type = "NODE_ON_ELEMENTS" THEN 0 ELSE Nowhere]

AnalysisInit ==
  /\ \E string \in Kinds, dim \in Spaces :
       analysis = fem_analysis_new(fem_analysis_new_type(string), dim)
  /\ written = <<>> /\ requests = 0

Request == requests < AnalysisCalls /\ requests' = requests + 1

fem_analysis_value_get(n) ==
  IF n \in DOMAIN analysis.number THEN {analysis.number[n]} ELSE {}

\* The places of values that are new are not cleared.
Room(nb) == [k \in 1..(nb * analysis.dim) |-> "uninitialised"]

Put(f, n, x) == [k \in DOMAIN f \cup {n} |-> IF k = n THEN x ELSE f[k]]

\* Mutant of fem_analysis_value_add: values that grow stay where they are.
GrowInPlace ==
  /\ Request
  /\ \E n \in ResultRows, nb \in Sizes :
       LET a == analysis
           value == [n |-> n, at |-> Len(a.value_allocator), nb_values |-> nb, info |-> Nowhere]
           old == fem_analysis_value_get(n)
       IN  \/ /\ old = {}
              /\ analysis' = [a EXCEPT !.values_list = Append(@, value), !.value_allocator = @ \o Room(nb),
                                       !.number = Put(@, n, Len(a.values_list) + 1)]
              /\ written' = Put(written, n, Room(nb))
           \/ \E k \in old :
                /\ a.values_list[k].nb_values < nb
                /\ analysis' = [a EXCEPT !.values_list[k].nb_values = nb, !.value_allocator = @ \o Room(nb)]
                /\ written' = Put(written, n, Room(nb))
           \/ \E k \in old : a.values_list[k].nb_values >= nb /\ UNCHANGED <<analysis, written>>

\* Values that have to grow go elsewhere, without what was in them.
fem_analysis_value_add ==
  /\ Request
  /\ \E n \in ResultRows, nb \in Sizes :
       LET a == analysis
           value == [n |-> n, at |-> Len(a.value_allocator), nb_values |-> nb, info |-> Nowhere]
           old == fem_analysis_value_get(n)
       IN  \/ /\ old = {}
              /\ analysis' = [a EXCEPT !.values_list = Append(@, value), !.value_allocator = @ \o Room(nb),
                                       !.number = Put(@, n, Len(a.values_list) + 1)]
              /\ written' = Put(written, n, Room(nb))
           \/ \E k \in old :
                /\ a.values_list[k].nb_values < nb
                /\ analysis' = [a EXCEPT !.values_list[k].nb_values = nb,
                                         !.values_list[k].at = Len(a.value_allocator),
                                         !.value_allocator = @ \o Room(nb)]
                /\ written' = Put(written, n, Room(nb))
           \/ \E k \in old : a.values_list[k].nb_values >= nb /\ UNCHANGED <<analysis, written>>

\* The caller writes his values where he was given room for them.
Write ==
  /\ Request
  /\ \E n \in DOMAIN analysis.number, x \in Values :
       LET value == analysis.values_list[analysis.number[n]]
       IN  \E k \in 1..(value.nb_values * analysis.dim) :
             /\ analysis' = [analysis EXCEPT !.value_allocator[value.at + k] = x]
             /\ written' = [written EXCEPT ![n][k] = x]

\* There is information where the type has some, once.
fem_analysis_value_add_info ==
  /\ Request
  /\ \E n \in DOMAIN analysis.number, nb \in Informations :
       LET k == analysis.number[n]
       IN  analysis' = IF analysis.values_list[k].info = Nowhere /\ analysis.info_allocator # Nowhere
                       THEN [analysis EXCEPT !.values_list[k].info = analysis.info_allocator,
                                             !.info_allocator = @ + nb]
                       ELSE analysis
  /\ UNCHANGED written

fem_analysis_get_size == Len(analysis.values_list)

AnalysisNext == fem_analysis_value_add \/ Write \/ fem_analysis_value_add_info

AnalysisSpec == AnalysisInit /\ [][AnalysisNext]_analysisVars

-----------------------------------------------------------------------------
Region(value) == (value.at + 1)..(value.at + value.nb_values * analysis.dim)

\* Every number has its own values: what was written for it, whatever was added or has grown
\* for the others.
ValuesKept ==
  /\ DOMAIN analysis.number = DOMAIN written
  /\ fem_analysis_get_size = Cardinality(DOMAIN written)
  /\ \A n \in DOMAIN written :
       LET value == analysis.values_list[analysis.number[n]]
       IN  /\ value.n = n
           /\ Region(value) \subseteq DOMAIN analysis.value_allocator
           /\ \A k \in DOMAIN written[n] : analysis.value_allocator[value.at + k] = written[n][k]

\* No place is of two numbers, nor information either.
RegionsApart ==
  \A i, k \in DOMAIN analysis.values_list :
    i # k => LET one == analysis.values_list[i]  other == analysis.values_list[k]
             IN  /\ Region(one) \cap Region(other) = {}
                 /\ one.info # Nowhere => one.info # other.info

\* Every number of an analysis keeps its values, whatever happens to the others (analysis.c).
ResultsKept == ValuesKept /\ RegionsApart

-----------------------------------------------------------------------------
(* The integration rules (integration.c): points and weights, in units of 1/Unit *)

Unit == 10000

Rule(points, weights) == [nb |-> Len(points), point |-> points, weight |-> weights]

integration_none == Rule(<<>>, <<>>)

\* On [-1, 1]
integration_l1 == Rule(<<<<0>>>>, <<20000>>)
integration_l2 == Rule(<<<<-5774>>, <<5774>>>>, <<10000, 10000>>)
integration_l3 == Rule(<<<<0>>, <<-7746>>, <<7746>>>>, <<8889, 5556, 5556>>)
integration_l4 == Rule(<<<<-3400>>, <<3400>>, <<-8611>>, <<8611>>>>, <<6521, 6521, 3479, 3479>>)
integration_l5 ==
  Rule(<<<<0>>, <<-5385>>, <<5385>>, <<-9062>>, <<9062>>>>, <<5689, 4786, 4786, 2369, 2369>>)
integration_l6 ==
  Rule(<<<<-2386>>, <<2386>>, <<-6612>>, <<6612>>, <<-9325>>, <<9325>>>>,
       <<4679, 4679, 3608, 3608, 1713, 1713>>)
integration_l7 ==
  Rule(<<<<0>>, <<-4058>>, <<4058>>, <<-7415>>, <<7415>>, <<-9491>>, <<9491>>>>,
       <<4180, 3818, 3818, 2797, 2797, 1295, 1295>>)

\* On the triangle (0, 0), (1, 0), (0, 1)
integration_t1 == Rule(<<<<3333, 3333>>>>, <<5000>>)
integration_t3 == Rule(<<<<5000, 5000>>, <<0, 5000>>, <<5000, 0>>>>, <<1667, 1667, 1667>>)

\* Mutant of fem_integration: the case of L4 ends without a break.
FallsThrough(scheme) ==
  CASE scheme = "L1" -> integration_l1 [] scheme = "L2" -> integration_l2
    [] scheme = "L3" -> integration_l3 [] scheme = "L4" -> integration_l5
    [] scheme = "L5" -> integration_l5 [] scheme = "L6" -> integration_l6
    [] scheme = "L7" -> integration_l7 [] scheme = "T1" -> integration_t1
    [] scheme = "T3" -> integration_t3 [] OTHER -> integration_none

fem_integration(scheme) ==
  CASE scheme = "L1" -> integration_l1 [] scheme = "L2" -> integration_l2
    [] scheme = "L3" -> integration_l3 [] scheme = "L4" -> integration_l4
    [] scheme = "L5" -> integration_l5 [] scheme = "L6" -> integration_l6
    [] scheme = "L7" -> integration_l7 [] scheme = "T1" -> integration_t1
    [] scheme = "T3" -> integration_t3 [] OTHER -> integration_none

-----------------------------------------------------------------------------
Scaled(a, b) == IF a * b < 0 THEN -((-(a * b) + Unit \div 2) \div Unit) ELSE (a * b + Unit \div 2) \div Unit

Power(x, k) == FoldLeft(Scaled, Unit, [i \in 1..k |-> x])

Factorial == <<1, 2, 6, 24>>
Fact(k) == IF k = 0 THEN 1 ELSE Factorial[k]

\* What the rule makes of the monomial with these exponents.
Sum(rule, exponents) ==
  FoldLeft(LAMBDA sum, k :
             sum + FoldLeft(Scaled, rule.weight[k],
                            [d \in DOMAIN exponents |-> Power(rule.point[k][d], exponents[d])]),
           0, [k \in 1..rule.nb |-> k])

Near(a, b) == a - b \in -8..8

\* A rule of n points is exact to the degree 2n - 1 on the segment.
LinesExact ==
  \A n \in 1..7 :
    LET rule == fem_integration(<<"L1", "L2", "L3", "L4", "L5", "L6", "L7">>[n])
    IN  /\ rule.nb = n
        /\ \A k \in 0..(2 * n - 1) :
             Near(Sum(rule, <<k>>), IF k % 2 = 1 THEN 0 ELSE (2 * Unit) \div (k + 1))

\* Those of the triangle are exact to the degrees 1 and 2.
TrianglesExact ==
  \A a, b \in 0..2 :
    LET exact == (Unit * Fact(a) * Fact(b)) \div Fact(a + b + 2)
    IN  /\ a + b <= 1 => Near(Sum(fem_integration("T1"), <<a, b>>), exact)
        /\ a + b <= 2 => Near(Sum(fem_integration("T3"), <<a, b>>), exact)
=============================================================================
