-------------------------- MODULE MCValidateWheels --------------------------
(* Instances of ValidateWheels for TLC: the project p and two dependencies *)
(* a and b.                                                                *)
EXTENDS ValidateWheels, TLC

CONSTANTS p, a, b, x, y

MCNames == {p, a, b}
MCExtras == {x, y}

Needs(when, to, extras) ==
  [bad |-> FALSE, when |-> when, to |-> to, fits |-> TRUE, extras |-> extras]
Always == {NoExtra, x, y}
Lists(pool, n) == UNION {[1..m -> pool] : m \in 0..n}

\* Requirements within the wheelhouse, circles among them, and two that fail.
OfProject == {Needs({x}, a, {x, y}), Needs(Always, b, {}), Needs({x}, p, {y}),
              Needs({y}, b, {x}), [Needs({y}, b, {}) EXCEPT !.fits = FALSE]}
OfA == {Needs({x}, b, {x}), Needs({y}, p, {y}), Needs(Always, a, {y}),
        [Needs({}, b, {}) EXCEPT !.bad = TRUE]}
OfB == {Needs({x}, a, {x}), Needs({x}, p, {x}), [Needs({x}, a, {}) EXCEPT !.fits = FALSE]}

Good(n, provides, requires) == [sound |-> TRUE, python |-> TRUE, name |-> n,
                                provides |-> provides, requires |-> requires]
Projects == {Good(p, provides, r) : provides \in {{x}, {x, y}}, r \in Lists(OfProject, 2)}
WheelsOfA == {Good(a, provides, r) : provides \in {{y}, {x, y}}, r \in Lists(OfA, 2)}
WheelsOfB == {Good(b, {x}, r) : r \in Lists(OfB, 1)}

\* Houses that are complete, lack a wheel, hold one twice or hold a bad one.
Houses == {<<v, w>> : v \in WheelsOfA, w \in WheelsOfB}
Oddities == {<<>>, <<Good(b, {x}, <<>>)>>, <<Good(a, {y}, <<>>), Good(a, {x}, <<>>)>>,
             <<[Good(a, {x, y}, <<>>) EXCEPT !.sound = FALSE]>>,
             <<[Good(a, {x, y}, <<>>) EXCEPT !.python = FALSE]>>}

MCInputs == {[wheels |-> Append(house, project), requested |-> asked] :
               house \in Houses \cup Oddities, project \in Projects,
               asked \in {<<x>>, <<x, y>>}}
=============================================================================
