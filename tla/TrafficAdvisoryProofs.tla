----------------------- MODULE TrafficAdvisoryProofs -----------------------
(***************************************************************************)
(* For any traffic, rule profile, templates, performance and look-ahead:   *)
(* what the closest-approach calculation decides about a pair, what the    *)
(* ranking selects, and what an assessment and a recommendation therefore  *)
(* promise about the motion of the aircraft; and that the records accept   *)
(* what the evaluators and the generator build.                            *)
(***************************************************************************)
EXTENDS TrafficAdvisory, FiniteSetTheorems, TLAPS

-----------------------------------------------------------------------------
(* Arithmetic of the closest approach *)

\* A product of two numbers of the same sign is not negative.
LEMMA SameSign ==
    ASSUME NEW a \in Int, NEW b \in Int, (a >= 0 /\ b >= 0) \/ (a <= 0 /\ b <= 0)
    PROVE  a * b >= 0
  BY SMT

\* Products with a natural number keep the order.
LEMMA ScaledOrder ==
    ASSUME NEW d \in Nat, NEW a \in Int, NEW b \in Int, a <= b
    PROVE  d * a <= d * b
  <1>1. d * (b - a) >= 0
    BY SameSign
  <1>2. d * (b - a) = d * b - d * a
    BY SMT
  <1>3. d * a \in Int /\ d * b \in Int
    BY SMT
  <1>. QED
    BY <1>1, <1>2, <1>3

\* The quotient is rounded to one of the two nearest ticks.
LEMMA ToTickFacts ==
    ASSUME NEW n \in Int, NEW d \in Nat, d # 0
    PROVE  LET t == ToTick(n, d)
           IN  /\ t \in Int
               /\ 2 * (d * t) - d <= 2 * n
               /\ 2 * n <= 2 * (d * t) + d
               /\ t <= n \div d + 1
  <1>. DEFINE q == n \div d
              r == n % d
  <1>1. q \in Int /\ r \in 0 .. (d - 1) /\ n = d * q + r
    BY SMT
  <1>. HIDE DEF q, r
  <1>2. d * (q + 1) = d * q + d /\ d * q \in Int
    BY <1>1, SMT
  <1>3. CASE 2 * r < d \/ (2 * r = d /\ q % 2 = 0)
    <2>1. ToTick(n, d) = q
      BY <1>3 DEF ToTick, q, r
    <2>. QED
      BY <1>1, <1>2, <1>3, <2>1 DEF q
  <1>4. CASE ~(2 * r < d \/ (2 * r = d /\ q % 2 = 0))
    <2>1. ToTick(n, d) = q + 1
      BY <1>4 DEF ToTick, q, r
    <2>2. 2 * r >= d
      BY <1>1, <1>4
    <2>. QED
      BY <1>1, <1>2, <2>1, <2>2 DEF q
  <1>. QED
    BY <1>3, <1>4

\* The tick chosen lies inside the look-ahead, and no tick of the look-ahead
\* makes d * k^2 - 2 * n * k smaller.
LEMMA TcpaMinimizes ==
    ASSUME NEW n \in Int, NEW d \in Nat, d # 0, NEW k \in 0 .. Horizon
    PROVE  LET t == Tcpa(n, d)
           IN  /\ t \in 0 .. Horizon
               /\ (k - t) * (d * (k + t) - 2 * n) >= 0
  <1>. USE HorizonAssumption
  <1>. DEFINE t == Tcpa(n, d)
  <1>. SUFFICES t \in 0 .. Horizon /\ (k - t) * (d * (k + t) - 2 * n) >= 0
    OBVIOUS
  <1>1. CASE n <= 0
    <2>1. t = 0
      BY <1>1 DEF Tcpa
    <2>2. d * k >= 0 /\ d * k \in Int
      BY SameSign
    <2>. QED
      BY <1>1, <2>1, <2>2, SameSign
  <1>2. CASE n > 0 /\ n >= Horizon * d
    <2>1. t = Horizon
      BY <1>2 DEF Tcpa
    <2>2. d * (k + Horizon) <= d * (Horizon + Horizon)
      BY ScaledOrder
    <2>3. d * (Horizon + Horizon) = 2 * (Horizon * d)
      BY SMT
    <2>4. d * (k + Horizon) \in Int /\ Horizon * d \in Int
      BY SMT
    <2>5. d * (k + Horizon) - 2 * n <= 0 /\ d * (k + Horizon) - 2 * n \in Int
      BY <1>2, <2>2, <2>3, <2>4
    <2>. QED
      BY <2>1, <2>5, SameSign
  <1>3. CASE n > 0 /\ n < Horizon * d
    <2>1. t = ToTick(n, d)
      BY <1>3 DEF Tcpa
    <2>2. /\ t \in Int
          /\ 2 * (d * t) - d <= 2 * n
          /\ 2 * n <= 2 * (d * t) + d
      BY <2>1, ToTickFacts
    <2>. HIDE DEF t
    <2>3. t >= 0
      <3>1. ASSUME t <= -1 PROVE FALSE
        <4>1. d * t <= d * (-1)
          BY <2>2, <3>1, ScaledOrder
        <4>2. d * (-1) = -d /\ d * t \in Int
          BY <2>2, SMT
        <4>. QED
          BY <1>3, <2>2, <4>1, <4>2
      <3>. QED
        BY <2>2, <3>1
    <2>4. t <= Horizon
      <3>1. ASSUME t >= Horizon + 1 PROVE FALSE
        <4>1. d * (Horizon + 1) <= d * t
          BY <2>2, <3>1, ScaledOrder
        <4>2. d * (Horizon + 1) = Horizon * d + d /\ d * t \in Int /\ Horizon * d \in Int
          BY <2>2, SMT
        <4>. QED
          BY <1>3, <2>2, <4>1, <4>2
      <3>. QED
        BY <2>2, <3>1
    <2>5. d * t \in Int /\ d * (k + t) \in Int
      BY <2>2, SMT
    <2>6. CASE k > t
      <3>1. d * (2 * t + 1) <= d * (k + t)
        BY <2>2, <2>6, ScaledOrder
      <3>2. d * (2 * t + 1) = 2 * (d * t) + d
        BY <2>2, SMT
      <3>. QED
        BY <2>2, <2>3, <2>4, <2>5, <2>6, <3>1, <3>2, SameSign
    <2>7. CASE k < t
      <3>1. d * (k + t) <= d * (2 * t - 1)
        BY <2>2, <2>7, ScaledOrder
      <3>2. d * (2 * t - 1) = 2 * (d * t) - d
        BY <2>2, SMT
      <3>. QED
        BY <2>2, <2>3, <2>4, <2>5, <2>7, <3>1, <3>2, SameSign
    <2>8. CASE k = t
      BY <2>2, <2>3, <2>4, <2>5, <2>8, SameSign
    <2>. QED
      BY <2>2, <2>6, <2>7, <2>8
  <1>4. Horizon * d \in Int
    BY SMT
  <1>. HIDE DEF t
  <1>. QED
    BY <1>1, <1>2, <1>3, <1>4

\* As an approach comes nearer its tick does not move away.
LEMMA TcpaMonotone ==
    ASSUME NEW n \in Int, NEW m \in Int, m <= n, NEW d \in Nat
    PROVE  Tcpa(m, d) <= Tcpa(n, d)
  <1>1. CASE d = 0
    BY <1>1 DEF Tcpa
  <1>2. CASE d # 0
    <2>. DEFINE L == Horizon * d
    <2>1. L \in Int /\ Horizon \in Nat
      BY HorizonAssumption, SMT
    <2>2. 0 \in 0 .. Horizon
      BY <2>1
    <2>3. Tcpa(m, d) \in 0 .. Horizon /\ Tcpa(n, d) \in 0 .. Horizon
      BY <1>2, <2>2, TcpaMinimizes
    <2>4. CASE m <= 0 \/ n >= L
      <3>1. m <= 0 => Tcpa(m, d) = 0
        BY <1>2 DEF Tcpa
      <3>2. n > 0 /\ n >= L => Tcpa(n, d) = Horizon
        BY <1>2, <2>1 DEF Tcpa
      <3>3. n <= 0 => m <= 0
        OBVIOUS
      <3>. HIDE DEF L
      <3>. QED
        BY <2>1, <2>3, <2>4, <3>1, <3>2, <3>3
    <2>5. CASE m > 0 /\ n < L
      <3>. DEFINE i == m \div d
                  r == m % d
                  j == n \div d
                  q == n % d
      <3>1. /\ i \in Int /\ r \in 0 .. (d - 1) /\ m = d * i + r
            /\ j \in Int /\ q \in 0 .. (d - 1) /\ n = d * j + q
        BY <1>2, SMT
      <3>2. /\ Tcpa(m, d) = ToTick(m, d) /\ Tcpa(n, d) = ToTick(n, d)
        BY <1>2, <2>1, <2>5 DEF Tcpa
      <3>3. /\ ToTick(m, d) = IF 2 * r < d \/ (2 * r = d /\ i % 2 = 0) THEN i ELSE i + 1
            /\ ToTick(n, d) = IF 2 * q < d \/ (2 * q = d /\ j % 2 = 0) THEN j ELSE j + 1
        BY DEF ToTick
      <3>. HIDE DEF i, r, j, q, L
      <3>4. i <= j
        <4>1. ASSUME j + 1 <= i PROVE FALSE
          <5>1. d * (j + 1) <= d * i
            BY <3>1, <4>1, ScaledOrder
          <5>2. d * (j + 1) = d * j + d /\ d * i \in Int /\ d * j \in Int
            BY <3>1, SMT
          <5>. QED
            BY <3>1, <5>1, <5>2
        <4>. QED
          BY <3>1, <4>1
      <3>5. CASE i = j
        <4>1. d * i = d * j /\ d * i \in Int
          BY <3>1, <3>5, SMT
        <4>2. r <= q
          BY <3>1, <4>1
        <4>. QED
          BY <3>1, <3>2, <3>3, <3>5, <4>2
      <3>6. CASE i < j
        BY <3>1, <3>2, <3>3, <3>6
      <3>. QED
        BY <3>1, <3>4, <3>5, <3>6
    <2>. HIDE DEF L
    <2>. QED
      BY <2>1, <2>4, <2>5
  <1>. QED
    BY <1>1, <1>2

-----------------------------------------------------------------------------
(* Motion.  A maneuver may command any heading, which moves an aircraft like *)
(* none of the four right angles.                                           *)

Moving == [x : Int, y : Int, alt : Int, gs : Int, hdg : Int, vs : Int,
           at : Nat, emergency : BOOLEAN]

LEMMA StatesMove == States \subseteq Moving
  BY DEF States, Moving, Headings

LEMMA VelocityType == \A h : East(h) \in Int /\ North(h) \in Int
  BY DEF East, North

\* The components of a velocity.
VX(s) == s.gs * East(s.hdg)
VY(s) == s.gs * North(s.hdg)

LEMMA VelocityFacts ==
    ASSUME NEW s \in Moving
    PROVE  VX(s) \in Int /\ VY(s) \in Int
  <1>1. s.gs \in Int /\ East(s.hdg) \in Int /\ North(s.hdg) \in Int
    BY VelocityType DEF Moving
  <1>. QED
    BY <1>1, SMT DEF VX, VY

LEMMA DisplacementFacts ==
    ASSUME NEW s \in Moving, NEW k \in Int
    PROVE  /\ Displacement(s, k).x = s.x + VX(s) * k
           /\ Displacement(s, k).y = s.y + VY(s) * k
           /\ Displacement(s, k).alt = s.alt + s.vs * k
           /\ Displacement(s, k) \in Points
  <1>1. /\ Displacement(s, k).x = s.x + VX(s) * k
        /\ Displacement(s, k).y = s.y + VY(s) * k
        /\ Displacement(s, k).alt = s.alt + s.vs * k
    BY DEF Displacement, VX, VY
  <1>2. s.x \in Int /\ s.y \in Int /\ s.alt \in Int /\ s.vs \in Int
    BY DEF Moving
  <1>3. VX(s) * k \in Int /\ VY(s) * k \in Int /\ s.vs * k \in Int
    BY <1>2, VelocityFacts, SMT
  <1>4. Displacement(s, k) = [x   |-> Displacement(s, k).x, y |-> Displacement(s, k).y,
                              alt |-> Displacement(s, k).alt]
    BY DEF Displacement
  <1>. QED
    BY <1>1, <1>2, <1>3, <1>4 DEF Points

\* A state a number of ticks away keeps everything but the place.
LEMMA ShiftedFacts ==
    ASSUME NEW s \in Moving, NEW k \in Int
    PROVE  /\ Shifted(s, k) \in Moving
           /\ s \in States => Shifted(s, k) \in States
           /\ Shifted(s, k).x = s.x + VX(s) * k
           /\ Shifted(s, k).y = s.y + VY(s) * k
           /\ Shifted(s, k).alt = s.alt + s.vs * k
           /\ Shifted(s, k).at = s.at
           /\ Shifted(s, k).gs = s.gs /\ Shifted(s, k).hdg = s.hdg /\ Shifted(s, k).vs = s.vs
           /\ Shifted(s, k).emergency = s.emergency
  <1>. DEFINE d == Displacement(s, k)
  <1>1. d \in Points
    BY DisplacementFacts
  <1>2. Shifted(s, k) = [s EXCEPT !.x = d.x, !.y = d.y, !.alt = d.alt]
    BY DEF Shifted
  <1>3. d.x \in Int /\ d.y \in Int /\ d.alt \in Int
    BY <1>1 DEF Points
  <1>4. d.x = s.x + VX(s) * k /\ d.y = s.y + VY(s) * k /\ d.alt = s.alt + s.vs * k
    BY DisplacementFacts
  <1>. HIDE DEF d
  <1>. QED
    BY <1>2, <1>3, <1>4 DEF Moving, States

LEMMA MovedFacts ==
    ASSUME NEW s \in Moving, NEW t \in Nat
    PROVE  /\ Moved(s, t) \in Moving
           /\ s \in States => Moved(s, t) \in States
           /\ Moved(s, t).x = s.x + VX(s) * (t - s.at)
           /\ Moved(s, t).y = s.y + VY(s) * (t - s.at)
           /\ Moved(s, t).alt = s.alt + s.vs * (t - s.at)
           /\ Moved(s, t).at = t
           /\ Moved(s, t).gs = s.gs /\ Moved(s, t).hdg = s.hdg /\ Moved(s, t).vs = s.vs
           /\ Moved(s, t).emergency = s.emergency
  <1>1. t - s.at \in Int
    BY DEF Moving
  <1>. DEFINE r == Shifted(s, t - s.at)
  <1>2. Moved(s, t) = [r EXCEPT !.at = t]
    BY DEF Moved
  <1>3. /\ r \in Moving
        /\ s \in States => r \in States
        /\ r.x = s.x + VX(s) * (t - s.at)
        /\ r.y = s.y + VY(s) * (t - s.at)
        /\ r.alt = s.alt + s.vs * (t - s.at)
        /\ r.gs = s.gs /\ r.hdg = s.hdg /\ r.vs = s.vs
        /\ r.emergency = s.emergency
    BY <1>1, ShiftedFacts
  <1>. HIDE DEF r
  <1>. QED
    BY <1>2, <1>3 DEF Moving, States

\* Moved a tick at a time or all at once, an aircraft arrives at the same place.
LEMMA MovedDisplacement ==
    ASSUME NEW s \in Moving, NEW t \in Nat, NEW k \in Int
    PROVE  Displacement(Moved(s, t), k) = Displacement(s, t - s.at + k)
  <1>. DEFINE m == Moved(s, t)
  <1>1. /\ m.x = s.x + VX(s) * (t - s.at) /\ m.y = s.y + VY(s) * (t - s.at)
        /\ m.alt = s.alt + s.vs * (t - s.at)
        /\ VX(m) = VX(s) /\ VY(m) = VY(s) /\ m.vs = s.vs
        /\ m \in Moving
    BY MovedFacts DEF VX, VY
  <1>. HIDE DEF m
  <1>2. /\ s.x \in Int /\ s.y \in Int /\ s.alt \in Int /\ s.vs \in Int /\ s.at \in Int
        /\ VX(s) \in Int /\ VY(s) \in Int
    BY VelocityFacts DEF Moving
  <1>3. \A v \in Int : v * (t - s.at) + v * k = v * (t - s.at + k)
    BY <1>2, SMT
  <1>4. \A v \in Int : v * (t - s.at) \in Int /\ v * k \in Int
    BY <1>2, SMT
  <1>5. \A z, v \in Int : (z + v * (t - s.at)) + v * k = z + v * (t - s.at + k)
    BY <1>3, <1>4
  <1>6. /\ m.x + VX(m) * k = s.x + VX(s) * (t - s.at + k)
        /\ m.y + VY(m) * k = s.y + VY(s) * (t - s.at + k)
        /\ m.alt + m.vs * k = s.alt + s.vs * (t - s.at + k)
    <2>1. /\ (s.x + VX(s) * (t - s.at)) + VX(s) * k = s.x + VX(s) * (t - s.at + k)
          /\ (s.y + VY(s) * (t - s.at)) + VY(s) * k = s.y + VY(s) * (t - s.at + k)
          /\ (s.alt + s.vs * (t - s.at)) + s.vs * k = s.alt + s.vs * (t - s.at + k)
      BY <1>2, <1>5
    <2>. QED
      BY <1>1, <2>1
  <1>7. \A u, j : Displacement(u, j) = [x   |-> u.x + VX(u) * j, y |-> u.y + VY(u) * j,
                                        alt |-> u.alt + u.vs * j]
    BY DEF Displacement, VX, VY
  <1>. QED
    BY <1>6, <1>7 DEF m

LEMMA AlignedDisplacement ==
    ASSUME NEW s \in Moving, NEW t \in Nat, NEW k \in Int
    PROVE  /\ Aligned(s, t) \in Moving /\ Aligned(s, t).vs = s.vs
           /\ Displacement(Aligned(s, t), k) = Displacement(s, t - s.at + k)
  <1>1. CASE s.at = t
    <2>1. t - s.at + k = k
      BY <1>1
    <2>. QED
      BY <1>1, <2>1 DEF Aligned
  <1>2. CASE s.at # t
    BY <1>2, MovedFacts, MovedDisplacement DEF Aligned
  <1>. QED
    BY <1>1, <1>2

-----------------------------------------------------------------------------
(* The closest approach of a pair *)

\* The squared distance of two points in uniform motion, at two times.
LEMMA SquaredDistances ==
    ASSUME NEW r \in Int, NEW v \in Int, NEW k \in Int, NEW t \in Int
    PROVE  (r + v * k) * (r + v * k) - (r + v * t) * (r + v * t)
               = (k - t) * ((v * v) * (k + t) + 2 * (r * v))
  BY SMT

LEMMA SeparationFacts ==
    ASSUME NEW a \in Moving, NEW b \in Moving, NEW k \in Int
    PROVE  LET sx == (b.x - a.x) + (VX(b) - VX(a)) * k
               sy == (b.y - a.y) + (VY(b) - VY(a)) * k
               rise == (b.alt - a.alt) + (b.vs - a.vs) * k
           IN  /\ SeparationAfter(a, b, k).dist2 = sx * sx + sy * sy
               /\ SeparationAfter(a, b, k).vert = IF rise >= 0 THEN rise ELSE -rise
               /\ SeparationAfter(a, b, k).dist2 \in Int
               /\ sx \in Int /\ sy \in Int /\ rise \in Int
  <1>. DEFINE sx == (b.x - a.x) + (VX(b) - VX(a)) * k
              sy == (b.y - a.y) + (VY(b) - VY(a)) * k
              rise == (b.alt - a.alt) + (b.vs - a.vs) * k
              p == Displacement(a, k)
              q == Displacement(b, k)
  <1>1. /\ a.x \in Int /\ a.y \in Int /\ a.alt \in Int /\ a.vs \in Int
        /\ b.x \in Int /\ b.y \in Int /\ b.alt \in Int /\ b.vs \in Int
        /\ VX(a) \in Int /\ VY(a) \in Int /\ VX(b) \in Int /\ VY(b) \in Int
    BY VelocityFacts DEF Moving
  <1>2. \A z, w, u, v \in Int : (z + u * k) - (w + v * k) = (z - w) + (u - v) * k
    BY SMT
  <1>3. \A z, u \in Int : z + u * k \in Int
    BY SMT
  <1>4. q.x - p.x = sx /\ q.y - p.y = sy /\ q.alt - p.alt = rise
    <2>1. /\ p.x = a.x + VX(a) * k /\ p.y = a.y + VY(a) * k /\ p.alt = a.alt + a.vs * k
          /\ q.x = b.x + VX(b) * k /\ q.y = b.y + VY(b) * k /\ q.alt = b.alt + b.vs * k
      BY DisplacementFacts
    <2>. HIDE DEF p, q
    <2>2. (b.x + VX(b) * k) - (a.x + VX(a) * k) = sx
      BY <1>1, <1>2
    <2>3. (b.y + VY(b) * k) - (a.y + VY(a) * k) = sy
      BY <1>1, <1>2
    <2>4. (b.alt + b.vs * k) - (a.alt + a.vs * k) = rise
      BY <1>1, <1>2
    <2>. QED
      BY <2>1, <2>2, <2>3, <2>4
  <1>5. sx \in Int /\ sy \in Int /\ rise \in Int
    BY <1>1, <1>3
  <1>6. /\ SeparationAfter(a, b, k).dist2
               = (q.x - p.x) * (q.x - p.x) + (q.y - p.y) * (q.y - p.y)
        /\ SeparationAfter(a, b, k).vert
               = IF q.alt >= p.alt THEN q.alt - p.alt ELSE p.alt - q.alt
    BY DEF SeparationAfter
  <1>7. q.alt \in Int /\ p.alt \in Int
    BY DisplacementFacts DEF Points
  <1>. HIDE DEF sx, sy, rise, p, q
  <1>8. SeparationAfter(a, b, k).vert = IF rise >= 0 THEN rise ELSE -rise
    BY <1>4, <1>6, <1>7
  <1>9. sx * sx + sy * sy \in Int
    BY <1>5, SMT
  <1>. QED
    BY <1>4, <1>5, <1>6, <1>8, <1>9 DEF sx, sy, rise

\* At no tick of the look-ahead is a pair closer than at its closest approach.
LEMMA ClosestApproachFacts ==
    ASSUME NEW a \in Moving, NEW b \in Moving, NEW k \in 0 .. Horizon
    PROVE  /\ ClosestApproach(a, b).tcpa \in 0 .. Horizon
           /\ ClosestApproach(a, b).minimum = SeparationAfter(a, b, ClosestApproach(a, b).tcpa)
           /\ SeparationAfter(a, b, k).dist2 >= ClosestApproach(a, b).minimum.dist2
           /\ SeparationAfter(a, b, k).dist2 \in Int
           /\ ClosestApproach(a, b).minimum.dist2 \in Int
  <1>. DEFINE rx == b.x - a.x
              ry == b.y - a.y
              vx == VX(b) - VX(a)
              vy == VY(b) - VY(a)
              n == -(rx * vx + ry * vy)
              d == vx * vx + vy * vy
              t == Tcpa(n, d)
              Dist(j) == (rx + vx * j) * (rx + vx * j) + (ry + vy * j) * (ry + vy * j)
  <1>1. /\ ClosestApproach(a, b).tcpa = t
        /\ ClosestApproach(a, b).minimum = SeparationAfter(a, b, t)
    BY DEF ClosestApproach, VX, VY
  <1>2. rx \in Int /\ ry \in Int /\ vx \in Int /\ vy \in Int
    BY VelocityFacts DEF Moving
  <1>3. \A j \in Int : SeparationAfter(a, b, j).dist2 = Dist(j) /\ Dist(j) \in Int
    <2>. SUFFICES ASSUME NEW j \in Int
                  PROVE  SeparationAfter(a, b, j).dist2 = Dist(j) /\ Dist(j) \in Int
      OBVIOUS
    <2>1. /\ SeparationAfter(a, b, j).dist2 = Dist(j)
          /\ SeparationAfter(a, b, j).dist2 \in Int
      BY SeparationFacts
    <2>. QED
      BY <2>1
  <1>. HIDE DEF rx, ry, vx, vy
  <1>4. vx * vx >= 0 /\ vy * vy >= 0 /\ vx * vx \in Int /\ vy * vy \in Int
    BY <1>2, SMT
  <1>5. n \in Int /\ d \in Nat
    BY <1>2, <1>4, SMT
  <1>6. t \in 0 .. Horizon /\ Dist(k) >= Dist(t)
    <2>1. CASE d = 0
      <3>1. t = 0
        BY <2>1, HorizonAssumption DEF Tcpa
      <3>2. vx * vx = 0 /\ vy * vy = 0
        BY <1>4, <2>1
      <3>3. vx = 0 /\ vy = 0
        BY <1>2, <3>2, SMT
      <3>4. Dist(k) = Dist(t)
        BY <1>2, <3>1, <3>3, SMT
      <3>. QED
        BY <1>3, <3>1, <3>4, HorizonAssumption
    <2>2. CASE d # 0
      <3>1. t \in 0 .. Horizon /\ (k - t) * (d * (k + t) - 2 * n) >= 0
        BY <1>5, <2>2, TcpaMinimizes
      <3>2. t \in Int /\ k \in Int
        BY <3>1, HorizonAssumption
      <3>. HIDE DEF t
      <3>3. Dist(k) - Dist(t) = (k - t) * ((vx * vx) * (k + t) + 2 * (rx * vx))
                                + (k - t) * ((vy * vy) * (k + t) + 2 * (ry * vy))
        <4>. DEFINE X(j) == (rx + vx * j) * (rx + vx * j)
                    Y(j) == (ry + vy * j) * (ry + vy * j)
        <4>1. /\ X(k) - X(t) = (k - t) * ((vx * vx) * (k + t) + 2 * (rx * vx))
              /\ Y(k) - Y(t) = (k - t) * ((vy * vy) * (k + t) + 2 * (ry * vy))
          BY <1>2, <3>2, SquaredDistances
        <4>2. X(k) \in Int /\ X(t) \in Int /\ Y(k) \in Int /\ Y(t) \in Int
          BY <1>2, <3>2, SMT
        <4>3. Dist(k) = X(k) + Y(k) /\ Dist(t) = X(t) + Y(t)
          OBVIOUS
        <4>. HIDE DEF X, Y, Dist
        <4>. QED
          BY <4>1, <4>2, <4>3
      <3>4. (k - t) * ((vx * vx) * (k + t) + 2 * (rx * vx))
                + (k - t) * ((vy * vy) * (k + t) + 2 * (ry * vy))
            = (k - t) * (d * (k + t) - 2 * n)
        BY <1>2, <3>2, SMT
      <3>. QED
        BY <1>3, <3>1, <3>2, <3>3, <3>4
    <2>. QED
      BY <2>1, <2>2
  <1>. HIDE DEF t, Dist
  <1>. QED
    BY <1>1, <1>3, <1>6, HorizonAssumption

\* Two aircraft with equal vertical speeds keep their vertical separation.
LEMMA LevelFacts ==
    ASSUME NEW a \in Moving, NEW b \in Moving, a.vs = b.vs, NEW k \in Int, NEW j \in Int
    PROVE  SeparationAfter(a, b, k).vert = SeparationAfter(a, b, j).vert
  <1>1. a.vs \in Int /\ b.vs \in Int /\ a.alt \in Int /\ b.alt \in Int
    BY DEF Moving
  <1>2. (b.vs - a.vs) * k = 0 /\ (b.vs - a.vs) * j = 0
    BY <1>1, SMT
  <1>. DEFINE Rise(i) == (b.alt - a.alt) + (b.vs - a.vs) * i
  <1>3. Rise(k) = Rise(j)
    BY <1>1, <1>2
  <1>4. /\ SeparationAfter(a, b, k).vert = IF Rise(k) >= 0 THEN Rise(k) ELSE -Rise(k)
        /\ SeparationAfter(a, b, j).vert = IF Rise(j) >= 0 THEN Rise(j) ELSE -Rise(j)
    BY SeparationFacts
  <1>. HIDE DEF Rise
  <1>. QED
    BY <1>3, <1>4

\* A level pair that loses its separation at some tick of the look-ahead is a
\* predicted conflict.
LEMMA LossIsPredicted ==
    ASSUME NEW a \in Moving, NEW b \in Moving, a.vs = b.vs, NEW k \in 0 .. Horizon,
           Lost(SeparationAfter(a, b, k))
    PROVE  ConflictEvent(a, b).status = "PREDICTED"
  <1>. DEFINE c == ClosestApproach(a, b)
  <1>1. /\ c.tcpa \in 0 .. Horizon
        /\ c.minimum = SeparationAfter(a, b, c.tcpa)
        /\ SeparationAfter(a, b, k).dist2 >= c.minimum.dist2
        /\ SeparationAfter(a, b, k).dist2 \in Int /\ c.minimum.dist2 \in Int
    BY ClosestApproachFacts
  <1>2. c.minimum.vert = SeparationAfter(a, b, k).vert
    BY <1>1, LevelFacts, HorizonAssumption
  <1>3. HorizontalThreshold * HorizontalThreshold \in Int
    BY RuleProfileAssumption, SMT
  <1>4. ConflictEvent(a, b).status = Classify(c.minimum)
    BY DEF ConflictEvent
  <1>. HIDE DEF c
  <1>5. Lost(c.minimum)
    BY <1>1, <1>2, <1>3 DEF Lost
  <1>. QED
    BY <1>4, <1>5 DEF Classify

\* A pair flies on towards its closest approach: assessed again, its risk is no
\* lower.
LEMMA ApproachAgain ==
    ASSUME NEW a \in Moving, NEW b \in Moving, NEW c \in Moving, NEW d \in Moving, a.vs = b.vs,
           NEW m \in Nat, m <= ClosestApproach(a, b).tcpa,
           \A k \in Int : /\ Displacement(c, k) = Displacement(a, m + k)
                          /\ Displacement(d, k) = Displacement(b, m + k)
    PROVE  RiskPlace(ConflictEvent(c, d)) >= RiskPlace(ConflictEvent(a, b))
  <1>. DEFINE near == ClosestApproach(a, b)
              again == ClosestApproach(c, d)
              vx == VX(b) - VX(a)
              vy == VY(b) - VY(a)
              speed == vx * vx + vy * vy
              closing == -((b.x - a.x) * vx + (b.y - a.y) * vy)
  <1>1. \A k \in Int : SeparationAfter(c, d, k) = SeparationAfter(a, b, m + k)
    BY DEF SeparationAfter
  <1>2. /\ c.x = a.x + VX(a) * m /\ c.y = a.y + VY(a) * m /\ VX(c) = VX(a) /\ VY(c) = VY(a)
        /\ d.x = b.x + VX(b) * m /\ d.y = b.y + VY(b) * m /\ VX(d) = VX(b) /\ VY(d) = VY(b)
    <2>1. ASSUME NEW s \in Moving, NEW r \in Moving,
                 \A k \in Int : Displacement(r, k) = Displacement(s, m + k)
          PROVE  r.x = s.x + VX(s) * m /\ r.y = s.y + VY(s) * m /\ VX(r) = VX(s) /\ VY(r) = VY(s)
      <3>1. /\ s.x \in Int /\ s.y \in Int /\ VX(s) \in Int /\ VY(s) \in Int
            /\ r.x \in Int /\ r.y \in Int /\ VX(r) \in Int /\ VY(r) \in Int
        BY VelocityFacts DEF Moving
      <3>2. /\ r.x + VX(r) * 0 = s.x + VX(s) * m /\ r.x + VX(r) * 1 = s.x + VX(s) * (m + 1)
            /\ r.y + VY(r) * 0 = s.y + VY(s) * m /\ r.y + VY(r) * 1 = s.y + VY(s) * (m + 1)
        <4>1. /\ Displacement(r, 0) = Displacement(s, m)
              /\ Displacement(r, 1) = Displacement(s, m + 1)
          <5>1. m + 0 = m
            OBVIOUS
          <5>. QED
            BY <2>1, <5>1
        <4>2. \A e \in Moving, k \in Int : /\ Displacement(e, k).x = e.x + VX(e) * k
                                           /\ Displacement(e, k).y = e.y + VY(e) * k
          BY DisplacementFacts
        <4>3. m \in Int /\ m + 1 \in Int /\ 0 \in Int /\ 1 \in Int
          OBVIOUS
        <4>. QED
          BY <4>1, <4>2, <4>3
      <3>3. r.x = s.x + VX(s) * m /\ VX(r) = VX(s)
        <4>. DEFINE z == r.x
                    v == VX(r)
                    w == s.x
                    u == VX(s)
                    q == u * m
        <4>1. z \in Int /\ v \in Int /\ w \in Int /\ u \in Int
          BY <3>1
        <4>2. z + v * 0 = w + u * m /\ z + v * 1 = w + u * (m + 1)
          BY <3>2
        <4>. HIDE DEF z, v, w, u
        <4>3. q \in Int /\ v * 0 = 0 /\ v * 1 = v /\ u * (m + 1) = q + u
          BY <4>1, SMT
        <4>4. z + 0 = w + q /\ z + v = w + (q + u)
          BY <4>2, <4>3
        <4>. HIDE DEF q
        <4>5. z = w + q /\ v = u
          BY <4>1, <4>3, <4>4
        <4>. QED
          BY <4>5 DEF z, v, w, u, q
      <3>4. r.y = s.y + VY(s) * m /\ VY(r) = VY(s)
        <4>. DEFINE z == r.y
                    v == VY(r)
                    w == s.y
                    u == VY(s)
                    q == u * m
        <4>1. z \in Int /\ v \in Int /\ w \in Int /\ u \in Int
          BY <3>1
        <4>2. z + v * 0 = w + u * m /\ z + v * 1 = w + u * (m + 1)
          BY <3>2
        <4>. HIDE DEF z, v, w, u
        <4>3. q \in Int /\ v * 0 = 0 /\ v * 1 = v /\ u * (m + 1) = q + u
          BY <4>1, SMT
        <4>4. z + 0 = w + q /\ z + v = w + (q + u)
          BY <4>2, <4>3
        <4>. HIDE DEF q
        <4>5. z = w + q /\ v = u
          BY <4>1, <4>3, <4>4
        <4>. QED
          BY <4>5 DEF z, v, w, u, q
      <3>. QED
        BY <3>3, <3>4
    <2>2. /\ \A k \in Int : Displacement(c, k) = Displacement(a, m + k)
          /\ \A k \in Int : Displacement(d, k) = Displacement(b, m + k)
      OBVIOUS
    <2>. QED
      BY <2>1, <2>2
  <1>3. near.tcpa = Tcpa(closing, speed)
    BY DEF ClosestApproach, VX, VY
  <1>4. /\ a.x \in Int /\ a.y \in Int /\ b.x \in Int /\ b.y \in Int
        /\ VX(a) \in Int /\ VY(a) \in Int /\ VX(b) \in Int /\ VY(b) \in Int
        /\ vx \in Int /\ vy \in Int
    BY VelocityFacts DEF Moving
  <1>5. again.tcpa = Tcpa(closing - speed * m, speed)
    <2>1. \A z, w, u, v \in Int : (z + v * m) - (w + u * m) = (z - w) + (v - u) * m
      BY SMT
    <2>2. d.x - c.x = (b.x - a.x) + vx * m /\ d.y - c.y = (b.y - a.y) + vy * m
      BY <1>2, <1>4, <2>1
    <2>3. again.tcpa = Tcpa(-((d.x - c.x) * vx + (d.y - c.y) * vy), speed)
      <3>1. again.tcpa = Tcpa(-((d.x - c.x) * (VX(d) - VX(c)) + (d.y - c.y) * (VY(d) - VY(c))),
                              (VX(d) - VX(c)) * (VX(d) - VX(c)) + (VY(d) - VY(c)) * (VY(d) - VY(c)))
        BY DEF ClosestApproach, VX, VY
      <3>. QED
        BY <1>2, <3>1
    <2>4. b.x - a.x \in Int /\ b.y - a.y \in Int
      BY <1>4
    <2>. DEFINE rx == b.x - a.x
                ry == b.y - a.y
    <2>. HIDE DEF vx, vy, rx, ry
    <2>5. -((rx + vx * m) * vx + (ry + vy * m) * vy)
              = -(rx * vx + ry * vy) - (vx * vx + vy * vy) * m
      BY <1>4, <2>4, SMT DEF rx, ry
    <2>. QED
      BY <2>2, <2>3, <2>5 DEF rx, ry
  <1>6. speed \in Nat /\ closing \in Int /\ speed * m >= 0 /\ speed * m \in Int
    <2>. HIDE DEF vx, vy
    <2>1. vx * vx \in Nat /\ vy * vy \in Nat
      BY <1>4, SMT
    <2>2. speed \in Nat
      BY <2>1
    <2>3. b.x - a.x \in Int /\ b.y - a.y \in Int
      BY <1>4
    <2>4. closing \in Int
      BY <1>4, <2>3, SMT
    <2>. HIDE DEF speed, closing
    <2>5. speed * m \in Int /\ speed * m >= 0
      BY <2>2, SMT
    <2>. QED
      BY <2>2, <2>4, <2>5
  <1>7. again.tcpa <= near.tcpa
    <2>. HIDE DEF speed, closing, near, again
    <2>1. closing - speed * m \in Int /\ closing - speed * m <= closing
      BY <1>6
    <2>. QED
      BY <1>3, <1>5, <1>6, <2>1, TcpaMonotone
  <1>8. /\ near.tcpa \in 0 .. Horizon /\ near.minimum = SeparationAfter(a, b, near.tcpa)
        /\ again.tcpa \in 0 .. Horizon /\ again.minimum = SeparationAfter(c, d, again.tcpa)
    BY ClosestApproachFacts, HorizonAssumption
  <1>9. /\ again.minimum.dist2 <= near.minimum.dist2
        /\ again.minimum.dist2 \in Int /\ near.minimum.dist2 \in Int
    <2>. DEFINE k == near.tcpa - m
    <2>1. k \in 0 .. Horizon /\ k \in Int /\ m + k = near.tcpa
      BY <1>8, HorizonAssumption
    <2>. HIDE DEF k
    <2>2. /\ SeparationAfter(c, d, k).dist2 >= again.minimum.dist2
          /\ SeparationAfter(c, d, k).dist2 \in Int /\ again.minimum.dist2 \in Int
      BY <2>1, ClosestApproachFacts
    <2>3. SeparationAfter(c, d, k) = near.minimum
      BY <1>1, <1>8, <2>1
    <2>. QED
      BY <2>2, <2>3
  <1>10. again.minimum.vert = near.minimum.vert
    <2>. HIDE DEF near, again
    <2>1. again.minimum = SeparationAfter(a, b, m + again.tcpa)
      BY <1>1, <1>8, HorizonAssumption
    <2>2. m + again.tcpa \in Int /\ near.tcpa \in Int
      BY <1>8, HorizonAssumption
    <2>. QED
      BY <1>8, <2>1, <2>2, LevelFacts
  <1>11. /\ ConflictEvent(a, b).status = Classify(near.minimum)
         /\ ConflictEvent(a, b).tcpa = near.tcpa /\ ConflictEvent(a, b).minimum = near.minimum
         /\ ConflictEvent(c, d).status = Classify(again.minimum)
         /\ ConflictEvent(c, d).tcpa = again.tcpa /\ ConflictEvent(c, d).minimum = again.minimum
    BY DEF ConflictEvent
  <1>. HIDE DEF near, again, speed, closing, vx, vy
  <1>12. /\ Lost(near.minimum) => Lost(again.minimum)
         /\ NearThreshold(near.minimum) => NearThreshold(again.minimum)
    <2>1. /\ HorizontalThreshold * HorizontalThreshold \in Int
          /\ 25 * HorizontalThreshold * HorizontalThreshold \in Int
      BY RuleProfileAssumption, SMT
    <2>. QED
      BY <1>9, <1>10, <2>1 DEF Lost, NearThreshold
  <1>. QED
    BY <1>7, <1>8, <1>11, <1>12, RiskPolicyAssumption, HorizonAssumption DEF RiskPlace, Classify

-----------------------------------------------------------------------------
(* The ranking *)

\* What the ranking tells apart: finitely many candidates, each with a cost and
\* an identifier of its own.
Priced(S) ==
    /\ IsFiniteSet(S)
    /\ \A c \in S : c.id \in Nat /\ c.cost \in Costs
    /\ \A c, d \in S : c.id = d.id => c = d

Place(S, c) == Cardinality({d \in S : Cheaper(d, c)})

LEMMA CheaperOrder ==
    ASSUME NEW S, Priced(S), NEW c \in S, NEW d \in S, NEW e \in S
    PROVE  /\ ~Cheaper(c, c)
           /\ Cheaper(c, d) /\ Cheaper(d, e) => Cheaper(c, e)
           /\ c = d \/ Cheaper(c, d) \/ Cheaper(d, c)
  <1>1. \A x \in S : /\ x.id \in Int
                     /\ x.cost.score \in Int /\ x.cost.delay \in Int /\ x.cost.path \in Int
    BY DEF Priced, Costs
  <1>2. c.id = d.id => c = d
    BY DEF Priced
  <1>. QED
    BY <1>1, <1>2 DEF Cheaper

\* The cheaper of two candidates has fewer before it.
LEMMA PlaceGrows ==
    ASSUME NEW S, Priced(S), NEW c \in S, NEW d \in S, Cheaper(c, d)
    PROVE  Place(S, c) < Place(S, d)
  <1>. DEFINE C == {e \in S : Cheaper(e, c)}
              D == {e \in S : Cheaper(e, d)}
  <1>1. IsFiniteSet(D)
    BY FS_Subset DEF Priced
  <1>2. C \subseteq D /\ c \in D \ C
    BY CheaperOrder
  <1>3. C \in SUBSET D /\ C # D
    BY <1>2
  <1>. HIDE DEF C, D
  <1>4. Cardinality(C) <= Cardinality(D) /\ Cardinality(C) # Cardinality(D)
    BY <1>1, <1>3, FS_Subset
  <1>5. Cardinality(C) \in Nat /\ Cardinality(D) \in Nat
    BY <1>1, <1>3, FS_Subset, FS_CardinalityType
  <1>. QED
    BY <1>4, <1>5 DEF Place, C, D

LEMMA PlaceType ==
    ASSUME NEW S, Priced(S), NEW c \in S
    PROVE  Cardinality(S) \in Nat /\ Place(S, c) \in 0 .. (Cardinality(S) - 1)
  <1>. DEFINE C == {e \in S : Cheaper(e, c)}
  <1>1. IsFiniteSet(S) /\ Cardinality(S) \in Nat
    BY FS_CardinalityType DEF Priced
  <1>2. C \in SUBSET S /\ c \in S \ C
    BY CheaperOrder
  <1>. HIDE DEF C
  <1>3. Cardinality(C) <= Cardinality(S) /\ Cardinality(C) # Cardinality(S)
    BY <1>1, <1>2, FS_Subset
  <1>4. Cardinality(C) \in Nat
    BY <1>1, <1>2, FS_Subset, FS_CardinalityType
  <1>. QED
    BY <1>1, <1>3, <1>4 DEF Place, C

\* Different candidates have different places.
LEMMA PlacesDiffer ==
    ASSUME NEW S, Priced(S), NEW c \in S, NEW d \in S, Place(S, c) = Place(S, d)
    PROVE  c = d
  <1>1. Place(S, c) \in Int /\ Place(S, d) \in Int
    BY PlaceType
  <1>2. ~Cheaper(c, d) /\ ~Cheaper(d, c)
    BY <1>1, PlaceGrows
  <1>. QED
    BY <1>2, CheaperOrder

\* Every place is taken: as many candidates as places, and no two share one.
LEMMA PlacesTaken ==
    ASSUME NEW S, Priced(S), NEW r \in 0 .. (Cardinality(S) - 1)
    PROVE  \E c \in S : Place(S, c) = r
  <1>. DEFINE T == 0 .. (Cardinality(S) - 1)
              f == [c \in S |-> Place(S, c)]
  <1>1. Cardinality(S) \in Nat
    BY FS_CardinalityType DEF Priced
  <1>2. IsFiniteSet(T) /\ Cardinality(T) = Cardinality(S)
    BY <1>1, FS_Interval
  <1>3. f \in [S -> T]
    BY PlaceType
  <1>4. f \in Injection(S, T)
    BY <1>3, PlacesDiffer DEF Injection, IsInjective
  <1>. HIDE DEF T, f
  <1>5. f \in Surjection(S, T)
    BY <1>2, <1>4, FS_Injection
  <1>6. r \in T
    BY DEF T
  <1>7. \E c \in S : f[c] = r
    BY <1>5, <1>6 DEF Surjection
  <1>. QED
    BY <1>7 DEF f

\* The candidate ranked i-th is the one with i - 1 cheaper ones.
LEMMA RankedFacts ==
    ASSUME NEW candidates, NEW results, Priced(SafeActions(candidates, results))
    PROVE  LET safe == SafeActions(candidates, results)
               ranked == Ranked(candidates, results)
           IN  /\ DOMAIN ranked = 1 .. Smaller(Cardinality(safe), MaxRecommendations)
               /\ Cardinality(safe) \in Nat
               /\ \A i \in DOMAIN ranked :
                     /\ i \in 1 .. Cardinality(safe)
                     /\ ranked[i] \in safe
                     /\ Place(safe, ranked[i]) = i - 1
  <1>. DEFINE safe == SafeActions(candidates, results)
              ranked == Ranked(candidates, results)
              last == Smaller(Cardinality(safe), MaxRecommendations)
  <1>1. ranked = [i \in 1 .. last |-> CHOOSE c \in safe : Place(safe, c) = i - 1]
    BY DEF Ranked, Place
  <1>2. Cardinality(safe) \in Nat
    BY FS_CardinalityType DEF Priced
  <1>3. last \in Int /\ last <= Cardinality(safe)
    BY <1>2, RankingProfileAssumption DEF Smaller
  <1>. HIDE DEF safe, ranked, last
  <1>4. ASSUME NEW i \in 1 .. last
        PROVE  /\ i \in 1 .. Cardinality(safe)
               /\ ranked[i] \in safe /\ Place(safe, ranked[i]) = i - 1
    <2>1. i \in 1 .. Cardinality(safe) /\ i - 1 \in 0 .. (Cardinality(safe) - 1)
      BY <1>2, <1>3
    <2>2. \E c \in safe : Place(safe, c) = i - 1
      BY <2>1, PlacesTaken DEF safe
    <2>3. ranked[i] = CHOOSE c \in safe : Place(safe, c) = i - 1
      BY <1>1
    <2>. QED
      BY <2>1, <2>2, <2>3
  <1>5. DOMAIN ranked = 1 .. last
    BY <1>1
  <1>. QED
    BY <1>2, <1>4, <1>5 DEF safe, ranked, last

-----------------------------------------------------------------------------
(* Candidates and the evidence about them *)

Traffic == [Aircraft -> States]

\* What every batch of candidates for a pair looks like.
WellMade(candidates, pair) ==
    /\ IsFiniteSet(candidates)
    /\ \A c \in candidates :
           /\ c.id \in Nat /\ c.cost \in Costs
           /\ c.target \in {pair[1], pair[2], NobodyId}
           /\ c.maneuver.kind \in Kinds \cup {"NO_ACTION"} /\ c.maneuver.value \in Int
           /\ c.maneuver.kind = "NO_ACTION" <=> c.target = NobodyId
           /\ c.maneuver.kind = "NO_ACTION" => c.cost = ZeroCost
    /\ \A c, d \in candidates : c.id = d.id => c = d
    /\ Cardinality({c \in candidates : c.maneuver.kind = "NO_ACTION"}) = 1

LEMMA PairFacts ==
    ASSUME NEW pair \in Pairs(Aircraft)
    PROVE  /\ pair[1] \in Aircraft /\ pair[2] \in Aircraft
           /\ NobodyId \notin Aircraft
  BY AircraftAssumption DEF Pairs

\* Any template gives a number to command.
LEMMA ManeuverValueType ==
    ASSUME NEW template \in Templates, NEW pair \in Pairs(Aircraft),
           NEW preferred \in {pair[1], pair[2]}, NEW hint \in Hints, NEW traffic \in Traffic
    PROVE  ManeuverValue(template, pair, preferred, hint, traffic) \in Int
  <1>. DEFINE target == TargetOf(template, pair, preferred)
              s == traffic[target]
              p == Performance[target]
  <1>1. target \in Aircraft
    BY PairFacts DEF TargetOf, OtherOf
  <1>2. s \in States /\ p \in PerformanceProfiles
    BY <1>1, PerformanceAssumption DEF Traffic
  <1>3. /\ s.hdg \in Int /\ s.alt \in Int /\ s.gs \in Int
        /\ p.ceiling \in Int /\ p.minSpeed \in Int
    BY <1>2 DEF States, Headings, PerformanceProfiles
  <1>4. /\ HeadingChange \in Int /\ AltitudeChange \in Int /\ SpeedChange \in Int
        /\ EntryDelay \in Int
    BY GenerationProfileAssumption
  <1>5. hint # NoHint => hint \in Int
    BY TrafficAssumption
  <1>6. template.kind \in Kinds
    BY TemplatesAssumption
  <1>. DEFINE v == ManeuverValue(template, pair, preferred, hint, traffic)
  <1>7. /\ template.kind = "HEADING" => v = (s.hdg + HeadingChange) % 360
        /\ template.kind = "ALTITUDE" /\ target = preferred /\ hint # NoHint => v = hint
        /\ template.kind = "ALTITUDE" /\ target = preferred /\ hint = NoHint
               => v = Smaller(s.alt + AltitudeChange, p.ceiling)
        /\ template.kind = "ALTITUDE" /\ target # preferred
               => v = Larger(0, s.alt - AltitudeChange)
        /\ template.kind = "SPEED" => v = Larger(p.minSpeed, s.gs - SpeedChange)
        /\ template.kind = "ENTRY_DELAY" => v = EntryDelay
        /\ template.kind = "SEQUENCE_CHANGE" => v = 1
    BY DEF ManeuverValue, ReducedSpeed
  <1>8. (s.hdg + HeadingChange) % 360 \in Int
    BY <1>3, <1>4
  <1>. HIDE DEF v, s, p, target
  <1>9. \A i, j \in Int : Smaller(i, j) \in Int /\ Larger(i, j) \in Int
    BY DEF Smaller, Larger
  <1>10. /\ s.alt + AltitudeChange \in Int /\ s.alt - AltitudeChange \in Int
         /\ s.gs - SpeedChange \in Int
    BY <1>3, <1>4
  <1>11. v \in Int
    <2>1. CASE template.kind = "HEADING"
      BY <1>7, <1>8, <2>1
    <2>2. CASE template.kind = "ALTITUDE"
      <3>1. CASE target = preferred /\ hint # NoHint
        BY <1>5, <1>7, <2>2, <3>1
      <3>2. CASE target = preferred /\ hint = NoHint
        <4>1. v = Smaller(s.alt + AltitudeChange, p.ceiling)
          BY <1>7, <2>2, <3>2
        <4>. QED
          BY <1>3, <1>9, <1>10, <4>1
      <3>3. CASE target # preferred
        <4>1. v = Larger(0, s.alt - AltitudeChange)
          BY <1>7, <2>2, <3>3
        <4>2. \A j \in Int : Larger(0, j) \in Int
          BY DEF Larger
        <4>. QED
          BY <1>10, <4>1, <4>2
      <3>. QED
        BY <3>1, <3>2, <3>3
    <2>3. CASE template.kind = "SPEED"
      <3>1. v = Larger(p.minSpeed, s.gs - SpeedChange)
        BY <1>7, <2>3, Zenon
      <3>2. p.minSpeed \in Int /\ s.gs - SpeedChange \in Int
        BY <1>3, <1>10, Zenon
      <3>. QED
        BY <1>9, <3>1, <3>2, Zenon
    <2>4. CASE template.kind \in {"ENTRY_DELAY", "SEQUENCE_CHANGE"}
      BY <1>4, <1>7, <2>4
    <2>5. \/ template.kind = "HEADING" \/ template.kind = "ALTITUDE"
          \/ template.kind = "SPEED" \/ template.kind \in {"ENTRY_DELAY", "SEQUENCE_CHANGE"}
      BY <1>6 DEF Kinds
    <2>. QED
      BY <2>1, <2>2, <2>3, <2>4, <2>5, Zenon
  <1>. QED
    BY <1>11 DEF v

\* A generated batch is well-made, and its candidates are of the time of the traffic.
LEMMA GeneratedFacts ==
    ASSUME NEW pair \in Pairs(Aircraft), NEW preferred \in {pair[1], pair[2]},
           NEW hint \in Hints, NEW traffic \in Traffic
    PROVE  LET candidates == Generated(pair, preferred, hint, traffic)
           IN  /\ WellMade(candidates, pair)
               /\ candidates # {}
               /\ \A c \in candidates : c.from = traffic[preferred].at
  <1>. DEFINE Made(t) == Candidate(t, pair, preferred, hint, traffic)
              made == {Made(t) : t \in Templates}
              none == Baseline(traffic[preferred].at)
              candidates == Generated(pair, preferred, hint, traffic)
  <1>1. candidates = made \cup {none}
    BY DEF Generated
  <1>2. ASSUME NEW t \in Templates
        PROVE  /\ t.id \in Nat /\ t.cost \in Costs /\ t.kind \in Kinds /\ t.id # BaselineId
               /\ Made(t).id = t.id /\ Made(t).cost = t.cost
               /\ Made(t).target \in {pair[1], pair[2]}
               /\ Made(t).maneuver.kind = t.kind /\ Made(t).maneuver.value \in Int
               /\ Made(t).from = traffic[preferred].at
    <2>1. /\ t.id \in Nat /\ t.cost \in Costs /\ t.kind \in Kinds /\ t.id # BaselineId
      BY TemplatesAssumption
    <2>2. /\ Made(t).id = t.id /\ Made(t).cost = t.cost
          /\ Made(t).target = TargetOf(t, pair, preferred)
          /\ Made(t).maneuver.kind = t.kind
          /\ Made(t).maneuver.value = ManeuverValue(t, pair, preferred, hint, traffic)
          /\ Made(t).from = traffic[preferred].at
      BY DEF Candidate
    <2>3. TargetOf(t, pair, preferred) \in {pair[1], pair[2]}
      BY DEF TargetOf, OtherOf
    <2>. QED
      BY <2>1, <2>2, <2>3, ManeuverValueType
  <1>3. /\ none.id = BaselineId /\ none.target = NobodyId /\ none.cost = ZeroCost
        /\ none.maneuver.kind = "NO_ACTION" /\ none.maneuver.value = 0
        /\ none.from = traffic[preferred].at
        /\ BaselineId \in Nat
    BY TemplatesAssumption DEF Baseline
  <1>4. ZeroCost \in Costs
    BY DEF ZeroCost, Costs
  <1>5. \A t \in Templates : Made(t).target # NobodyId /\ Made(t).maneuver.kind # "NO_ACTION"
    BY <1>2, PairFacts DEF Kinds
  <1>. HIDE DEF Made, none
  <1>6. IsFiniteSet(candidates)
    <2>. DEFINE f == [t \in Templates |-> Made(t)]
    <2>1. f \in Surjection(Templates, made)
      BY DEF Surjection
    <2>. HIDE DEF f, made
    <2>2. IsFiniteSet(made)
      BY <2>1, FS_Surjection, TemplatesAssumption
    <2>. QED
      BY <1>1, <2>2, FS_AddElement
  <1>7. \A c, d \in candidates : c.id = d.id => c = d
    <2>1. \A t, u \in Templates : t.id = u.id => t = u
      BY TemplatesAssumption
    <2>. QED
      BY <1>1, <1>2, <1>3, <2>1
  <1>8. {c \in candidates : c.maneuver.kind = "NO_ACTION"} = {none}
    BY <1>1, <1>3, <1>5
  <1>9. Cardinality({c \in candidates : c.maneuver.kind = "NO_ACTION"}) = 1
    BY <1>8, FS_Singleton
  <1>10. ASSUME NEW c \in candidates
         PROVE  /\ c.id \in Nat /\ c.cost \in Costs
                /\ c.target \in {pair[1], pair[2], NobodyId}
                /\ c.maneuver.kind \in Kinds \cup {"NO_ACTION"} /\ c.maneuver.value \in Int
                /\ c.maneuver.kind = "NO_ACTION" <=> c.target = NobodyId
                /\ c.maneuver.kind = "NO_ACTION" => c.cost = ZeroCost
                /\ c.from = traffic[preferred].at
    <2>1. CASE c = none
      BY <1>3, <1>4, <2>1
    <2>2. ASSUME NEW t \in Templates, c = Made(t)
          PROVE  /\ c.id \in Nat /\ c.cost \in Costs
                 /\ c.target \in {pair[1], pair[2], NobodyId}
                 /\ c.maneuver.kind \in Kinds \cup {"NO_ACTION"} /\ c.maneuver.value \in Int
                 /\ c.maneuver.kind = "NO_ACTION" <=> c.target = NobodyId
                 /\ c.maneuver.kind = "NO_ACTION" => c.cost = ZeroCost
                 /\ c.from = traffic[preferred].at
      BY <1>2, <1>5, <2>2
    <2>. QED
      BY <1>1, <2>1, <2>2
  <1>11. candidates # {}
    BY <1>1
  <1>. HIDE DEF candidates, made, none
  <1>12. WellMade(candidates, pair)
    <2>1. ASSUME NEW c \in candidates
          PROVE  /\ c.id \in Nat /\ c.cost \in Costs
                 /\ c.target \in {pair[1], pair[2], NobodyId}
                 /\ c.maneuver.kind \in Kinds \cup {"NO_ACTION"} /\ c.maneuver.value \in Int
                 /\ c.maneuver.kind = "NO_ACTION" <=> c.target = NobodyId
                 /\ c.maneuver.kind = "NO_ACTION" => c.cost = ZeroCost
      BY <1>10, Zenon
    <2>. QED
      BY <1>6, <1>7, <1>9, <2>1, Zenon DEF WellMade
  <1>13. \A c \in candidates : c.from = traffic[preferred].at
    BY <1>10, Zenon
  <1>. QED
    BY <1>11, <1>12, <1>13, Zenon DEF candidates

\* A copy of the traffic with a candidate's maneuver in force can be assessed.
LEMMA AppliedMoving ==
    ASSUME NEW s \in Moving, NEW m, m.kind \in Kinds \cup {"NO_ACTION"}, m.value \in Int
    PROVE  Applied(s, m) \in Moving
  <1>1. CASE m.kind = "HEADING"
    BY <1>1 DEF Applied, Moving
  <1>2. CASE m.kind = "ALTITUDE"
    <2>1. PICK v \in Int : v = m.value
      OBVIOUS
    <2>2. Applied(s, m) = [s EXCEPT !.alt = v, !.vs = 0]
      BY <1>2, <2>1 DEF Applied
    <2>3. PICK r \in Moving : r = [s EXCEPT !.alt = v]
      BY DEF Moving
    <2>4. [r EXCEPT !.vs = 0] \in Moving
      BY DEF Moving
    <2>5. Applied(s, m) = [r EXCEPT !.vs = 0]
      BY <2>2, <2>3
    <2>. QED
      BY <2>4, <2>5, Zenon
  <1>3. CASE m.kind = "SPEED"
    BY <1>3 DEF Applied, Moving
  <1>4. CASE m.kind = "ENTRY_DELAY"
    <2>1. Applied(s, m) = Shifted(s, -m.value) /\ -m.value \in Int
      BY <1>4 DEF Applied
    <2>. QED
      BY <2>1, ShiftedFacts
  <1>5. CASE m.kind \in {"SEQUENCE_CHANGE", "NO_ACTION"}
    BY <1>5 DEF Applied
  <1>. QED
    BY <1>1, <1>2, <1>3, <1>4, <1>5 DEF Kinds

\* An altitude maneuver leaves a state that a runtime can be anchored in.
LEMMA AltitudeApplied ==
    ASSUME NEW s \in States, NEW m, m.kind = "ALTITUDE", m.value \in Int
    PROVE  /\ Applied(s, m) \in States
           /\ Applied(s, m).at = s.at /\ Applied(s, m).vs = 0 /\ Applied(s, m).alt = m.value
           /\ Applied(s, m).x = s.x /\ Applied(s, m).y = s.y
           /\ Applied(s, m).gs = s.gs /\ Applied(s, m).hdg = s.hdg
  <1>1. Applied(s, m) = [s EXCEPT !.alt = m.value, !.vs = 0]
    BY DEF Applied
  <1>. DEFINE R(v, z) == [s EXCEPT !.alt = v, !.vs = z]
  <1>2. \A v, z \in Int : /\ R(v, z) \in States
                          /\ R(v, z).at = s.at /\ R(v, z).vs = z /\ R(v, z).alt = v
                          /\ R(v, z).x = s.x /\ R(v, z).y = s.y
                          /\ R(v, z).gs = s.gs /\ R(v, z).hdg = s.hdg
    BY DEF States
  <1>3. PICK z \in Int : z = 0
    OBVIOUS
  <1>4. Applied(s, m) = R(m.value, z)
    BY <1>1, <1>3
  <1>. HIDE DEF R
  <1>. QED
    BY <1>2, <1>3, <1>4

LEMMA IsolatedMoving ==
    ASSUME NEW pair \in Pairs(Aircraft), NEW candidates, WellMade(candidates, pair),
           NEW c \in candidates, NEW traffic \in Traffic
    PROVE  Isolated(c, traffic) \in [Aircraft -> Moving]
  <1>1. traffic \in [Aircraft -> Moving]
    BY StatesMove DEF Traffic
  <1>2. c.target # NobodyId => c.target \in Aircraft
    BY PairFacts DEF WellMade
  <1>3. c.target # NobodyId => Applied(traffic[c.target], c.maneuver) \in Moving
    BY <1>1, <1>2, AppliedMoving DEF WellMade
  <1>. QED
    BY <1>1, <1>2, <1>3 DEF Isolated

\* What the validation of a batch finds.
Findings(candidates, pair, traffic) == {Result(c, pair, traffic) : c \in candidates}

\* The actions found safe can be ranked, and each is safe by its own evidence.
LEMMA SafeFacts ==
    ASSUME NEW pair, NEW candidates, WellMade(candidates, pair), NEW traffic,
           NEW results, results = Findings(candidates, pair, traffic)
    PROVE  LET safe == SafeActions(candidates, results)
           IN  /\ Priced(safe)
               /\ safe \subseteq candidates
               /\ \A c \in safe : LET e == Evidence(c, pair, traffic)
                                  IN  ~Fails(e) /\ e.primary.status = "SAFE"
  <1>. DEFINE safe == SafeActions(candidates, results)
  <1>1. safe \in SUBSET candidates
    BY DEF SafeActions
  <1>2. Priced(safe)
    BY <1>1, FS_Subset DEF Priced, WellMade
  <1>3. ASSUME NEW c \in safe
        PROVE  LET e == Evidence(c, pair, traffic)
               IN  ~Fails(e) /\ e.primary.status = "SAFE"
    <2>1. PICK r \in results : r.candidate = c.id /\ r.verdict = "SAFE"
      BY DEF SafeActions
    <2>2. PICK d \in candidates : r = Result(d, pair, traffic)
      BY <2>1 DEF Findings
    <2>3. d = c
      BY <1>1, <2>1, <2>2 DEF WellMade, Result
    <2>4. Verdict(Evidence(c, pair, traffic)) = "SAFE"
      BY <2>1, <2>2, <2>3 DEF Result
    <2>. QED
      BY <2>4 DEF Verdict
  <1>. HIDE DEF safe
  <1>. QED
    BY <1>1, <1>2, <1>3 DEF safe

\* With a safe action in force, no level pair of the traffic loses its separation
\* at any tick of the look-ahead.
LEMMA SafeKeepsApart ==
    ASSUME NEW pair \in Pairs(Aircraft), NEW candidates, WellMade(candidates, pair),
           NEW traffic \in Traffic, NEW c \in candidates,
           ~Fails(Evidence(c, pair, traffic)),
           Evidence(c, pair, traffic).primary.status = "SAFE",
           NEW p \in Pairs(Aircraft), LevelPair(p, Isolated(c, traffic)),
           NEW ticks \in 0 .. Horizon
    PROVE  ~Lost(SeparationAfter(Isolated(c, traffic)[p[1]], Isolated(c, traffic)[p[2]], ticks))
  <1>. DEFINE after == Isolated(c, traffic)
              events == Assess(after)
  <1>1. after \in [Aircraft -> Moving]
    BY IsolatedMoving
  <1>2. events = [q \in Pairs(Aircraft) |-> ConflictEvent(after[q[1]], after[q[2]])]
    BY <1>1 DEF Assess
  <1>3. after[p[1]] \in Moving /\ after[p[2]] \in Moving /\ after[p[1]].vs = after[p[2]].vs
    BY <1>1, PairFacts DEF LevelPair
  <1>4. /\ Evidence(c, pair, traffic).primary = events[pair]
        /\ Evidence(c, pair, traffic).secondary
               = {q \in DOMAIN events \ {pair} : events[q].status = "PREDICTED"}
    BY DEF Evidence
  <1>. HIDE DEF after, events
  <1>5. events[p].status # "PREDICTED"
    BY <1>2, <1>4 DEF Fails
  <1>6. events[p] = ConflictEvent(after[p[1]], after[p[2]])
    BY <1>2
  <1>. QED
    BY <1>3, <1>5, <1>6, LossIsPredicted DEF after

-----------------------------------------------------------------------------
(* The inductive invariant *)

\* The time of the state a snapshot holds for an aircraft.
Latest(a) == IF a \in Recorded THEN anchors[a].at ELSE clock

TrafficInv ==
    /\ clock \in Nat
    /\ anchors \in Traffic
    /\ \A a \in Aircraft : anchors[a].at <= clock

\* An assessment is what the evaluators make of the traffic stored with it, no
\* state of which is newer than what a snapshot would hold now.
AssessedInv ==
    assessed # None =>
        /\ assessed.at \in Nat /\ assessed.at <= clock
        /\ assessed.traffic \in Traffic
        /\ \A a \in Aircraft : assessed.traffic[a].at <= Latest(a)
        /\ assessed.paths = [a \in Aircraft |-> PredictedPath(assessed.traffic[a], assessed.at)]
        /\ assessed.events = Assess([a \in Aircraft |-> Aligned(assessed.traffic[a], assessed.at)])
        /\ assessed.risks = [p \in DOMAIN assessed.events |-> RiskLevel(assessed.events[p])]
        /\ assessed.priorities = [a \in Aircraft |-> PriorityPlace(Events, a, assessed.traffic[a])]

\* Published advice is the ranking of the evidence about a well-made batch.
AdviceInv ==
    advice # None =>
        /\ advice.at \in Nat /\ advice.at <= clock
        /\ advice.pair \in Pairs(Aircraft)
        /\ advice.traffic \in Traffic /\ OneTimestamp(advice.traffic)
        /\ \A a \in Aircraft \ Recorded : advice.traffic[a].at = advice.at
        /\ WellMade(advice.candidates, advice.pair)
        /\ advice.results = Findings(advice.candidates, advice.pair, advice.traffic)
        /\ advice.ranked = Ranked(advice.candidates, advice.results)

\* What is in force is altitude advice, put on the state the target had reached.
AppliedInv ==
    applied # None =>
        /\ advice # None /\ applied.rank \in DOMAIN advice.ranked
        /\ LET c == advice.ranked[applied.rank]
           IN  /\ c.maneuver.kind = "ALTITUDE"
               /\ c.target \in Aircraft \ Recorded
               /\ applied.at \in Nat /\ advice.at <= applied.at /\ applied.at <= clock
               /\ applied.from \in States /\ applied.traffic \in Traffic
               /\ applied.traffic[c.target] = Applied(applied.from, c.maneuver)

IInv == TrafficInv /\ AssessedInv /\ AdviceInv /\ AppliedInv /\ OwnEvidenceAccepted

LEMMA SnapshotFacts ==
    ASSUME TrafficInv
    PROVE  /\ Snapshot \in Traffic
           /\ \A a \in Aircraft : /\ CurrentState(a) \in States
                                  /\ Snapshot[a] = CurrentState(a)
                                  /\ Snapshot[a].at = Latest(a)
                                  /\ Latest(a) \in Nat /\ Latest(a) <= clock
  <1>1. ASSUME NEW a \in Aircraft
        PROVE  /\ CurrentState(a) \in States /\ CurrentState(a).at = Latest(a)
               /\ Latest(a) \in Nat /\ Latest(a) <= clock
    <2>1. anchors[a] \in States /\ anchors[a].at \in Nat /\ anchors[a].at <= clock /\ clock \in Nat
      BY DEF TrafficInv, Traffic, States
    <2>2. anchors[a] \in Moving
      BY <2>1, StatesMove
    <2>3. Moved(anchors[a], clock) \in States /\ Moved(anchors[a], clock).at = clock
      BY <2>1, <2>2, MovedFacts
    <2>. QED
      BY <2>1, <2>3 DEF CurrentState, Latest
  <1>. QED
    BY <1>1 DEF Snapshot, Traffic

\* What an assessment made now says of any traffic as new as a snapshot.
LEMMA AssessmentFacts ==
    ASSUME NEW snapshot
    PROVE  LET x == Assessment(snapshot)
           IN  /\ x.at = clock /\ x.traffic = snapshot
               /\ x.paths = [a \in Aircraft |-> PredictedPath(snapshot[a], clock)]
               /\ x.events = Assess([a \in Aircraft |-> Aligned(snapshot[a], clock)])
               /\ x.risks = [p \in DOMAIN x.events |-> RiskLevel(x.events[p])]
               /\ x.priorities = [a \in Aircraft |-> PriorityPlace(Events, a, snapshot[a])]
  BY DEF Assessment

\* The event of one pair in an assessment of a snapshot.
LEMMA AssessmentEvent ==
    ASSUME NEW snapshot, NEW p \in Pairs(Aircraft)
    PROVE  Assessment(snapshot).events[p]
               = ConflictEvent(Aligned(snapshot[p[1]], clock), Aligned(snapshot[p[2]], clock))
  <1>. DEFINE aligned == [a \in Aircraft |-> Aligned(snapshot[a], clock)]
  <1>1. Assessment(snapshot).events = Assess(aligned)
    BY AssessmentFacts
  <1>2. Assess(aligned)[p] = ConflictEvent(aligned[p[1]], aligned[p[2]])
    BY DEF Assess
  <1>3. aligned[p[1]] = Aligned(snapshot[p[1]], clock) /\ aligned[p[2]] = Aligned(snapshot[p[2]], clock)
    BY PairFacts
  <1>. QED
    BY <1>1, <1>2, <1>3

LEMMA InitIInv == Init => IInv
  <1>. SUFFICES ASSUME Init PROVE IInv
    OBVIOUS
  <1>1. TrafficInv
    BY TrafficAssumption DEF Init, TrafficInv, Traffic
  <1>2. OwnEvidenceAccepted
    BY DEF Init, OwnEvidenceAccepted
  <1>. QED
    BY <1>1, <1>2 DEF Init, IInv, AssessedInv, AdviceInv, AppliedInv

\* The traffic moves on: no state becomes older, and what has been assessed,
\* advised and applied keeps its meaning.
LEMMA MovedOnIInv ==
    ASSUME IInv, TrafficInv', clock <= clock',
           \A a \in Aircraft : Latest(a)' \in Nat /\ Latest(a) <= Latest(a)',
           UNCHANGED <<assessed, advice, answer, applied>>
    PROVE  IInv'
  <1>. USE DEF IInv
  <1>1. clock \in Nat /\ clock' \in Nat
    BY DEF TrafficInv
  <1>2. AssessedInv'
    <2>. SUFFICES ASSUME assessed # None PROVE AssessedInv'
      BY DEF AssessedInv
    <2>1. /\ assessed.at \in Nat /\ assessed.at <= clock
          /\ assessed.traffic \in Traffic
          /\ \A a \in Aircraft : assessed.traffic[a].at <= Latest(a)
      BY DEF AssessedInv
    <2>2. assessed.at <= clock'
      BY <1>1, <2>1
    <2>3. \A a \in Aircraft : assessed.traffic[a].at \in Nat /\ Latest(a) \in Nat
      BY <2>1, SnapshotFacts DEF Traffic, States
    <2>4. \A a \in Aircraft : assessed.traffic[a].at <= Latest(a)'
      BY <2>1, <2>3
    <2>. QED
      BY <2>2, <2>4 DEF AssessedInv
  <1>3. AdviceInv'
    BY <1>1 DEF AdviceInv
  <1>4. AppliedInv'
    BY <1>1 DEF AppliedInv
  <1>5. OwnEvidenceAccepted'
    BY DEF OwnEvidenceAccepted
  <1>. QED
    BY <1>2, <1>3, <1>4, <1>5

LEMMA TickIInv ==
    ASSUME IInv, Tick
    PROVE  IInv'
  <1>1. /\ clock \in Nat /\ clock' = clock + 1 /\ anchors' = anchors
        /\ UNCHANGED <<assessed, advice, answer, applied>>
    BY DEF Tick, IInv, TrafficInv
  <1>2. ASSUME NEW a \in Aircraft
        PROVE  /\ anchors[a].at \in Nat /\ anchors[a].at <= clock'
               /\ Latest(a)' \in Nat /\ Latest(a) <= Latest(a)'
    <2>1. anchors[a].at \in Nat /\ anchors[a].at <= clock
      BY DEF IInv, TrafficInv, Traffic, States
    <2>. QED
      BY <1>1, <2>1 DEF Latest
  <1>3. TrafficInv'
    BY <1>1, <1>2 DEF IInv, TrafficInv
  <1>. QED
    BY <1>1, <1>2, <1>3, MovedOnIInv

\* A new anchor or sample, of the time of the clock.
LEMMA AnchoredTraffic ==
    ASSUME TrafficInv, NEW a \in Aircraft, NEW s \in States, s.at = clock,
           anchors' = [anchors EXCEPT ![a] = s], clock' = clock
    PROVE  /\ TrafficInv'
           /\ \A b \in Aircraft : Latest(b)' \in Nat /\ Latest(b) <= Latest(b)'
  <1>1. clock \in Nat /\ anchors \in Traffic /\ \A b \in Aircraft : anchors[b].at <= clock
    BY DEF TrafficInv
  <1>2. anchors' \in Traffic
    BY <1>1 DEF Traffic
  <1>3. ASSUME NEW b \in Aircraft
        PROVE  /\ anchors'[b].at \in Nat /\ anchors'[b].at <= clock'
               /\ Latest(b)' \in Nat /\ Latest(b) <= Latest(b)'
    <2>1. anchors[b].at \in Nat /\ anchors[b].at <= clock
      BY <1>1 DEF Traffic, States
    <2>2. anchors'[b] = IF b = a THEN s ELSE anchors[b]
      BY <1>1 DEF Traffic
    <2>. QED
      BY <1>1, <2>1, <2>2 DEF Latest
  <1>4. TrafficInv'
    BY <1>1, <1>2, <1>3 DEF TrafficInv
  <1>. QED
    BY <1>3, <1>4

LEMMA AnchoredIInv ==
    ASSUME IInv, NEW a \in Aircraft, NEW s \in States, s.at = clock,
           anchors' = [anchors EXCEPT ![a] = s],
           UNCHANGED <<clock, assessed, advice, answer, applied>>
    PROVE  IInv'
  <1>1. clock \in Nat /\ clock <= clock'
    BY DEF IInv, TrafficInv
  <1>2. /\ TrafficInv'
        /\ \A b \in Aircraft : Latest(b)' \in Nat /\ Latest(b) <= Latest(b)'
    BY AnchoredTraffic DEF IInv
  <1>. QED
    BY <1>1, <1>2, MovedOnIInv

LEMMA SampleIInv ==
    ASSUME IInv, NEW a \in Aircraft, Sample(a)
    PROVE  IInv'
  <1>1. anchors[a] \in Moving /\ anchors[a] \in States /\ clock \in Nat
    BY StatesMove DEF IInv, TrafficInv, Traffic
  <1>2. Moved(anchors[a], clock) \in States /\ Moved(anchors[a], clock).at = clock
    BY <1>1, MovedFacts
  <1>. QED
    BY <1>2, AnchoredIInv DEF Sample

LEMMA DeviateIInv ==
    ASSUME IInv, NEW a \in Aircraft, Deviate(a)
    PROVE  IInv'
  <1>1. PICK d \in Deviations :
            anchors' = [anchors EXCEPT ![a] = [CurrentState(a) EXCEPT !.hdg = d.hdg, !.vs = d.vs,
                                                                    !.emergency = d.emergency]]
    BY DEF Deviate
  <1>. DEFINE r == CurrentState(a)
              s == [r EXCEPT !.hdg = d.hdg, !.vs = d.vs, !.emergency = d.emergency]
  <1>2. r \in States /\ r.at = Latest(a)
    BY SnapshotFacts DEF IInv
  <1>3. r.at = clock
    BY <1>2 DEF Deviate, Latest
  <1>4. d.hdg \in Headings /\ d.vs \in Int /\ d.emergency \in BOOLEAN
    BY TrafficAssumption
  <1>5. anchors' = [anchors EXCEPT ![a] = s]
    BY <1>1
  <1>. HIDE DEF r
  <1>6. s \in States /\ s.at = clock
    BY <1>2, <1>3, <1>4 DEF States
  <1>. HIDE DEF s
  <1>. QED
    BY <1>5, <1>6, AnchoredIInv DEF Deviate

\* The traffic is assessed anew, in a snapshot as new as it can be.
LEMMA AssessedAnew ==
    ASSUME clock \in Nat, clock' = clock, NEW snapshot \in Traffic,
           \A a \in Aircraft : snapshot[a].at <= Latest(a)',
           assessed' = Assessment(snapshot)
    PROVE  AssessedInv'
  <1>1. /\ assessed'.at = clock /\ assessed'.traffic = snapshot
        /\ assessed'.paths = [a \in Aircraft |-> PredictedPath(snapshot[a], clock)]
        /\ assessed'.events = Assess([a \in Aircraft |-> Aligned(snapshot[a], clock)])
        /\ assessed'.risks = [p \in DOMAIN assessed'.events |-> RiskLevel(assessed'.events[p])]
        /\ assessed'.priorities = [a \in Aircraft |-> PriorityPlace(Events, a, snapshot[a])]
    BY AssessmentFacts
  <1>2. clock <= clock'
    OBVIOUS
  <1>. QED
    BY <1>1, <1>2 DEF AssessedInv

LEMMA AssessTrafficIInv ==
    ASSUME IInv, AssessTraffic
    PROVE  IInv'
  <1>1. /\ assessed' = Assessment(Snapshot)
        /\ UNCHANGED <<clock, anchors, advice, answer, applied>>
    BY DEF AssessTraffic
  <1>2. /\ Snapshot \in Traffic /\ clock \in Nat
        /\ \A a \in Aircraft : Snapshot[a].at = Latest(a) /\ Latest(a) \in Nat
    BY SnapshotFacts DEF IInv, TrafficInv
  <1>3. \A a \in Aircraft : Latest(a)' = Latest(a)
    BY <1>1 DEF Latest
  <1>4. AssessedInv'
    BY <1>1, <1>2, <1>3, AssessedAnew
  <1>. QED
    BY <1>1, <1>4 DEF IInv, TrafficInv, AdviceInv, AppliedInv, OwnEvidenceAccepted

\* A recommendation is a well-made candidate found safe, in its place.
LEMMA AdvisedFacts ==
    ASSUME AdviceInv, advice # None, NEW i \in DOMAIN advice.ranked
    PROVE  LET c == advice.ranked[i]
               e == Evidence(c, advice.pair, advice.traffic)
               safe == SafeActions(advice.candidates, advice.results)
           IN  /\ c \in advice.candidates /\ c \in safe
               /\ Place(safe, c) = i - 1
               /\ ~Fails(e) /\ e.primary.status = "SAFE"
               /\ c.target \in Aircraft /\ c.maneuver.value \in Int
  <1>. DEFINE c == advice.ranked[i]
              safe == SafeActions(advice.candidates, advice.results)
  <1>1. /\ advice.pair \in Pairs(Aircraft)
        /\ WellMade(advice.candidates, advice.pair)
        /\ advice.results = Findings(advice.candidates, advice.pair, advice.traffic)
        /\ advice.ranked = Ranked(advice.candidates, advice.results)
    BY DEF AdviceInv
  <1>2. /\ Priced(safe) /\ safe \subseteq advice.candidates
        /\ \A d \in safe : LET e == Evidence(d, advice.pair, advice.traffic)
                           IN  ~Fails(e) /\ e.primary.status = "SAFE"
    BY <1>1, SafeFacts
  <1>3. c \in safe /\ Place(safe, c) = i - 1
    BY <1>1, <1>2, RankedFacts
  <1>4. c.maneuver.kind # "NO_ACTION"
    BY <1>3 DEF SafeActions
  <1>. HIDE DEF c, safe
  <1>5. c \in advice.candidates
    BY <1>2, <1>3
  <1>6. c.target \in Aircraft /\ c.maneuver.value \in Int
    BY <1>1, <1>4, <1>5, PairFacts DEF WellMade
  <1>. QED
    BY <1>2, <1>3, <1>5, <1>6 DEF c, safe

\* Reasons, evidence and verdict agree, whatever the validation finds.
LEMMA ResultsAccepted ==
    ASSUME NEW c, NEW pair, NEW traffic
    PROVE  ResultAccepted(Result(c, pair, traffic))
  <1>. DEFINE r == Result(c, pair, traffic)
              e == Evidence(c, pair, traffic)
  <1>1. r.evidence = e /\ r.reasons = Reasons(e) /\ r.verdict = Verdict(e)
    BY DEF Result
  <1>2. e.feasible \in BOOLEAN /\ e.violation \in BOOLEAN /\ e.baseline \in BOOLEAN
    BY DEF Evidence, Feasible, BreaksMinimumAltitude
  <1>. HIDE DEF r, e
  <1>3. /\ "PRIMARY_CONFLICT_RESOLVED" \in r.reasons <=> e.primary.status = "SAFE"
        /\ "PRIMARY_CONFLICT_REMAINS" \in r.reasons <=> e.primary.status # "SAFE"
        /\ "SECONDARY_CONFLICT_DETECTED" \in r.reasons <=> e.secondary # {}
        /\ "PERFORMANCE_ENVELOPE_EXCEEDED" \in r.reasons <=> ~e.feasible
        /\ "RULE_VIOLATION" \in r.reasons <=> e.violation
        /\ "NO_ACTION_BASELINE" \in r.reasons <=> e.baseline
    BY <1>1 DEF Reasons
  <1>4. /\ r.verdict = "SAFE" => e.primary.status = "SAFE" /\ ~Fails(e)
        /\ r.verdict = "INEFFECTIVE" => e.primary.status # "SAFE" /\ ~Fails(e) /\ ~e.baseline
        /\ r.verdict = "UNSAFE" => Fails(e) \/ (e.primary.status # "SAFE" /\ e.baseline)
    <2>1. CASE Fails(e)
      BY <1>1, <2>1 DEF Verdict
    <2>2. CASE ~Fails(e) /\ e.primary.status = "SAFE"
      BY <1>1, <2>2 DEF Verdict
    <2>3. CASE ~Fails(e) /\ e.primary.status # "SAFE" /\ e.baseline
      BY <1>1, <2>3 DEF Verdict
    <2>4. CASE ~Fails(e) /\ e.primary.status # "SAFE" /\ ~e.baseline
      BY <1>1, <2>4 DEF Verdict
    <2>. QED
      BY <2>1, <2>2, <2>3, <2>4
  <1>. QED
    BY <1>1, <1>2, <1>3, <1>4 DEF r, ResultAccepted

\* Neither the batch nor the set of recommendations refuses what was built for it.
LEMMA BuiltIsConsistent ==
    ASSUME NEW pair \in Pairs(Aircraft), NEW preferred \in {pair[1], pair[2]},
           NEW hint \in Hints, NEW traffic \in Traffic, NEW t \in Nat, NEW now \in Nat,
           t <= traffic[preferred].at, traffic[preferred].at <= now,
           NEW candidates, candidates = Generated(pair, preferred, hint, traffic),
           NEW results, results = Findings(candidates, pair, traffic)
    PROVE  /\ BatchAccepted(candidates, pair, t)
           /\ \A r \in results : ResultAccepted(r)
           /\ RankingAccepted(Ranked(candidates, results), results, now)
  <1>. DEFINE safe == SafeActions(candidates, results)
              ranked == Ranked(candidates, results)
  <1>1. /\ WellMade(candidates, pair) /\ candidates # {}
        /\ \A c \in candidates : c.from = traffic[preferred].at
    BY GeneratedFacts
  <1>2. BatchAccepted(candidates, pair, t)
    <2>1. \A c \in candidates : c.from >= t
      <3>1. traffic[preferred].at \in Int
        BY PairFacts DEF Traffic, States
      <3>. QED
        BY <1>1, <3>1
    <2>. QED
      BY <1>1, <2>1 DEF BatchAccepted, WellMade
  <1>3. \A r \in results : ResultAccepted(r)
    BY ResultsAccepted DEF Findings
  <1>4. Priced(safe) /\ safe \subseteq candidates
    BY <1>1, SafeFacts
  <1>5. \A i \in DOMAIN ranked : ranked[i] \in safe /\ Place(safe, ranked[i]) = i - 1 /\ i \in Int
    BY <1>4, RankedFacts
  <1>6. \A c \in safe : /\ c.maneuver.kind # "NO_ACTION"
                        /\ \E r \in results : r.candidate = c.id /\ r.verdict = "SAFE"
    BY DEF SafeActions
  <1>. HIDE DEF safe, ranked
  <1>7. \A i, j \in DOMAIN ranked : ranked[i].id = ranked[j].id => i = j
    <2>. SUFFICES ASSUME NEW i \in DOMAIN ranked, NEW j \in DOMAIN ranked,
                         ranked[i].id = ranked[j].id
                  PROVE  i = j
      OBVIOUS
    <2>1. ranked[i] = ranked[j]
      BY <1>4, <1>5 DEF Priced
    <2>2. i - 1 = j - 1 /\ i \in Int /\ j \in Int
      BY <1>5, <2>1
    <2>. QED
      BY <2>2
  <1>8. RankingAccepted(ranked, results, now)
    BY <1>1, <1>4, <1>5, <1>6, <1>7 DEF RankingAccepted
  <1>. QED
    BY <1>2, <1>3, <1>8 DEF ranked

LEMMA ResolveIInv ==
    ASSUME IInv, NEW pair \in Pairs(Aircraft), NEW preferred \in {pair[1], pair[2]},
           NEW hint \in Hints, Resolve(pair, preferred, hint)
    PROVE  IInv'
  <1>. DEFINE candidates == Generated(pair, preferred, hint, Snapshot)
              results == Findings(candidates, pair, Snapshot)
              fresh == Advice(pair, Snapshot, candidates, results)
              found == Answer(pair, preferred, hint, Snapshot, candidates, results)
  <1>1. /\ answer' = found
        /\ advice' = IF found = "PUBLISHED" THEN fresh ELSE None
        /\ UNCHANGED <<clock, anchors, assessed, applied>>
        /\ advice = None /\ assessed # None
    BY DEF Resolve, Conflicting, Findings
  <1>2. /\ TrafficInv /\ AssessedInv /\ AdviceInv /\ AppliedInv /\ clock \in Nat
        /\ Snapshot \in Traffic
        /\ \A a \in Aircraft : Snapshot[a].at = Latest(a) /\ Latest(a) <= clock
    BY SnapshotFacts DEF IInv, TrafficInv
  <1>3. preferred \in Aircraft
    BY PairFacts
  <1>4. found # "INCONSISTENT"
    <2>. SUFFICES ASSUME GenerationAccepted(pair, assessed.events[pair], assessed.at, preferred,
                                            hint, [a \in {pair[1], pair[2]} |-> Snapshot[a]])
                  PROVE  /\ BatchAccepted(candidates, pair, assessed.at)
                         /\ \A r \in results : ResultAccepted(r)
                         /\ RankingAccepted(Ranked(candidates, results), results, clock)
      BY DEF Answer
    <2>1. assessed.at <= Snapshot[preferred].at
      BY DEF GenerationAccepted
    <2>2. assessed.at \in Nat /\ Snapshot[preferred].at <= clock
      BY <1>1, <1>2, <1>3 DEF AssessedInv
    <2>. QED
      BY <1>2, <2>1, <2>2, BuiltIsConsistent
  <1>5. AdviceInv'
    <2>. SUFFICES ASSUME found = "PUBLISHED" PROVE AdviceInv'
      BY <1>1 DEF AdviceInv
    <2>1. OneTimestamp(Snapshot)
      BY DEF Answer, ValidationAccepted
    <2>2. WellMade(candidates, pair)
      BY <1>2, GeneratedFacts
    <2>3. /\ advice'.at = clock /\ advice'.pair = pair /\ advice'.traffic = Snapshot
          /\ advice'.candidates = candidates /\ advice'.results = results
          /\ advice'.ranked = Ranked(candidates, results)
      BY <1>1 DEF Advice
    <2>4. \A a \in Aircraft \ Recorded : Snapshot[a].at = clock
      BY <1>2 DEF Latest
    <2>. HIDE DEF candidates, results, fresh, found
    <2>5. /\ advice'.at \in Nat /\ advice'.at <= clock'
          /\ advice'.pair \in Pairs(Aircraft)
          /\ advice'.traffic \in Traffic /\ OneTimestamp(advice'.traffic)
          /\ \A a \in Aircraft \ Recorded : advice'.traffic[a].at = advice'.at
      BY <1>1, <1>2, <2>1, <2>3, <2>4
    <2>6. /\ WellMade(advice'.candidates, advice'.pair)
          /\ advice'.results = Findings(advice'.candidates, advice'.pair, advice'.traffic)
          /\ advice'.ranked = Ranked(advice'.candidates, advice'.results)
      BY <2>2, <2>3 DEF results
    <2>. QED
      BY <2>5, <2>6 DEF AdviceInv
  <1>6. applied = None
    BY <1>1, <1>2 DEF AppliedInv
  <1>. HIDE DEF found, fresh
  <1>. QED
    BY <1>1, <1>2, <1>4, <1>5, <1>6
       DEF IInv, TrafficInv, AssessedInv, AppliedInv, Latest, OwnEvidenceAccepted

LEMMA ApplyIInv ==
    ASSUME IInv, NEW rank \in 1 .. MaxRecommendations, Apply(rank)
    PROVE  IInv'
  <1>. DEFINE c == advice.ranked[rank]
              from == CurrentState(c.target)
              after == Applied(from, c.maneuver)
              traffic == [Snapshot EXCEPT ![c.target] = after]
  <1>1. /\ advice # None /\ rank \in DOMAIN advice.ranked
        /\ c.maneuver.kind = "ALTITUDE" /\ c.target \notin Recorded
        /\ anchors' = [anchors EXCEPT ![c.target] = after]
        /\ assessed' = Assessment(traffic)
        /\ applied' = [at |-> clock, rank |-> rank, from |-> from, traffic |-> traffic]
        /\ UNCHANGED <<clock, advice, answer>>
    BY DEF Apply, Replaced
  <1>2. /\ TrafficInv /\ AdviceInv /\ clock \in Nat /\ OwnEvidenceAccepted
        /\ Snapshot \in Traffic
        /\ \A a \in Aircraft : /\ CurrentState(a) \in States
                               /\ Snapshot[a] = CurrentState(a)
                               /\ Snapshot[a].at = Latest(a)
                               /\ Latest(a) \in Nat /\ Latest(a) <= clock
    BY SnapshotFacts DEF IInv, TrafficInv
  <1>3. c.target \in Aircraft /\ c.maneuver.value \in Int
    BY <1>1, <1>2, AdvisedFacts
  <1>4. from \in States /\ from.at = clock
    BY <1>1, <1>2, <1>3 DEF Latest
  <1>5. after \in States /\ after.at = clock
    <2>. HIDE DEF from, c
    <2>. QED
      BY <1>1, <1>3, <1>4, AltitudeApplied
  <1>. HIDE DEF from, after
  <1>6. /\ TrafficInv'
        /\ \A b \in Aircraft : Latest(b)' \in Nat /\ Latest(b) <= Latest(b)'
    BY <1>1, <1>2, <1>3, <1>5, AnchoredTraffic
  <1>7. traffic \in Traffic /\ traffic[c.target] = after
    BY <1>2, <1>3, <1>5 DEF Traffic
  <1>8. \A a \in Aircraft : traffic[a].at <= Latest(a)'
    <2>. SUFFICES ASSUME NEW a \in Aircraft PROVE traffic[a].at <= Latest(a)'
      OBVIOUS
    <2>1. CASE a = c.target
      BY <1>1, <1>2, <1>5, <1>7, <2>1 DEF Latest
    <2>2. CASE a # c.target
      <3>1. traffic[a] = Snapshot[a]
        BY <1>2, <1>3, <2>2 DEF Traffic
      <3>. QED
        BY <1>2, <1>6, <3>1
    <2>. QED
      BY <2>1, <2>2
  <1>9. AssessedInv'
    <2>. HIDE DEF traffic
    <2>. QED
      BY <1>1, <1>2, <1>7, <1>8, AssessedAnew
  <1>10. AdviceInv'
    BY <1>1, <1>2 DEF AdviceInv
  <1>11. AppliedInv'
    <2>. HIDE DEF traffic
    <2>1. /\ applied'.at = clock /\ applied'.rank = rank /\ applied'.from = from
          /\ applied'.traffic = traffic
      BY <1>1
    <2>2. advice.at <= clock
      BY <1>1, <1>2 DEF AdviceInv
    <2>3. after = Applied(from, c.maneuver)
      BY DEF after
    <2>. QED
      BY <1>1, <1>2, <1>3, <1>4, <1>7, <2>1, <2>2, <2>3 DEF AppliedInv
  <1>12. OwnEvidenceAccepted'
    BY <1>1, <1>2 DEF OwnEvidenceAccepted
  <1>. QED
    BY <1>6, <1>9, <1>10, <1>11, <1>12 DEF IInv

LEMMA StepIInv == IInv /\ [Next]_vars => IInv'
  <1>. SUFFICES ASSUME IInv, [Next]_vars PROVE IInv'
    OBVIOUS
  <1>1. CASE Tick
    BY <1>1, TickIInv
  <1>2. ASSUME NEW a \in Aircraft, Sample(a) PROVE IInv'
    BY <1>2, SampleIInv
  <1>3. ASSUME NEW a \in Aircraft, Deviate(a) PROVE IInv'
    BY <1>3, DeviateIInv
  <1>4. CASE AssessTraffic
    BY <1>4, AssessTrafficIInv
  <1>5. ASSUME NEW pair \in Pairs(Aircraft), NEW preferred \in {pair[1], pair[2]},
               NEW hint \in Hints, Resolve(pair, preferred, hint)
        PROVE  IInv'
    BY <1>5, ResolveIInv
  <1>6. ASSUME NEW rank \in 1 .. MaxRecommendations, Apply(rank) PROVE IInv'
    BY <1>6, ApplyIInv
  <1>7. CASE UNCHANGED vars
    BY <1>7 DEF vars, IInv, TrafficInv, AssessedInv, AdviceInv, AppliedInv, Latest,
                OwnEvidenceAccepted
  <1>. QED
    BY <1>1, <1>2, <1>3, <1>4, <1>5, <1>6, <1>7 DEF Next

\* The inductive invariant of the traffic, its assessments and the advice.
THEOREM AdvisoryInvariant == Spec => []IInv
  BY InitIInv, StepIInv, PTL DEF Spec

\* The records never refuse evidence that the validator built for them.
THEOREM AdvisoryOwnEvidence == Spec => []OwnEvidenceAccepted
  BY AdvisoryInvariant, PTL DEF IInv

-----------------------------------------------------------------------------
(* What an assessment promises *)

\* The states an assessment compares are where the motion has the aircraft.
LEMMA AssessedSeparation ==
    ASSUME NEW a \in Moving, NEW b \in Moving, NEW t \in Nat, NEW k \in Nat
    PROVE  SeparationAfter(Aligned(a, t), Aligned(b, t), k)
               = SeparationAfter(Moved(a, t + k), Moved(b, t + k), 0)
  <1>1. ASSUME NEW s \in Moving
        PROVE  Displacement(Aligned(s, t), k) = Displacement(Moved(s, t + k), 0)
    <2>1. /\ Displacement(Aligned(s, t), k) = Displacement(s, t - s.at + k)
          /\ Displacement(Moved(s, t + k), 0) = Displacement(s, (t + k) - s.at + 0)
      BY AlignedDisplacement, MovedDisplacement
    <2>2. t - s.at + k = (t + k) - s.at + 0
      BY DEF Moving
    <2>. QED
      BY <2>1, <2>2
  <1>. QED
    BY <1>1 DEF SeparationAfter

LEMMA AssessedEvents ==
    ASSUME AssessedInv, assessed # None, NEW p \in Pairs(Aircraft)
    PROVE  LET a == assessed.traffic[p[1]]
               b == assessed.traffic[p[2]]
           IN  /\ a \in Moving /\ b \in Moving /\ assessed.at \in Nat
               /\ Aligned(a, assessed.at) \in Moving /\ Aligned(a, assessed.at).vs = a.vs
               /\ Aligned(b, assessed.at) \in Moving /\ Aligned(b, assessed.at).vs = b.vs
               /\ assessed.events[p]
                      = ConflictEvent(Aligned(a, assessed.at), Aligned(b, assessed.at))
  <1>. DEFINE aligned == [a \in Aircraft |-> Aligned(assessed.traffic[a], assessed.at)]
  <1>1. /\ assessed.at \in Nat /\ assessed.traffic \in Traffic
        /\ assessed.events = Assess(aligned)
    BY DEF AssessedInv
  <1>2. p[1] \in Aircraft /\ p[2] \in Aircraft
    BY PairFacts
  <1>3. assessed.traffic[p[1]] \in Moving /\ assessed.traffic[p[2]] \in Moving
    BY <1>1, <1>2, StatesMove DEF Traffic
  <1>4. assessed.events[p] = ConflictEvent(aligned[p[1]], aligned[p[2]])
    BY <1>1 DEF Assess
  <1>5. \A s \in Moving : /\ Aligned(s, assessed.at) \in Moving
                            /\ Aligned(s, assessed.at).vs = s.vs
    <2>1. 0 \in Int
      OBVIOUS
    <2>. QED
      BY <1>1, <2>1, AlignedDisplacement, Zenon
  <1>6. aligned[p[1]] = Aligned(assessed.traffic[p[1]], assessed.at)
        /\ aligned[p[2]] = Aligned(assessed.traffic[p[2]], assessed.at)
    BY <1>2
  <1>. HIDE DEF aligned
  <1>. QED
    BY <1>1, <1>3, <1>4, <1>5, <1>6

\* The reported closest approach lies inside the look-ahead, and at no tick of it
\* is the pair closer, for any traffic and any look-ahead.
THEOREM AdvisoryClosestIsClosest == Spec => []ClosestIsClosest
  <1>1. IInv => ClosestIsClosest
    <2>. SUFFICES ASSUME AssessedInv, assessed # None, NEW p \in Pairs(Aircraft),
                         NEW ticks \in 0 .. Horizon
                  PROVE  /\ assessed.events[p].tcpa \in 0 .. Horizon
                         /\ SeparationAt(p, assessed.traffic, assessed.at + ticks).dist2
                                >= assessed.events[p].minimum.dist2
      BY HorizonAssumption DEF IInv, ClosestIsClosest
    <2>. DEFINE a == Aligned(assessed.traffic[p[1]], assessed.at)
                b == Aligned(assessed.traffic[p[2]], assessed.at)
    <2>1. /\ a \in Moving /\ b \in Moving
          /\ assessed.events[p] = ConflictEvent(a, b)
          /\ assessed.traffic[p[1]] \in Moving /\ assessed.traffic[p[2]] \in Moving
          /\ assessed.at \in Nat
      BY AssessedEvents
    <2>2. SeparationAfter(a, b, ticks) = SeparationAt(p, assessed.traffic, assessed.at + ticks)
      <3>1. ticks \in Nat
        BY HorizonAssumption
      <3>2. SeparationAfter(a, b, ticks)
                = SeparationAfter(Moved(assessed.traffic[p[1]], assessed.at + ticks),
                                  Moved(assessed.traffic[p[2]], assessed.at + ticks), 0)
        BY <2>1, <3>1, AssessedSeparation
      <3>. QED
        BY <3>2 DEF SeparationAt
    <2>. HIDE DEF a, b
    <2>3. /\ assessed.events[p].tcpa = ClosestApproach(a, b).tcpa
          /\ assessed.events[p].minimum = ClosestApproach(a, b).minimum
      BY <2>1 DEF ConflictEvent
    <2>. QED
      BY <2>1, <2>2, <2>3, ClosestApproachFacts
  <1>. QED
    BY <1>1, AdvisoryInvariant, PTL

\* A level pair that flies on and loses its separation within the look-ahead was
\* reported.
THEOREM AdvisoryNoSurpriseLoss == Spec => []NoSurpriseLoss
  <1>1. IInv => NoSurpriseLoss
    <2>. SUFFICES ASSUME TrafficInv, AssessedInv, assessed # None,
                         clock <= assessed.at + Horizon, NEW p \in Pairs(Aircraft),
                         FlownOn(p[1], assessed.traffic), FlownOn(p[2], assessed.traffic),
                         LevelPair(p, assessed.traffic),
                         Lost(SeparationAfter(Actual(p[1]), Actual(p[2]), 0))
                  PROVE  assessed.events[p].status = "PREDICTED"
      BY DEF IInv, NoSurpriseLoss
    <2>. DEFINE a == Aligned(assessed.traffic[p[1]], assessed.at)
                b == Aligned(assessed.traffic[p[2]], assessed.at)
                k == clock - assessed.at
    <2>1. /\ a \in Moving /\ b \in Moving
          /\ a.vs = assessed.traffic[p[1]].vs /\ b.vs = assessed.traffic[p[2]].vs
          /\ assessed.events[p] = ConflictEvent(a, b)
          /\ assessed.traffic[p[1]] \in Moving /\ assessed.traffic[p[2]] \in Moving
          /\ assessed.at \in Nat
      BY AssessedEvents
    <2>2. assessed.at <= clock /\ clock \in Nat
      BY DEF AssessedInv, TrafficInv
    <2>3. k \in 0 .. Horizon /\ assessed.at + k = clock /\ k \in Nat
      BY <2>1, <2>2, HorizonAssumption
    <2>4. SeparationAfter(a, b, k)
              = SeparationAfter(Moved(assessed.traffic[p[1]], clock),
                                Moved(assessed.traffic[p[2]], clock), 0)
      <3>. HIDE DEF k
      <3>1. SeparationAfter(a, b, k)
                = SeparationAfter(Moved(assessed.traffic[p[1]], assessed.at + k),
                                  Moved(assessed.traffic[p[2]], assessed.at + k), 0)
        BY <2>1, <2>3, AssessedSeparation
      <3>. QED
        BY <2>3, <3>1
    <2>5. Lost(SeparationAfter(a, b, k))
      BY <2>4 DEF FlownOn
    <2>6. a.vs = b.vs
      BY <2>1 DEF LevelPair
    <2>. HIDE DEF a, b, k
    <2>. QED
      BY <2>1, <2>3, <2>5, <2>6, LossIsPredicted
  <1>. QED
    BY <1>1, AdvisoryInvariant, PTL

\* The point predicted for a horizon is where an aircraft that flies on is when
\* the horizon comes, held sample or not.
THEOREM AdvisoryPredictions == Spec => []PredictionsComeTrue
  <1>1. IInv => PredictionsComeTrue
    <2>. SUFFICES ASSUME TrafficInv, AssessedInv, assessed # None,
                         NEW a \in Aircraft, NEW h \in PredictionHorizons,
                         clock = assessed.at + h, FlownOn(a, assessed.traffic)
                  PROVE  LET p == assessed.paths[a][h]
                         IN  p.x = Actual(a).x /\ p.y = Actual(a).y /\ p.alt = Actual(a).alt
      BY DEF IInv, PredictionsComeTrue
    <2>. DEFINE s == assessed.traffic[a]
    <2>1. s \in Moving /\ assessed.at \in Nat /\ clock \in Nat /\ h \in Nat /\ s.at \in Nat
      BY StatesMove, HorizonAssumption DEF AssessedInv, TrafficInv, Traffic, Moving
    <2>2. assessed.paths[a][h] = Displacement(s, assessed.at + h - s.at)
      BY DEF AssessedInv, PredictedPath
    <2>3. Actual(a) = Moved(s, clock)
      BY DEF FlownOn
    <2>. HIDE DEF s
    <2>4. assessed.at + h - s.at = clock - s.at /\ clock - s.at \in Int
      BY <2>1
    <2>5. /\ Displacement(s, clock - s.at).x = s.x + VX(s) * (clock - s.at)
          /\ Displacement(s, clock - s.at).y = s.y + VY(s) * (clock - s.at)
          /\ Displacement(s, clock - s.at).alt = s.alt + s.vs * (clock - s.at)
      BY <2>1, <2>4, DisplacementFacts
    <2>6. /\ Moved(s, clock).x = s.x + VX(s) * (clock - s.at)
          /\ Moved(s, clock).y = s.y + VY(s) * (clock - s.at)
          /\ Moved(s, clock).alt = s.alt + s.vs * (clock - s.at)
      BY <2>1, MovedFacts
    <2>. QED
      BY <2>2, <2>3, <2>4, <2>5, <2>6
  <1>. QED
    BY <1>1, AdvisoryInvariant, PTL

\* An aircraft that flies on is seen again where the first snapshot had it fly.
LEMMA SeenAgain ==
    ASSUME NEW s \in Moving, NEW n \in Moving, NEW r, NEW early \in Nat, NEW late \in Nat,
           r = n \/ r = Moved(n, late), Moved(n, late) = Moved(s, late), NEW k \in Int
    PROVE  Displacement(Aligned(r, late), k) = Displacement(Aligned(s, early), (late - early) + k)
  <1>1. Displacement(Aligned(r, late), k) = Displacement(Moved(n, late), k)
    <2>1. CASE r = n
      BY <2>1, AlignedDisplacement, MovedDisplacement
    <2>2. CASE r = Moved(n, late)
      BY <2>2, MovedFacts DEF Aligned
    <2>. QED
      BY <2>1, <2>2
  <1>2. Displacement(Moved(s, late), k) = Displacement(s, late - s.at + k)
    BY MovedDisplacement
  <1>3. (late - early) + k \in Int
    OBVIOUS
  <1>4. Displacement(Aligned(s, early), (late - early) + k)
            = Displacement(s, early - s.at + ((late - early) + k))
    BY <1>3, AlignedDisplacement
  <1>5. early - s.at + ((late - early) + k) = late - s.at + k
    BY DEF Moving
  <1>. QED
    BY <1>1, <1>2, <1>4, <1>5

\* Every assessment is made of the states the anchors give at the time of the clock,
\* or of the anchors themselves.
LEMMA AssessedStates ==
    ASSUME IInv, [Next]_vars, assessed' # assessed
    PROVE  /\ clock' = clock
           /\ assessed' = Assessment(assessed'.traffic)
           /\ \A a \in Aircraft :
                  \/ assessed'.traffic[a] = anchors'[a]
                  \/ assessed'.traffic[a] = Moved(anchors'[a], clock)
  <1>1. CASE AssessTraffic
    <2>1. assessed' = Assessment(Snapshot) /\ clock' = clock /\ anchors' = anchors
      BY <1>1 DEF AssessTraffic
    <2>2. assessed'.traffic = Snapshot
      BY <2>1, AssessmentFacts
    <2>3. \A a \in Aircraft : Snapshot[a] = anchors[a] \/ Snapshot[a] = Moved(anchors[a], clock)
      BY DEF Snapshot, CurrentState
    <2>. QED
      BY <2>1, <2>2, <2>3
  <1>2. ASSUME NEW rank \in 1 .. MaxRecommendations, Apply(rank)
        PROVE  /\ clock' = clock
               /\ assessed' = Assessment(assessed'.traffic)
               /\ \A a \in Aircraft :
                      \/ assessed'.traffic[a] = anchors'[a]
                      \/ assessed'.traffic[a] = Moved(anchors'[a], clock)
    <2>. DEFINE c == advice.ranked[rank]
                traffic == [Snapshot EXCEPT ![c.target] = Replaced(c)]
    <2>1. /\ anchors' = [anchors EXCEPT ![c.target] = Replaced(c)]
          /\ assessed' = Assessment(traffic) /\ clock' = clock
      BY <1>2 DEF Apply
    <2>2. assessed'.traffic = traffic
      BY <2>1, AssessmentFacts
    <2>3. anchors \in Traffic /\ Snapshot \in Traffic
      BY SnapshotFacts DEF IInv, TrafficInv
    <2>. SUFFICES ASSUME NEW a \in Aircraft
                  PROVE  \/ traffic[a] = anchors'[a]
                         \/ traffic[a] = Moved(anchors'[a], clock)
      BY <2>1, <2>2
    <2>. HIDE DEF c
    <2>4. CASE a = c.target
      BY <2>1, <2>3, <2>4 DEF Traffic
    <2>5. CASE a # c.target
      <3>1. traffic[a] = CurrentState(a) /\ anchors'[a] = anchors[a]
        BY <2>1, <2>3, <2>5 DEF Traffic, Snapshot
      <3>. QED
        BY <3>1 DEF CurrentState
    <2>. QED
      BY <2>4, <2>5
  <1>. QED
    BY <1>1, <1>2 DEF Next, vars, Tick, Sample, Deviate, Resolve

\* A later assessment never rates a level pair lower that flies on towards the
\* closest approach it announced.
THEOREM AdvisoryRiskEscalates == Spec => RiskEscalates
  <1>. DEFINE Escalates(p) ==
                /\ \A i \in 1..2 : Actual(p[i])' = Moved(assessed.traffic[p[i]], clock')
                /\ LevelPair(p, assessed.traffic)
                /\ clock' <= assessed.at + assessed.events[p].tcpa
                => RiskPlace(assessed'.events[p]) >= RiskPlace(assessed.events[p])
  <1>1. ASSUME IInv, IInv', [Next]_vars, assessed # None, assessed' # assessed,
               NEW p \in Pairs(Aircraft)
        PROVE  Escalates(p)
    <2>. SUFFICES ASSUME \A i \in 1..2 : Actual(p[i])' = Moved(assessed.traffic[p[i]], clock'),
                         LevelPair(p, assessed.traffic),
                         clock' <= assessed.at + assessed.events[p].tcpa
                  PROVE  RiskPlace(assessed'.events[p]) >= RiskPlace(assessed.events[p])
      OBVIOUS
    <2>. USE <1>1
    <2>. DEFINE seen(i) == assessed.traffic[p[i]]
                again(i) == assessed'.traffic[p[i]]
                a == Aligned(seen(1), assessed.at)
                b == Aligned(seen(2), assessed.at)
                c == Aligned(again(1), clock)
                d == Aligned(again(2), clock)
                m == clock - assessed.at
    <2>1. /\ a \in Moving /\ b \in Moving /\ a.vs = b.vs
          /\ assessed.events[p] = ConflictEvent(a, b)
          /\ seen(1) \in Moving /\ seen(2) \in Moving /\ assessed.at \in Nat
      BY AssessedEvents DEF IInv, LevelPair
    <2>2. assessed.at <= clock /\ clock \in Nat /\ m \in Nat
      BY <2>1 DEF IInv, AssessedInv, TrafficInv
    <2>3. /\ clock' = clock /\ assessed' = Assessment(assessed'.traffic)
          /\ \A e \in Aircraft : \/ assessed'.traffic[e] = anchors'[e]
                                 \/ assessed'.traffic[e] = Moved(anchors'[e], clock)
      BY AssessedStates
    <2>4. p[1] \in Aircraft /\ p[2] \in Aircraft
      BY PairFacts
    <2>5. assessed'.events[p] = ConflictEvent(c, d)
      <3>1. PICK snapshot : snapshot = assessed'.traffic
        OBVIOUS
      <3>2. assessed' = Assessment(snapshot)
        BY <2>3, <3>1, Zenon
      <3>3. Assessment(snapshot).events[p]
                = ConflictEvent(Aligned(snapshot[p[1]], clock), Aligned(snapshot[p[2]], clock))
        BY AssessmentEvent, Zenon
      <3>. QED
        BY <3>1, <3>2, <3>3, Zenon
    <2>6. ASSUME NEW i \in 1..2
          PROVE  /\ Aligned(again(i), clock) \in Moving
                 /\ \A k \in Int : Displacement(Aligned(again(i), clock), k)
                                       = Displacement(Aligned(seen(i), assessed.at), m + k)
      <3>. DEFINE n == anchors'[p[i]]
                  s == seen(i)
                  r == again(i)
      <3>1. p[i] \in Aircraft /\ s \in Moving
        BY <2>1, <2>4
      <3>2. n \in Moving
        BY <3>1, StatesMove DEF IInv, TrafficInv, Traffic
      <3>3. r = n \/ r = Moved(n, clock)
        BY <2>3, <3>1
      <3>4. Moved(n, clock) = Moved(s, clock)
        BY <2>3 DEF Actual
      <3>5. r \in Moving
        BY <2>2, <3>2, <3>3, MovedFacts
      <3>. HIDE DEF n, s, r
      <3>6. PICK z \in Int : z = 0
        OBVIOUS
      <3>7. Aligned(r, clock) \in Moving
        BY <2>2, <3>5, <3>6, AlignedDisplacement, Zenon
      <3>8. \A k \in Int : Displacement(Aligned(r, clock), k)
                               = Displacement(Aligned(s, assessed.at), m + k)
        <4>. SUFFICES ASSUME NEW k \in Int
                      PROVE  Displacement(Aligned(r, clock), k)
                                 = Displacement(Aligned(s, assessed.at), (clock - assessed.at) + k)
          OBVIOUS
        <4>1. assessed.at \in Nat /\ clock \in Nat
          BY <2>1, <2>2
        <4>. QED
          BY <4>1, <3>1, <3>2, <3>3, <3>4, SeenAgain
      <3>. QED
        BY <3>7, <3>8 DEF r, s
    <2>7. /\ c \in Moving /\ d \in Moving
          /\ \A k \in Int : /\ Displacement(c, k) = Displacement(a, m + k)
                            /\ Displacement(d, k) = Displacement(b, m + k)
      <3>1. 1 \in 1..2 /\ 2 \in 1..2
        OBVIOUS
      <3>. HIDE DEF seen, again, m
      <3>. QED
        BY <2>6, <3>1, Zenon
    <2>. HIDE DEF a, b, c, d
    <2>8. m <= ClosestApproach(a, b).tcpa
      <3>1. assessed.events[p].tcpa = ClosestApproach(a, b).tcpa
        BY <2>1 DEF ConflictEvent
      <3>2. ClosestApproach(a, b).tcpa \in Int
        BY <2>1, ClosestApproachFacts, HorizonAssumption
      <3>. QED
        BY <2>1, <2>2, <2>3, <3>1, <3>2
    <2>. HIDE DEF m
    <2>9. RiskPlace(ConflictEvent(c, d)) >= RiskPlace(ConflictEvent(a, b))
      BY <2>1, <2>2, <2>7, <2>8, ApproachAgain
    <2>. QED
      BY <2>1, <2>5, <2>9
  <1>2. IInv /\ IInv' /\ [Next]_vars =>
            [assessed # None /\ assessed' # assessed =>
                 \A p \in Pairs(Aircraft) : Escalates(p)]_vars
    BY <1>1
  <1>. QED
    BY <1>2, AdvisoryInvariant, PTL DEF Spec, RiskEscalates

\* An aircraft keeps the priority a scenario event gave it: the events that count
\* for a later state include those that counted for an earlier one.
LEMMA PriorityGrows ==
    ASSUME NEW a, NEW s, NEW r, s.at \in Nat, r.at \in Nat, s.at <= r.at,
           PriorityPlace(Events, a, r) < PriorityPlace(Events, a, s)
    PROVE  s.emergency /\ ~r.emergency
  <1>. DEFINE early == {e.kind : e \in ActiveEvents(Events, a, s.at)}
              late  == {e.kind : e \in ActiveEvents(Events, a, r.at)}
  <1>1. \A e \in Events : e.at \in Nat
    BY TrafficAssumption DEF ScenarioEvents
  <1>2. early \subseteq late
    BY <1>1 DEF ActiveEvents
  <1>. DEFINE Of(emergency, kinds) ==
                IF emergency \/ "EMERGENCY_DECLARED" \in kinds THEN 3
                ELSE IF "ENTRY_CONFORMANCE_DEVIATION" \in kinds THEN 2 ELSE 1
  <1>3. /\ PriorityPlace(Events, a, s) = Of(s.emergency, early)
        /\ PriorityPlace(Events, a, r) = Of(r.emergency, late)
    BY DEF PriorityPlace
  <1>. HIDE DEF early, late
  <1>4. Of(r.emergency, late) < Of(s.emergency, early)
    BY <1>3
  <1>. QED
    BY <1>2, <1>4

\* A later assessment lowers a priority only when the aircraft's own emergency flag
\* was withdrawn: the events of the scenario stay due.
THEOREM AdvisoryPriorityKept == Spec => PriorityKept
  <1>. DEFINE Kept(a) == assessed'.priorities[a] < assessed.priorities[a] =>
                            assessed.traffic[a].emergency /\ ~assessed'.traffic[a].emergency
  <1>1. ASSUME IInv, IInv', [Next]_vars, assessed # None, assessed' # assessed,
               NEW a \in Aircraft
        PROVE  Kept(a)
    <2>. USE <1>1
    <2>1. ASSUME NEW snapshot \in Traffic, snapshot[a].at = Latest(a),
                 assessed' = Assessment(snapshot)
          PROVE  Kept(a)
      <3>1. /\ assessed.traffic[a].at <= Latest(a) /\ assessed.traffic[a].at \in Nat
            /\ assessed.priorities[a] = PriorityPlace(Events, a, assessed.traffic[a])
        BY DEF IInv, AssessedInv, Traffic, States
      <3>2. /\ assessed'.traffic = snapshot
            /\ assessed'.priorities = [b \in Aircraft |-> PriorityPlace(Events, b, snapshot[b])]
        BY <2>1, AssessmentFacts
      <3>3. snapshot[a].at \in Nat
        BY DEF Traffic, States
      <3>. QED
        BY <2>1, <3>1, <3>2, <3>3, PriorityGrows
    <2>2. /\ Snapshot \in Traffic
          /\ \A b \in Aircraft : /\ CurrentState(b) \in States
                                 /\ Snapshot[b] = CurrentState(b)
                                 /\ Snapshot[b].at = Latest(b)
      BY SnapshotFacts DEF IInv
    <2>3. CASE AssessTraffic
      BY <2>1, <2>2, <2>3 DEF AssessTraffic
    <2>4. ASSUME NEW rank \in 1 .. MaxRecommendations, Apply(rank) PROVE Kept(a)
      <3>. DEFINE c == advice.ranked[rank]
                  traffic == [Snapshot EXCEPT ![c.target] = Replaced(c)]
      <3>1. /\ advice # None /\ rank \in DOMAIN advice.ranked /\ c.maneuver.kind = "ALTITUDE"
            /\ c.target \notin Recorded /\ assessed' = Assessment(traffic)
        BY <2>4 DEF Apply
      <3>2. c.target \in Aircraft /\ c.maneuver.value \in Int
        BY <3>1, AdvisedFacts DEF IInv
      <3>3. Replaced(c) \in States /\ Replaced(c).at = Latest(c.target)
        <4>1. CurrentState(c.target) \in States /\ CurrentState(c.target).at = Latest(c.target)
          BY <2>2, <3>2
        <4>. HIDE DEF c
        <4>. QED
          BY <3>1, <3>2, <4>1, AltitudeApplied DEF Replaced
      <3>. HIDE DEF c
      <3>4. traffic \in Traffic /\ traffic[a].at = Latest(a)
        BY <2>2, <3>2, <3>3 DEF Traffic
      <3>. HIDE DEF traffic
      <3>. QED
        BY <2>1, <3>1, <3>4
    <2>. QED
      BY <2>3, <2>4 DEF Next, vars, Tick, Sample, Deviate, Resolve
  <1>2. IInv /\ IInv' /\ [Next]_vars =>
            [assessed # None /\ assessed' # assessed => \A a \in Aircraft : Kept(a)]_vars
    BY <1>1
  <1>. QED
    BY <1>2, AdvisoryInvariant, PTL DEF Spec, PriorityKept

-----------------------------------------------------------------------------
(* What a recommendation promises *)

\* With a recommendation in force no level pair of the traffic loses its
\* separation at any tick of the look-ahead, whatever the traffic, the templates
\* and the profiles.
THEOREM AdvisoryAdviceSound == Spec => []AdviceSound
  <1>1. IInv => AdviceSound
    <2>. SUFFICES ASSUME AdviceInv, advice # None, NEW i \in DOMAIN advice.ranked,
                         NEW p \in Pairs(Aircraft), NEW ticks \in 0 .. Horizon,
                         LevelPair(p, Isolated(advice.ranked[i], advice.traffic))
                  PROVE  LET traffic == Isolated(advice.ranked[i], advice.traffic)
                         IN  ~Lost(SeparationAfter(traffic[p[1]], traffic[p[2]], ticks))
      BY DEF IInv, AdviceSound
    <2>1. /\ advice.pair \in Pairs(Aircraft) /\ advice.traffic \in Traffic
          /\ WellMade(advice.candidates, advice.pair)
      BY DEF AdviceInv
    <2>. QED
      BY <2>1, AdvisedFacts, SafeKeepsApart
  <1>. QED
    BY <1>1, AdvisoryInvariant, PTL

\* No safe action that is left out, or ranked below, costs less than one ranked
\* above it.
THEOREM AdvisoryAdviceCheapest == Spec => []AdviceCheapest
  <1>1. IInv => AdviceCheapest
    <2>. DEFINE safe == SafeActions(advice.candidates, advice.results)
    <2>. SUFFICES ASSUME AdviceInv, advice # None, NEW c \in safe, NEW i \in DOMAIN advice.ranked,
                         \A j \in 1 .. i : advice.ranked[j] # c
                  PROVE  LET d == advice.ranked[i]
                         IN  \/ d.cost.score < c.cost.score
                             \/ /\ d.cost.score = c.cost.score
                                /\ \/ d.cost.delay < c.cost.delay
                                   \/ /\ d.cost.delay = c.cost.delay
                                      /\ d.cost.path <= c.cost.path
      BY DEF IInv, AdviceCheapest
    <2>1. /\ WellMade(advice.candidates, advice.pair)
          /\ advice.results = Findings(advice.candidates, advice.pair, advice.traffic)
          /\ advice.ranked = Ranked(advice.candidates, advice.results)
      BY DEF AdviceInv
    <2>2. Priced(safe)
      BY <2>1, SafeFacts
    <2>3. /\ DOMAIN advice.ranked = 1 .. Smaller(Cardinality(safe), MaxRecommendations)
          /\ Cardinality(safe) \in Nat
          /\ \A j \in DOMAIN advice.ranked :
                /\ advice.ranked[j] \in safe /\ Place(safe, advice.ranked[j]) = j - 1
      BY <2>1, <2>2, RankedFacts
    <2>4. Smaller(Cardinality(safe), MaxRecommendations) \in Int
      BY <2>3, RankingProfileAssumption DEF Smaller
    <2>. DEFINE d == advice.ranked[i]
    <2>5. d \in safe /\ Place(safe, d) = i - 1 /\ i \in Int /\ i >= 1
      BY <2>3, <2>4
    <2>. HIDE DEF safe
    <2>6. ~Cheaper(c, d)
      <3>1. ASSUME Cheaper(c, d) PROVE FALSE
        <4>1. Place(safe, c) < i - 1
          BY <2>2, <2>5, <3>1, PlaceGrows
        <4>2. Place(safe, c) \in Nat
          BY <2>2, PlaceType
        <4>3. Place(safe, c) + 1 \in 1 .. i
          BY <2>5, <4>1, <4>2
        <4>4. Place(safe, c) + 1 \in DOMAIN advice.ranked
          BY <2>3, <2>4, <4>3
        <4>5. Place(safe, advice.ranked[Place(safe, c) + 1]) = Place(safe, c)
          BY <2>3, <4>2, <4>4
        <4>6. advice.ranked[Place(safe, c) + 1] = c
          BY <2>2, <2>3, <4>4, <4>5, PlacesDiffer
        <4>. QED
          BY <4>3, <4>6
      <3>. QED
        BY <3>1
    <2>7. d # c
      BY <2>5
    <2>8. Cheaper(d, c)
      BY <2>2, <2>5, <2>6, <2>7, CheaperOrder
    <2>9. d.cost.path \in Int /\ c.cost.path \in Int
      BY <2>2, <2>5 DEF Priced, Costs
    <2>. HIDE DEF d
    <2>. QED
      BY <2>8, <2>9 DEF Cheaper, d
  <1>. QED
    BY <1>1, AdvisoryInvariant, PTL

\* Put in force later, an altitude maneuver leaves the aircraft where it would be
\* had it been put in force at once.
LEMMA LateApplied ==
    ASSUME NEW s \in States, NEW m, m.kind = "ALTITUDE", m.value \in Int,
           NEW t \in Nat, NEW now \in Nat
    PROVE  Displacement(Moved(Applied(Moved(s, t), m), now), 0)
               = Displacement(Applied(s, m), now - s.at)
  <1>. DEFINE r == Moved(s, t)
              g == Applied(r, m)
              v == Applied(s, m)
  <1>1. /\ s \in Moving /\ s.at \in Int /\ now - s.at \in Int /\ now - t \in Int
        /\ s.x \in Int /\ s.y \in Int /\ VX(s) \in Int /\ VY(s) \in Int
    BY StatesMove, VelocityFacts DEF States
  <1>2. /\ r \in States /\ r.at = t /\ r.gs = s.gs /\ r.hdg = s.hdg
        /\ r.x = s.x + VX(s) * (t - s.at) /\ r.y = s.y + VY(s) * (t - s.at)
    BY <1>1, MovedFacts
  <1>. HIDE DEF r
  <1>3. /\ g \in States /\ g.at = t /\ g.vs = 0 /\ g.alt = m.value
        /\ g.x = r.x /\ g.y = r.y /\ g.gs = r.gs /\ g.hdg = r.hdg
    BY <1>2, AltitudeApplied
  <1>4. /\ v \in States /\ v.vs = 0 /\ v.alt = m.value
        /\ v.x = s.x /\ v.y = s.y /\ v.gs = s.gs /\ v.hdg = s.hdg
    BY AltitudeApplied
  <1>. HIDE DEF g, v
  <1>5. Displacement(Moved(g, now), 0) = Displacement(g, now - t)
    <2>1. Displacement(Moved(g, now), 0) = Displacement(g, now - g.at + 0)
      BY <1>3, StatesMove, MovedDisplacement
    <2>. QED
      BY <1>1, <1>3, <2>1
  <1>6. VX(g) = VX(s) /\ VY(g) = VY(s) /\ VX(v) = VX(s) /\ VY(v) = VY(s)
    BY <1>2, <1>3, <1>4 DEF VX, VY
  <1>7. \A z, w \in Int : (z + w * (t - s.at)) + w * (now - t) = z + w * (now - s.at)
    <2>1. \A w \in Int : w * (t - s.at) + w * (now - t) = w * (now - s.at)
      BY <1>1, SMT
    <2>2. \A w \in Int : w * (t - s.at) \in Int /\ w * (now - t) \in Int
      BY <1>1, SMT
    <2>. QED
      BY <2>1, <2>2
  <1>8. /\ g.x + VX(g) * (now - t) = v.x + VX(v) * (now - s.at)
        /\ g.y + VY(g) * (now - t) = v.y + VY(v) * (now - s.at)
    <2>1. /\ (s.x + VX(s) * (t - s.at)) + VX(s) * (now - t) = s.x + VX(s) * (now - s.at)
          /\ (s.y + VY(s) * (t - s.at)) + VY(s) * (now - t) = s.y + VY(s) * (now - s.at)
      BY <1>1, <1>7
    <2>. QED
      BY <1>2, <1>3, <1>4, <1>6, <2>1
  <1>9. g.alt + g.vs * (now - t) = v.alt + v.vs * (now - s.at)
    <2>1. 0 * (now - t) = 0 /\ 0 * (now - s.at) = 0
      BY <1>1, SMT
    <2>. QED
      BY <1>3, <1>4, <2>1
  <1>10. \A u, j : Displacement(u, j) = [x   |-> u.x + VX(u) * j, y |-> u.y + VY(u) * j,
                                         alt |-> u.alt + u.vs * j]
    BY DEF Displacement, VX, VY
  <1>. QED
    BY <1>5, <1>8, <1>9, <1>10 DEF g, v, r

\* Altitude advice stays good when it is put in force late, for any delay up to
\* the look-ahead.
THEOREM AdvisoryLateAdviceKeeps == Spec => []LateAdviceKeeps
  <1>1. IInv => LateAdviceKeeps
    <2>. DEFINE c == advice.ranked[applied.rank]
                validated == Isolated(c, advice.traffic)
    <2>. SUFFICES ASSUME TrafficInv, AdviceInv, AppliedInv, applied # None,
                         clock <= advice.at + Horizon,
                         applied.from = Moved(advice.traffic[c.target], applied.at),
                         \A a \in Aircraft : FlownOn(a, applied.traffic),
                         \A a \in Aircraft \ {c.target} : FlownOn(a, advice.traffic),
                         NEW p \in Pairs(Aircraft), LevelPair(p, validated)
                  PROVE  ~Lost(SeparationAfter(Actual(p[1]), Actual(p[2]), 0))
      BY DEF IInv, LateAdviceKeeps
    <2>1. /\ advice # None /\ applied.rank \in DOMAIN advice.ranked
          /\ c.maneuver.kind = "ALTITUDE" /\ c.target \in Aircraft \ Recorded
          /\ applied.at \in Nat /\ advice.at <= applied.at /\ applied.at <= clock
          /\ applied.traffic[c.target] = Applied(applied.from, c.maneuver)
      BY DEF AppliedInv
    <2>2. /\ advice.at \in Nat /\ clock \in Nat
          /\ advice.pair \in Pairs(Aircraft)
          /\ advice.traffic \in Traffic /\ OneTimestamp(advice.traffic)
          /\ \A a \in Aircraft \ Recorded : advice.traffic[a].at = advice.at
          /\ WellMade(advice.candidates, advice.pair)
      BY <2>1 DEF AdviceInv, TrafficInv
    <2>3. /\ c \in advice.candidates /\ c.maneuver.value \in Int
          /\ ~Fails(Evidence(c, advice.pair, advice.traffic))
          /\ Evidence(c, advice.pair, advice.traffic).primary.status = "SAFE"
      BY <2>1, AdvisedFacts
    <2>4. c.target # NobodyId
      BY <2>1, AircraftAssumption
    <2>. DEFINE k == clock - advice.at
    <2>5. k \in 0 .. Horizon /\ k \in Int
      BY <2>1, <2>2, HorizonAssumption
    <2>6. \A a \in Aircraft : advice.traffic[a] \in States /\ advice.traffic[a].at = advice.at
      BY <2>1, <2>2 DEF Traffic, OneTimestamp
    <2>7. ASSUME NEW a \in Aircraft
          PROVE  Displacement(Actual(a), 0) = Displacement(validated[a], k)
      <3>1. CASE a = c.target
        <4>1. validated[a] = Applied(advice.traffic[a], c.maneuver)
          BY <2>2, <2>4, <3>1 DEF Isolated, Traffic
        <4>2. Actual(a) = Moved(Applied(Moved(advice.traffic[a], applied.at), c.maneuver), clock)
          BY <2>1, <3>1 DEF FlownOn
        <4>. HIDE DEF c, validated
        <4>. QED
          BY <2>1, <2>2, <2>3, <2>6, <4>1, <4>2, LateApplied
      <3>2. CASE a # c.target
        <4>1. validated[a] = advice.traffic[a]
          BY <2>1, <2>2, <3>2 DEF Isolated, Traffic
        <4>2. Actual(a) = Moved(advice.traffic[a], clock)
          BY <3>2 DEF FlownOn
        <4>. HIDE DEF c, validated
        <4>3. Displacement(Actual(a), 0)
                  = Displacement(advice.traffic[a], clock - advice.traffic[a].at + 0)
          BY <2>2, <2>6, <4>2, StatesMove, MovedDisplacement
        <4>4. clock - advice.traffic[a].at + 0 = k
          BY <2>2, <2>6
        <4>. QED
          BY <4>1, <4>3, <4>4
      <3>. QED
        BY <3>1, <3>2
    <2>8. SeparationAfter(Actual(p[1]), Actual(p[2]), 0)
              = SeparationAfter(validated[p[1]], validated[p[2]], k)
      <3>. HIDE DEF c, validated, k
      <3>. QED
        BY <2>7, PairFacts DEF SeparationAfter
    <2>9. ~Lost(SeparationAfter(validated[p[1]], validated[p[2]], k))
      <3>. HIDE DEF c, k
      <3>. QED
        BY <2>2, <2>3, <2>5, SafeKeepsApart
    <2>. QED
      BY <2>8, <2>9
  <1>. QED
    BY <1>1, AdvisoryInvariant, PTL

-----------------------------------------------------------------------------
(* What the records accept *)

\* What the evaluator finds for a pair is an event its record accepts.
LEMMA ConflictEventType ==
    ASSUME NEW a \in Moving, NEW b \in Moving
    PROVE  ConflictEvent(a, b) \in ConflictEvents
  <1>. DEFINE t == ClosestApproach(a, b).tcpa
              m == ClosestApproach(a, b).minimum
              sx == (b.x - a.x) + (VX(b) - VX(a)) * t
              sy == (b.y - a.y) + (VY(b) - VY(a)) * t
              rise == (b.alt - a.alt) + (b.vs - a.vs) * t
  <1>1. 0 \in 0 .. Horizon
    BY HorizonAssumption
  <1>2. t \in 0 .. Horizon /\ m = SeparationAfter(a, b, t)
    BY <1>1, ClosestApproachFacts
  <1>3. t \in Int
    BY <1>2
  <1>4. ConflictEvent(a, b) = [status |-> Classify(m), tcpa |-> t, minimum |-> m]
    BY DEF ConflictEvent
  <1>. HIDE DEF m, t
  <1>5. m = [dist2 |-> m.dist2, vert |-> m.vert]
    BY <1>2 DEF SeparationAfter
  <1>6. /\ m.dist2 = sx * sx + sy * sy /\ m.vert = IF rise >= 0 THEN rise ELSE -rise
        /\ sx \in Int /\ sy \in Int /\ rise \in Int
    BY <1>2, <1>3, SeparationFacts
  <1>. HIDE DEF sx, sy, rise
  <1>7. \A i \in Int : i * i \in Nat
    BY SMT
  <1>8. m.dist2 \in Nat /\ m.vert \in Nat
    <2>1. sx * sx \in Nat /\ sy * sy \in Nat
      BY <1>6, <1>7
    <2>. QED
      BY <1>6, <2>1
  <1>9. m \in [dist2 : Nat, vert : Nat]
    BY <1>5, <1>8
  <1>10. Classify(m) \in {"SAFE", "PREDICTED"}
    BY DEF Classify
  <1>. QED
    BY <1>2, <1>4, <1>9, <1>10 DEF ConflictEvents

\* Any traffic can be assessed, and every part of the assessment is well-typed.
LEMMA AssessmentType ==
    ASSUME clock \in 0 .. MaxClock, NEW snapshot \in Traffic
    PROVE  Assessment(snapshot) \in Assessments
  <1>. DEFINE aligned == [a \in Aircraft |-> Aligned(snapshot[a], clock)]
              events == Assess(aligned)
              paths == [a \in Aircraft |-> PredictedPath(snapshot[a], clock)]
              risks == [p \in DOMAIN events |-> RiskLevel(events[p])]
              priorities == [a \in Aircraft |-> PriorityPlace(Events, a, snapshot[a])]
  <1>1. Assessment(snapshot) = [at |-> clock, traffic |-> snapshot, paths |-> paths,
                                events |-> events, risks |-> risks, priorities |-> priorities]
    BY DEF Assessment
  <1>2. clock \in Nat /\ \A a \in Aircraft : snapshot[a] \in Moving
    BY StatesMove, TrafficAssumption DEF Traffic
  <1>3. aligned \in [Aircraft -> Moving]
    <2>1. \A s \in Moving : Aligned(s, clock) \in Moving
      BY <1>2, MovedFacts DEF Aligned
    <2>. QED
      BY <1>2, <2>1
  <1>4. paths \in PredictionRuns(Aircraft)
    <2>1. ASSUME NEW a \in Aircraft, NEW h \in PredictionHorizons
          PROVE  Displacement(snapshot[a], clock + h - snapshot[a].at) \in Points
      <3>1. clock + h - snapshot[a].at \in Int
        BY <1>2, HorizonAssumption DEF Moving
      <3>. QED
        BY <1>2, <3>1, DisplacementFacts
    <2>2. \A a \in Aircraft : PredictedPath(snapshot[a], clock) \in [PredictionHorizons -> Points]
      BY <2>1 DEF PredictedPath
    <2>. QED
      BY <2>2 DEF PredictionRuns
  <1>5. events \in ConflictRuns(Aircraft)
    <2>1. DOMAIN aligned = Aircraft
      OBVIOUS
    <2>. HIDE DEF aligned
    <2>2. \A p \in Pairs(Aircraft) : aligned[p[1]] \in Moving /\ aligned[p[2]] \in Moving
      BY <1>3, PairFacts
    <2>3. \A p \in Pairs(Aircraft) : ConflictEvent(aligned[p[1]], aligned[p[2]]) \in ConflictEvents
      BY <2>2, ConflictEventType
    <2>. QED
      BY <2>1, <2>3 DEF Assess, ConflictRuns
  <1>6. risks \in [Pairs(Aircraft) -> {RiskLevels[i] : i \in 1..4}]
    <2>1. DOMAIN events = Pairs(Aircraft)
      BY <1>5 DEF ConflictRuns
    <2>2. \A e : RiskPlace(e) \in 1..4
      BY DEF RiskPlace
    <2>3. \A e : RiskLevel(e) \in {RiskLevels[i] : i \in 1..4}
      BY <2>2 DEF RiskLevel
    <2>. HIDE DEF events
    <2>. QED
      BY <2>1, <2>3
  <1>7. priorities \in [Aircraft -> 1..3]
    <2>1. \A es, a, s : PriorityPlace(es, a, s) \in 1..3
      BY DEF PriorityPlace
    <2>. QED
      BY <2>1
  <1>. HIDE DEF paths, events, risks, priorities
  <1>. QED
    BY <1>1, <1>4, <1>5, <1>6, <1>7 DEF Assessments, Traffic

\* Every candidate of a batch that could be built carries a command.
LEMMA GeneratedType ==
    ASSUME NEW pair \in Pairs(Aircraft), NEW preferred \in {pair[1], pair[2]},
           NEW hint \in Hints, NEW traffic \in Traffic,
           \A template \in Templates :
               CanBeCommanded(template.kind,
                              ManeuverValue(template, pair, preferred, hint, traffic))
    PROVE  Generated(pair, preferred, hint, traffic) \subseteq Candidates
  <1>. DEFINE t == traffic[preferred].at
  <1>1. preferred \in Aircraft /\ pair[1] \in Aircraft /\ pair[2] \in Aircraft
    BY PairFacts
  <1>2. t \in Nat
    BY <1>1 DEF Traffic, States
  <1>3. ASSUME NEW template \in Templates
        PROVE  Candidate(template, pair, preferred, hint, traffic) \in Candidates
    <2>. DEFINE target == TargetOf(template, pair, preferred)
                v == ManeuverValue(template, pair, preferred, hint, traffic)
    <2>1. target \in Aircraft
      BY <1>1 DEF TargetOf, OtherOf
    <2>2. template.id \in Nat /\ template.kind \in Kinds /\ template.cost \in Costs
      BY TemplatesAssumption
    <2>3. v \in Int /\ CanBeCommanded(template.kind, v)
      BY ManeuverValueType
    <2>4. v \in Nat
      <3>1. CASE template.kind \in {"SPEED", "ALTITUDE"}
        <4>. HIDE DEF v
        <4>. QED
          BY <2>3, <3>1 DEF CanBeCommanded
      <3>2. CASE template.kind = "HEADING"
        <4>1. v = (traffic[target].hdg + HeadingChange) % 360
          BY <3>2 DEF ManeuverValue
        <4>2. traffic[target].hdg + HeadingChange \in Int
          BY <2>1, GenerationProfileAssumption DEF Traffic, States, Headings
        <4>3. \A i \in Int : i % 360 \in Nat
          OBVIOUS
        <4>. QED
          BY <4>1, <4>2, <4>3
      <3>3. CASE template.kind = "ENTRY_DELAY"
        <4>1. v = EntryDelay
          BY <3>3 DEF ManeuverValue
        <4>. QED
          BY <4>1, GenerationProfileAssumption
      <3>4. CASE template.kind = "SEQUENCE_CHANGE"
        <4>1. v = 1
          BY <3>4 DEF ManeuverValue
        <4>. QED
          BY <4>1
      <3>. QED
        BY <2>2, <3>1, <3>2, <3>3, <3>4 DEF Kinds
    <2>5. Candidate(template, pair, preferred, hint, traffic)
              = [id |-> template.id, target |-> target,
                 maneuver |-> [kind |-> template.kind, value |-> v],
                 cost |-> template.cost, from |-> t]
      BY DEF Candidate
    <2>. HIDE DEF v, target, t
    <2>6. [kind |-> template.kind, value |-> v] \in Maneuvers
      BY <2>2, <2>4 DEF Maneuvers
    <2>. QED
      BY <1>2, <2>1, <2>2, <2>5, <2>6 DEF Candidates
  <1>4. Baseline(t) \in Candidates
    <2>1. BaselineId \in Nat /\ ZeroCost \in Costs
      BY TemplatesAssumption DEF ZeroCost, Costs
    <2>. HIDE DEF t
    <2>2. [kind |-> "NO_ACTION", value |-> 0] \in Maneuvers
      BY DEF Maneuvers
    <2>. QED
      BY <1>2, <2>1, <2>2 DEF Baseline, Candidates
  <1>. QED
    BY <1>3, <1>4 DEF Generated

\* The traffic with a recommendation in force is traffic again.
LEMMA ReplacedTraffic ==
    ASSUME IInv, NEW rank \in 1 .. MaxRecommendations, Apply(rank)
    PROVE  LET c == advice.ranked[rank]
           IN  [Snapshot EXCEPT ![c.target] = Replaced(c)] \in Traffic
  <1>. DEFINE c == advice.ranked[rank]
              from == CurrentState(c.target)
  <1>1. /\ advice # None /\ rank \in DOMAIN advice.ranked
        /\ c.maneuver.kind = "ALTITUDE" /\ TrafficInv /\ AdviceInv
    BY DEF Apply, IInv
  <1>2. c.target \in Aircraft /\ c.maneuver.value \in Int
    BY <1>1, AdvisedFacts
  <1>3. Snapshot \in Traffic /\ from \in States
    BY <1>1, <1>2, SnapshotFacts
  <1>4. Replaced(c) = Applied(from, c.maneuver)
    BY DEF Replaced
  <1>. HIDE DEF c, from
  <1>5. Replaced(c) \in States
    BY <1>1, <1>2, <1>3, <1>4, AltitudeApplied
  <1>6. [Snapshot EXCEPT ![c.target] = Replaced(c)] \in Traffic
    BY <1>3, <1>5 DEF Traffic
  <1>. QED
    BY <1>6 DEF c

\* The parts of type correctness that IInv leaves to it.
TypeInv ==
    /\ clock <= MaxClock /\ deviations \in 0..MaxDeviations
    /\ assessed \in Assessments \cup {None}
    /\ answer \in {"NONE", "PUBLISHED", "REFUSED", "INCONSISTENT"}
    /\ advice # None => advice.candidates \subseteq Candidates

\* Every run of the evaluators is one that the records of prediction runs,
\* assessments, candidates and recommendations accept: whatever the traffic, no
\* separation or time to the closest approach is out of range, no command of a
\* published batch lacks its value, and advice names candidates of its batch.
THEOREM AdvisoryTypeOK == Spec => []TypeOK
  <1>1. Init => TypeInv
    BY TrafficAssumption DEF Init, TypeInv
  <1>2. IInv /\ TypeInv /\ [Next]_vars => TypeInv'
    <2>. SUFFICES ASSUME IInv, TypeInv, [Next]_vars PROVE TypeInv'
      OBVIOUS
    <2>1. /\ clock \in Nat /\ clock <= MaxClock /\ MaxClock \in Nat /\ clock \in 0..MaxClock
          /\ deviations \in 0..MaxDeviations /\ MaxDeviations \in Nat
          /\ assessed \in Assessments \cup {None}
          /\ answer \in {"NONE", "PUBLISHED", "REFUSED", "INCONSISTENT"}
          /\ advice # None => advice.candidates \subseteq Candidates
      BY TrafficAssumption DEF IInv, TrafficInv, TypeInv
    <2>2. Snapshot \in Traffic
      BY SnapshotFacts DEF IInv
    <2>3. CASE Tick
      BY <2>1, <2>3 DEF Tick, TypeInv
    <2>4. ASSUME NEW a \in Aircraft, Sample(a) PROVE TypeInv'
      BY <2>1, <2>4 DEF Sample, TypeInv
    <2>5. ASSUME NEW a \in Aircraft, Deviate(a) PROVE TypeInv'
      <3>1. deviations' = deviations + 1 /\ deviations < MaxDeviations
            /\ UNCHANGED <<clock, assessed, advice, answer>>
        BY <2>5 DEF Deviate
      <3>. QED
        BY <2>1, <3>1 DEF TypeInv
    <2>6. CASE AssessTraffic
      <3>1. assessed' \in Assessments /\ UNCHANGED <<clock, deviations, advice, answer>>
        BY <2>1, <2>2, <2>6, AssessmentType DEF AssessTraffic
      <3>. QED
        BY <2>1, <3>1 DEF TypeInv
    <2>7. ASSUME NEW pair \in Pairs(Aircraft), NEW preferred \in {pair[1], pair[2]},
                 NEW hint \in Hints, Resolve(pair, preferred, hint)
          PROVE  TypeInv'
      <3>. DEFINE candidates == Generated(pair, preferred, hint, Snapshot)
                  results == {Result(c, pair, Snapshot) : c \in candidates}
                  found == Answer(pair, preferred, hint, Snapshot, candidates, results)
      <3>1. /\ answer' = found
            /\ advice' = IF found = "PUBLISHED"
                         THEN Advice(pair, Snapshot, candidates, results) ELSE None
            /\ UNCHANGED <<clock, deviations, assessed>>
        BY <2>7 DEF Resolve
      <3>2. found \in {"PUBLISHED", "REFUSED", "INCONSISTENT"}
        BY DEF Answer
      <3>3. ASSUME found = "PUBLISHED" PROVE advice'.candidates \subseteq Candidates
        <4>. DEFINE two == [a \in {pair[1], pair[2]} |-> Snapshot[a]]
        <4>1. GenerationAccepted(pair, assessed.events[pair], assessed.at, preferred, hint, two)
          BY <3>3 DEF Answer
        <4>2. \A template \in Templates :
                  CanBeCommanded(template.kind,
                                 ManeuverValue(template, pair, preferred, hint, two))
          BY <4>1 DEF GenerationAccepted
        <4>3. ASSUME NEW template \in Templates
              PROVE  ManeuverValue(template, pair, preferred, hint, two)
                         = ManeuverValue(template, pair, preferred, hint, Snapshot)
          <5>1. TargetOf(template, pair, preferred) \in {pair[1], pair[2]}
            BY DEF TargetOf, OtherOf
          <5>2. two[TargetOf(template, pair, preferred)]
                    = Snapshot[TargetOf(template, pair, preferred)]
            BY <5>1
          <5>. HIDE DEF two
          <5>. QED
            BY <5>2 DEF ManeuverValue
        <4>4. candidates \subseteq Candidates
          BY <2>2, <4>2, <4>3, GeneratedType
        <4>5. advice'.candidates = candidates
          BY <3>1, <3>3 DEF Advice
        <4>. QED
          BY <4>4, <4>5
      <3>. HIDE DEF found
      <3>4. advice' # None => advice'.candidates \subseteq Candidates
        BY <3>1, <3>3
      <3>. QED
        BY <2>1, <3>1, <3>2, <3>4 DEF TypeInv
    <2>8. ASSUME NEW rank \in 1 .. MaxRecommendations, Apply(rank) PROVE TypeInv'
      <3>. DEFINE c == advice.ranked[rank]
                  traffic == [Snapshot EXCEPT ![c.target] = Replaced(c)]
      <3>1. assessed' = Assessment(traffic) /\ UNCHANGED <<clock, deviations, advice, answer>>
        BY <2>8 DEF Apply
      <3>2. traffic \in Traffic
        BY <2>8, ReplacedTraffic
      <3>. HIDE DEF traffic
      <3>3. assessed' \in Assessments
        BY <2>1, <3>1, <3>2, AssessmentType
      <3>. QED
        BY <2>1, <3>1, <3>3 DEF TypeInv
    <2>9. CASE UNCHANGED vars
      BY <2>1, <2>9 DEF vars, TypeInv
    <2>. QED
      BY <2>3, <2>4, <2>5, <2>6, <2>7, <2>8, <2>9 DEF Next
  <1>3. IInv /\ TypeInv => TypeOK
    <2>. SUFFICES ASSUME IInv, TypeInv PROVE TypeOK
      OBVIOUS
    <2>1. /\ clock \in 0..MaxClock /\ anchors \in [Aircraft -> States]
          /\ \A a \in Aircraft : anchors[a].at <= clock
      BY TrafficAssumption DEF IInv, TrafficInv, Traffic, TypeInv
    <2>2. ASSUME advice # None
          PROVE  /\ advice.at \in 0..clock
                 /\ {advice.ranked[i] : i \in DOMAIN advice.ranked} \subseteq advice.candidates
      <3>1. AdviceInv /\ clock \in Nat
        BY DEF IInv, TrafficInv
      <3>2. advice.at \in Nat /\ advice.at <= clock
        BY <2>2, <3>1 DEF AdviceInv
      <3>3. \A i \in DOMAIN advice.ranked : advice.ranked[i] \in advice.candidates
        BY <2>2, <3>1, AdvisedFacts
      <3>. QED
        BY <3>1, <3>2, <3>3
    <2>3. ASSUME applied # None PROVE advice # None /\ applied.at \in advice.at..clock
      <3>1. /\ advice # None /\ applied.at \in Nat
            /\ advice.at <= applied.at /\ applied.at <= clock
        BY <2>3 DEF IInv, AppliedInv
      <3>2. advice.at \in Int /\ clock \in Int
        BY <2>1, <2>2, <3>1
      <3>. QED
        BY <3>1, <3>2
    <2>. QED
      BY <2>1, <2>2, <2>3 DEF TypeInv, TypeOK
  <1>. QED
    BY <1>1, <1>2, <1>3, AdvisoryInvariant, PTL DEF Spec

-----------------------------------------------------------------------------
(* Which requests are answered *)

\* No aircraft is further below zero than an altitude command lifts it.
AboveGround == \A a \in Aircraft : Snapshot[a].alt + AltitudeChange >= 0

\* Each template gives a command that its record accepts.
LEMMA CommandsCanBeBuilt ==
    ASSUME \A a \in Aircraft : Performance[a].minSpeed > 0,
           NEW template \in Templates, NEW pair \in Pairs(Aircraft),
           NEW preferred \in {pair[1], pair[2]}, NEW hint \in Hints, NEW traffic \in Traffic,
           traffic[preferred].alt + AltitudeChange >= 0
    PROVE  CanBeCommanded(template.kind,
                          ManeuverValue(template, pair, preferred, hint, traffic))
  <1>. DEFINE target == TargetOf(template, pair, preferred)
              s == traffic[target]
              p == Performance[target]
              v == ManeuverValue(template, pair, preferred, hint, traffic)
  <1>1. target \in Aircraft
    BY PairFacts DEF TargetOf, OtherOf
  <1>2. /\ s.alt \in Int /\ s.gs \in Int /\ p.ceiling \in Nat /\ p.minSpeed \in Nat
        /\ p.minSpeed > 0
    BY <1>1, PerformanceAssumption DEF Traffic, States, PerformanceProfiles
  <1>3. AltitudeChange \in Nat /\ SpeedChange \in Nat /\ (hint # NoHint => hint \in Nat)
    BY GenerationProfileAssumption, TrafficAssumption
  <1>4. CASE template.kind = "SPEED"
    <2>1. v = Larger(p.minSpeed, s.gs - SpeedChange)
      BY <1>4 DEF ManeuverValue, ReducedSpeed
    <2>. HIDE DEF v, p, s
    <2>2. v > 0
      BY <1>2, <1>3, <2>1 DEF Larger
    <2>. QED
      BY <1>4, <2>2 DEF CanBeCommanded, v
  <1>5. CASE template.kind = "ALTITUDE"
    <2>1. CASE target = preferred /\ hint # NoHint
      <3>1. v = hint
        BY <1>5, <2>1 DEF ManeuverValue
      <3>. HIDE DEF v
      <3>. QED
        BY <1>3, <1>5, <2>1, <3>1 DEF CanBeCommanded, v
    <2>2. CASE target = preferred /\ hint = NoHint
      <3>1. v = Smaller(s.alt + AltitudeChange, p.ceiling)
        BY <1>5, <2>2 DEF ManeuverValue
      <3>2. s.alt + AltitudeChange >= 0
        BY <2>2
      <3>. HIDE DEF v, s, p
      <3>3. v >= 0
        BY <1>2, <1>3, <3>1, <3>2 DEF Smaller
      <3>. QED
        BY <1>5, <3>3 DEF CanBeCommanded, v
    <2>3. CASE target # preferred
      <3>1. v = Larger(0, s.alt - AltitudeChange)
        BY <1>5, <2>3 DEF ManeuverValue
      <3>. HIDE DEF v, s
      <3>2. v >= 0
        BY <1>2, <1>3, <3>1 DEF Larger
      <3>. QED
        BY <1>5, <3>2 DEF CanBeCommanded, v
    <2>. QED
      BY <2>1, <2>2, <2>3
  <1>6. CASE template.kind \notin {"SPEED", "ALTITUDE"}
    BY <1>6 DEF CanBeCommanded
  <1>. QED
    BY <1>4, <1>5, <1>6

LEMMA TwoElements ==
    ASSUME NEW S, IsFiniteSet(S), NEW x \in S, NEW y \in S, x # y
    PROVE  Cardinality(S) >= 2
  <1>. DEFINE one == {x}
  <1>1. one \in SUBSET S /\ one # S
    OBVIOUS
  <1>2. Cardinality(one) = 1
    BY FS_Singleton
  <1>. HIDE DEF one
  <1>3. Cardinality(one) <= Cardinality(S) /\ Cardinality(one) # Cardinality(S)
    BY <1>1, FS_Subset
  <1>4. Cardinality(S) \in Nat
    BY FS_CardinalityType
  <1>. QED
    BY <1>2, <1>3, <1>4

\* Where each profile has a speed it can be slowed to, each hint is within the
\* ceilings, some aircraft is synthetic and none is far below zero, a request for
\* an active conflict is refused only for traffic of different times: no template
\* yields a command that its record refuses.
THEOREM AdvisoryConflictsAnswered ==
    ASSUME \A a \in Aircraft : Performance[a].minSpeed > 0,
           \A hint \in Hints, a \in Aircraft : hint = NoHint \/ hint <= Performance[a].ceiling,
           Aircraft \ Recorded # {}
    PROVE  Spec /\ []AboveGround => ConflictsAnswered
  <1>. DEFINE Refused == answer' = "REFUSED" /\ answer # "REFUSED"
  <1>1. ASSUME IInv, AboveGround, [Next]_vars, Refused
        PROVE  ~OneTimestamp(Snapshot)
    <2>0. PICK pair \in Pairs(Aircraft) :
              \E preferred \in {pair[1], pair[2]}, hint \in Hints : Resolve(pair, preferred, hint)
      BY <1>1 DEF Next, vars, Tick, Sample, Deviate, AssessTraffic, Apply
    <2>1. PICK preferred \in {pair[1], pair[2]}, hint \in Hints : Resolve(pair, preferred, hint)
      BY <2>0
    <2>. SUFFICES ASSUME OneTimestamp(Snapshot) PROVE FALSE
      OBVIOUS
    <2>. DEFINE two == [a \in {pair[1], pair[2]} |-> Snapshot[a]]
                candidates == Generated(pair, preferred, hint, Snapshot)
                event == assessed.events[pair]
    <2>2. /\ assessed # None /\ assessed.risks[pair] \in {"HIGH", "CRITICAL"}
          /\ AssessedInv /\ TrafficInv
      BY <1>1, <2>1 DEF Resolve, Conflicting, IInv
    <2>3. Snapshot \in Traffic /\ \A a \in Aircraft : Snapshot[a].at = Latest(a)
      BY <2>2, SnapshotFacts
    <2>4. pair[1] \in Aircraft /\ pair[2] \in Aircraft /\ preferred \in Aircraft
      BY PairFacts
    <2>5. \A a, b \in Aircraft : Snapshot[a].at = Snapshot[b].at
      BY DEF OneTimestamp, Snapshot
    <2>6. Snapshot[preferred].at = clock
      <3>1. PICK b \in Aircraft : b \notin Recorded
        OBVIOUS
      <3>2. Snapshot[b].at = clock
        BY <2>3, <3>1 DEF Latest
      <3>. QED
        BY <2>4, <2>5, <3>2
    <2>7. RiskLevel(event) # "LOW"
      <3>1. pair \in DOMAIN assessed.events
        BY <2>2 DEF AssessedInv, Assess
      <3>2. assessed.risks[pair] = RiskLevel(event)
        BY <2>2, <3>1 DEF AssessedInv
      <3>. HIDE DEF event
      <3>. QED
        BY <2>2, <3>2
    <2>8. OneTimestamp(two) /\ two[preferred].at = clock
      BY <2>4, <2>5, <2>6 DEF OneTimestamp
    <2>9. assessed.at <= clock
      BY <2>2 DEF AssessedInv
    <2>10. ASSUME NEW template \in Templates
           PROVE  CanBeCommanded(template.kind,
                                 ManeuverValue(template, pair, preferred, hint, two))
      <3>1. CanBeCommanded(template.kind,
                           ManeuverValue(template, pair, preferred, hint, Snapshot))
        BY <1>1, <2>3, <2>4, CommandsCanBeBuilt DEF AboveGround
      <3>2. TargetOf(template, pair, preferred) \in {pair[1], pair[2]}
        BY DEF TargetOf, OtherOf
      <3>3. two[TargetOf(template, pair, preferred)]
                = Snapshot[TargetOf(template, pair, preferred)]
        BY <3>2
      <3>. HIDE DEF two
      <3>4. ManeuverValue(template, pair, preferred, hint, two)
                = ManeuverValue(template, pair, preferred, hint, Snapshot)
        BY <3>3 DEF ManeuverValue
      <3>. QED
        BY <3>1, <3>4
    <2>11. GenerationAccepted(pair, event, assessed.at, preferred, hint, two)
      <3>1. DOMAIN two = {pair[1], pair[2]}
        OBVIOUS
      <3>. HIDE DEF two, event
      <3>. QED
        BY <2>4, <2>7, <2>8, <2>9, <2>10, <3>1 DEF GenerationAccepted
    <2>12. ValidationAccepted(candidates, pair, Snapshot)
      <3>1. DOMAIN Snapshot = Aircraft
        BY DEF Snapshot
      <3>2. Cardinality(Aircraft) >= 2
        <4>1. pair[1] # pair[2]
          BY AircraftAssumption DEF Pairs
        <4>. QED
          BY <2>4, <4>1, AircraftAssumption, TwoElements
      <3>3. \A c \in candidates : c.from = Snapshot[pair[1]].at
        BY <2>3, <2>4, <2>5, GeneratedFacts
      <3>. HIDE DEF candidates
      <3>. QED
        BY <2>4, <3>1, <3>2, <3>3 DEF ValidationAccepted
    <2>13. answer' # "REFUSED"
      <3>1. answer' = Answer(pair, preferred, hint, Snapshot, candidates,
                             {Result(c, pair, Snapshot) : c \in candidates})
        BY <2>1 DEF Resolve
      <3>. HIDE DEF candidates
      <3>. QED
        BY <2>11, <2>12, <3>1 DEF Answer
    <2>. QED
      BY <1>1, <2>13
  <1>2. IInv /\ AboveGround /\ [Next]_vars => [Refused => ~OneTimestamp(Snapshot)]_vars
    BY <1>1
  <1>. QED
    BY <1>2, AdvisoryInvariant, PTL DEF Spec, ConflictsAnswered
=============================================================================
