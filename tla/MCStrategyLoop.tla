--------------------------- MODULE MCStrategyLoop ---------------------------
(* A deployment of each kind, and charts built from four shapes of bar on  *)
(* a rising or falling base.                                               *)
EXTENDS StrategyLoop

MCSetups ==
    { [active |-> "LEGACY_LEVELS", shadow |-> "NONE", xauex |-> FALSE],
      [active |-> "EMA_PULLBACK_H1", shadow |-> "SCALP_V1", xauex |-> FALSE],
      [active |-> "SCALP_V1", shadow |-> "NONE", xauex |-> FALSE],
      [active |-> "LEGACY_LEVELS", shadow |-> "EMA_PULLBACK_H1", xauex |-> TRUE] }

MCCap == [m \in Modes |-> 1]
MCCooldown == [m \in Modes |-> 1]

Base == 200000

(* [open, high, low, close] above the base; falling bars are mirrored.     *)
Shapes == [ push |-> <<0, 700, -100, 650>>,
            pin |-> <<500, 650, -150, 600>>,
            inside |-> <<250, 450, 200, 400>>,
            dip |-> <<500, 550, -200, -100>> ]

Bar(shape, drift, k, up) ==
    LET s == Shapes[shape]
        base == Base + (IF up THEN k * drift ELSE -k * drift)
    IN  IF up
        THEN [open |-> base + s[1], high |-> base + s[2], low |-> base + s[3],
              close |-> base + s[4], at |-> k]
        ELSE [open |-> base - s[1], high |-> base - s[3], low |-> base - s[2],
              close |-> base - s[4], at |-> k]

Fresh == [readable |-> TRUE, made |-> 0, expires |-> 0]
Absent == [readable |-> FALSE]

Chart(shapes, drift, up, trend, now, macro, policy) ==
    LET bars == [k \in DOMAIN shapes |-> Bar(shapes[k], drift, k, up)]
        last == bars[Len(bars)]
    IN  [ bars |-> bars, now |-> now,
          daily |-> IF trend THEN <<Base, Base + 1000>> ELSE <<Base, Base - 1000>>,
          levels |-> {Base},
          htf |-> << [open |-> Base, high |-> Base + 900, low |-> Base - 800,
                      close |-> Base + 80],
                     [open |-> Base + 170, high |-> Base + 1000,
                      low |-> Base - 900, close |-> Base + 500] >>,
          price |-> last.close, spread |-> 20,
          quotes |-> {last.close - 400, last.close, last.close + 20},
          macro |-> macro, policy |-> policy ]

Names == DOMAIN Shapes
MacroFile == Fresh @@ [content |-> [side |-> 1, confidence |-> 80]]
PolicyFile == Fresh @@ [content |-> [sides |-> {1}, width |-> 150, reward |-> 80]]

(* Two bars that set the trend, then any three.                            *)
Runs == { <<a, a>> \o s : a \in {"push", "dip"}, s \in [1..3 -> Names] }

MCCorpus ==
    { Chart(shapes, drift, up, trend, now, Absent, Absent) :
        shapes \in Runs, drift \in {200, 350}, up \in BOOLEAN,
        trend \in BOOLEAN, now \in {5, 6} }
    \cup { Chart(shapes, 350, up, trend, 6, MacroFile, PolicyFile) :
        shapes \in Runs, up \in BOOLEAN, trend \in BOOLEAN }

(* A pin bar and an inside bar at a level, a pullback that a push ends.    *)
MCCharts ==
    { Chart(<<"dip", "dip", "dip", "push", shape>>, 200, TRUE, TRUE, 6, Absent,
            Absent) : shape \in {"pin", "inside"} }
    \cup { Chart(<<"push", "push", "inside", "inside", "push">>, 350, up, up, 6,
                 Absent, Absent) : up \in BOOLEAN }
=============================================================================
