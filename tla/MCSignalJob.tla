---------------------------- MODULE MCSignalJob ----------------------------
(* Tuesday of the second week; a decision of the FOMC is due on Wednesday. *)
EXTENDS SignalJob

Row0(seen, change) == [seen |-> seen, change |-> change, via |-> "fred"]

MCSlow == {"usd"}
MCTreasury == {"y10"}
MCVolatile == {"vix", "btc"}
MCInverted == {"usd", "y10"}
MCNeutral == {"btc"}
MCTracked == {"usd", "y10"}
MCMeetings == {9}
MCModes == {"baseline", "tradingagents_candidate"}
MCStarts == { [window |-> "morning", dry |-> FALSE], [window |-> "current", dry |-> TRUE] }
MCNews == {"y10"}
MCChanges == {-1, 1}
MCFirstDays == {8}

(* All of yesterday; the dollar a week old and the yield from Friday; all  *)
(* a week old.                                                             *)
MCSources ==
    { [s \in Series |-> Row0(7, -1)],
      [s \in Series |-> Row0(CASE s = "usd" -> 1 [] s = "y10" -> 4 [] OTHER -> 7, 1)],
      [s \in Series |-> Row0(1, 1)] }

(* Of Monday, ahead of FRED or against it, or still of Friday.             *)
MCReleases == { [s \in Treasury |-> row] : row \in {Row0(7, 1), Row0(4, 1)} }

MCOutages == { {}, {"y10"}, {"vix", "btc"}, {"y10", "vix", "btc"}, Series }

MCViews ==
    { [closes |-> <<10, 12, 15, 20>>, low |-> 10, high |-> 21, trend |-> -1],
      [closes |-> <<20, 19, 15, 12>>, low |-> 0, high |-> 20, trend |-> 0],
      [closes |-> <<10>>, low |-> 0, high |-> 20, trend |-> 1] }

MCTexts == { [bull |-> 5, bear |-> 0], [bull |-> 2, bear |-> 3] }

Answer(action, confidence, stop, target, blocker) ==
    [action |-> action, confidence |-> confidence, stop |-> stop,
     target |-> target, blocker |-> blocker]

MCAnswers ==
    { Answer("BUY", 70, 1200, 2400, FALSE), Answer("SELL", 70, 900, 9000, FALSE),
      Answer("SELL", 45, 2000, 2000, FALSE), Answer("HOLD", 0, 0, 0, FALSE),
      Answer("HOLD", 30, 0, 0, TRUE), Answer("WAIT", 60, 1200, 0, FALSE),
      Answer("BUY", NaN, NaN, NaN, FALSE) }

Risk(decision, adjustment, hard) ==
    [decision |-> decision, adjustment |-> adjustment, hard |-> hard]

MCGraphs ==
    { [final |-> Answer("SELL", 80, 1100, 2000, FALSE), risk |-> Risk("APPROVE", 0, FALSE)],
      [final |-> Answer("BUY", 60, 1100, 2000, FALSE),
       risk |-> Risk("REDUCE_CONFIDENCE", -90, FALSE)],
      [final |-> Answer("BUY", 30, 1100, 2000, FALSE),
       risk |-> Risk("REDUCE_CONFIDENCE", -30, FALSE)],
      [final |-> Answer("BUY", 80, 1100, 2000, FALSE), risk |-> Risk("APPROVE", 0, TRUE)] }

MCReviews ==
    { Risk("NONE", 0, FALSE), Risk("DISAGREE", -15, FALSE),
      Risk("BLOCK", 0, TRUE), Risk("ALIGNED", NaN, FALSE) }
=============================================================================
