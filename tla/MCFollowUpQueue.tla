--------------------------- MODULE MCFollowUpQueue ---------------------------
\* Instances of the follow-up queue of one workspace.
EXTENDS FollowUpDelivery, TLC

CONSTANTS m1, m2, t1, t2

Result(eligible, rejected, preferred, terminal) ==
  [eligible |-> eligible, rejected |-> rejected, preferred |-> preferred, terminal |-> terminal]

\* The one agent succeeded.
OneAgent == {Result({1}, {}, 1, TRUE)}

\* Both agents succeeded, and perhaps the first was rejected; or only the second
\* did, or none did, or none ended.
TwoOrNone == {Result({1, 2}, {}, 1, TRUE), Result({1, 2}, {1}, 2, TRUE), Result({2}, {}, 2, TRUE),
              Result({}, {}, 0, TRUE), Result({}, {}, 0, FALSE)}
=============================================================================
