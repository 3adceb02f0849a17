\* Two clients and two logins, of either kind.
SPECIFICATION FairSpec
CONSTANTS
  Client = {a, b}
  Kind = {"upload", "download"}
  MaxLink = 2
INVARIANTS TypeOK AloneIsServed AnsweredIsServed IndexBounded
PROPERTY LoginsEnd
\* The clients may stop logging in.
CHECK_DEADLOCK FALSE
