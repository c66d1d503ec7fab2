\* Two requests interleaved, up to three messages, and two sockets that come and go.
SPECIFICATION DeskSpec
CONSTANTS
  Request = {r1, r2}
  MaxMessage = 3
  Socket = {s1, s2}
  MaxGhost = 1
SYMMETRY Symmetry
INVARIANTS DeskTypeOK UnreadNeverOverstates OneWelcome SummaryExact OnlineCounts
