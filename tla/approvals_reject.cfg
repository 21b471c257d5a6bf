\* Two readers of one offered fix: does a click on Reject reject the ticket, as
\* the page that answers it says?
SPECIFICATION ApprovalsSpec
CONSTANTS
  Server = {w1, w2}
  Ticket = {ticket}
  Person = {ann, bob}
  Link = Link
  Static = Static
  Nobody = Nobody
  Configuration = {{"signed"}, {"proxy"}}
  LinkTTL = 1
  FormTTL = 1
  MaxClock = 1
  MaxPages = 2
  MaxDeaths = 0
INVARIANTS
  RejectedMeansRejected
CHECK_DEADLOCK FALSE
