SPECIFICATION Spec
CONSTANTS
    e1 = e1
    r1 = r1
    r2 = r2
    c1 = c1
    c2 = c2
    c3 = c3
    ann = ann
    bob = bob
    lea = lea
    team_lead = team_lead
    analyst = analyst
    direct = direct
    Emails = {e1}
    RequestIds = {r1, r2}
    Calls = {c1, c2, c3}
    Admins = {ann, bob}
    Leads = {lea}
    Roles = {team_lead, analyst}
    LeadRole = team_lead
    MemberRoles = {analyst}
    Direct = direct
    MaxFaults = 1
    MayCrash = TRUE
SYMMETRY MCSymmetry
\* Every call may have been made and every token settled.
CHECK_DEADLOCK FALSE
INVARIANTS TypeOK OneInvitePerAddress ApprovedWasInvited ActiveByInvite AnswersAreTrue
PROPERTY DecidedStays
