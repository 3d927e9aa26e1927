SPECIFICATION AnalysisSpec
CONSTANTS
 Present = {rinne, white, aldrich}
 MaxSentences = 6
 MaxVotes = 2
 Agenda <- MCAgenda
 Segments <- MCSegments
 MaxSegments = 4
 Window = 3
 PassageSize = 2
 Ordinance = {"fees", "rates"}
 Sessions <- MCSessions
 Agendas <- MCAgendas
 Decisions <- MCDecisions
 MaxMeetings = 3
 MaxEntries = 3
 Kept = 80
 Others = {20, 60}
 RecordStart = 0
SYMMETRY Members
INVARIANTS
 FinalIsTruth
 RecordIsTruth
 AlignmentIsBest
 OneItemAtATime
 RolesFollowTheFloor
 AccusationsAreReal
 LifecyclesAreOrdinances
CHECK_DEADLOCK FALSE
