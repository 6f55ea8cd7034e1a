--------------------------- MODULE ProviderClients ---------------------------
(* pantry/auth/oauth2: the API clients of the providers.  Every method makes one
   request (Classroom's GetCourses two), and returns an error or what the answer
   holds.  The services are external: any of them may answer with the first page
   of a list (no method asks for the next one, though Blackboard's and
   Classroom's answers name it), and Moodle's web services may answer with an
   error object under status 200. *)
EXTENDS Integers, Sequences, FiniteSets, TLC

CONSTANT MaxItems          \* bound: what a service holds for a request

ASSUME ClientsAssumption == MaxItems \in Nat

VARIABLES method,          \* <<client, method>>
          clientCall,            \* "made", "asked", "ok" or "error"
          ctxDone,         \* the caller's context has been cancelled
          asks,            \* requests still to be made
          held,            \* items the service holds, for each request
          page,            \* items it puts into one answer at most
          heard,           \* how the requests have ended so far
          gathered            \* what the method returns

clientVars == <<method, clientCall, ctxDone, asks, held, page, heard, gathered>>

-----------------------------------------------------------------------------
(* shape: an object or a list; "wrapped" inside an object of the answer's;
   "first" of a list, "inner" list of the list's first element, "mine" the
   element that is the user's; "posted" has no answer to decode. *)
Methods(names, shape) == [n \in names |-> [shape |-> shape, ctx |-> FALSE]]
WithContext(names, shape) == [n \in names |-> [shape |-> shape, ctx |-> TRUE]]

BannerStudents == Methods({"GetStudentCourses", "GetStudentGrades"}, "list")
                  @@ Methods({"GetStudentRecord"}, "object")
BannerTerms == Methods({"GetFacultySections", "GetSectionRoster", "GetTerms", "GetStudentHolds"}, "list")
               @@ Methods({"GetCurrentTerm"}, "object")
BlackboardCourses == Methods({"GetMyCourses"}, "wrapped") @@ Methods({"GetCourse"}, "object")
BlackboardCoursework == Methods({"GetCourseAssignments", "GetMyGrades"}, "wrapped")
BlackboardGradebook == Methods({"GetGradebookColumns"}, "wrapped") @@ Methods({"GetTerm"}, "object")
BlackboardMembership == Methods({"GetCourseAnnouncements"}, "wrapped") @@ Methods({"GetCourseMembership"}, "object")
CanvasCourses == Methods({"GetCourses", "GetCoursesWithOptions"}, "list") @@ Methods({"GetCourse"}, "object")
CanvasPeople == Methods({"GetCourseStudents", "GetCourseTeachers", "GetCourseAssignments", "GetMySubmissions"}, "list")
DiscordAPIClient == Methods({"GetUserGuilds", "GetUserConnections"}, "list")
                    @@ Methods({"GetGuildMember"}, "object")
EdFiPeople == Methods({"GetStudents", "GetStaff"}, "list") @@ Methods({"GetStudent", "GetStaffMember"}, "object")
EdFiSchools == Methods({"GetSchools", "GetLocalEducationAgencies", "GetStudentSchoolAssociations"}, "list")
               @@ Methods({"GetSchool"}, "object")
EdFiSections == Methods({"GetSections", "GetStaffSectionAssociations", "GetStudentSectionAssociations"}, "list")
EdFiRecords == Methods({"GetGrades", "GetStudentSchoolAttendanceEvents", "GetCourses"}, "list")
GG4LSchools == Methods({"GetSchools"}, "list")
GG4LPeople == Methods({"GetStudents", "GetTeachers"}, "list") @@ Methods({"GetSchool", "GetDistrict"}, "object")
GG4LClasses == Methods({"GetClasses", "GetClassEnrollments", "GetStudentClasses", "GetTeacherClasses",
                        "GetOrgUnits", "GetParentStudents"}, "list")
GoogleClassroomClient == Methods({"GetCourses", "GetCourseStudents", "GetCourseTeachers"}, "wrapped")
InfiniteCampusStudents == Methods({"GetStudentSchedule", "GetStudentGrades", "GetStudentAttendance"}, "wrapped")
InfiniteCampusStaff == Methods({"GetParentStudents", "GetStaffSections", "GetSectionRoster"}, "list")
                       @@ Methods({"GetSchool"}, "object")
LinkedInProfile == Methods({"GetProfile"}, "object")
LinkedInShares == WithContext({"GetPrimaryEmail"}, "first") @@ WithContext({"CreateTextShare"}, "posted")
MicrosoftGraphClient == Methods({"GetProfile"}, "object") @@ Methods({"GetMyClasses"}, "wrapped")
MicrosoftClasses == Methods({"GetEducationUser"}, "object") @@ Methods({"GetClassMembers", "GetClassTeachers"}, "wrapped")
MoodleCourses == Methods({"GetUserCourses"}, "list")
MoodlePeople == Methods({"GetCourseEnrolledUsers"}, "list") @@ Methods({"GetCourse"}, "first")
MoodleGrades == Methods({"GetUserGrades", "GetCourseAssignments", "GetAssignmentSubmissions"}, "inner")
MoodleRoles == Methods({"GetCategories"}, "list") @@ Methods({"GetUserRolesInCourse"}, "mine")
OktaAPIClient == Methods({"GetUserGroups"}, "list") @@ Methods({"GetCurrentUser", "GetUser"}, "object")
PowerSchoolAPIClient == Methods({"GetStudent", "GetSchool"}, "object") @@ Methods({"GetStudentSections"}, "wrapped")
SchoologySections == Methods({"GetUserCourses", "GetCourseAssignments", "GetCourseGrades"}, "wrapped")
SchoologySchools == Methods({"GetCourseEnrollments", "GetSchoolGradingPeriods"}, "wrapped")
                    @@ Methods({"GetSchool"}, "object")
SkywardStudents == Methods({"GetStudentSchedule", "GetStudentGrades"}, "list")
SkywardFamilies == Methods({"GetStudentGradeSummary", "GetStudentAttendance", "GetFamilyStudents", "GetStudentFees"}, "list")
SkywardSchools == Methods({"GetStaffSections", "GetSectionRoster", "GetGradingPeriods"}, "list")
                  @@ Methods({"GetEntity"}, "object")
WorkdayStudents == Methods({"GetStudentCourses"}, "wrapped")
                   @@ Methods({"GetStudentRecord"}, "object")
WorkdaySections == Methods({"GetInstructorSections", "GetSectionRoster", "GetAcademicPeriods"}, "wrapped")
                   @@ Methods({"GetCurrentAcademicPeriod"}, "object")
WorkdayAdvising == Methods({"GetStudentGrades", "GetAdvisees"}, "wrapped")

ClientMethods == [banner |-> BannerStudents @@ BannerTerms, blackboard |-> BlackboardCourses @@ BlackboardCoursework
                                                         @@ BlackboardGradebook @@ BlackboardMembership,
    canvas |-> CanvasCourses @@ CanvasPeople, discord |-> DiscordAPIClient,
    edfi |-> EdFiPeople @@ EdFiSchools @@ EdFiSections @@ EdFiRecords, gg4l |-> GG4LSchools @@ GG4LPeople @@ GG4LClasses,
    classroom |-> GoogleClassroomClient, campus |-> InfiniteCampusStudents @@ InfiniteCampusStaff,
    linkedin |-> LinkedInProfile @@ LinkedInShares, microsoft |-> MicrosoftGraphClient @@ MicrosoftClasses,
    moodle |-> MoodleCourses @@ MoodlePeople @@ MoodleGrades @@ MoodleRoles,
    okta |-> OktaAPIClient, powerschool |-> PowerSchoolAPIClient,
    schoology |-> SchoologySections @@ SchoologySchools, skyward |-> SkywardStudents @@ SkywardFamilies @@ SkywardSchools,
    workday |-> WorkdayStudents @@ WorkdaySections @@ WorkdayAdvising]
AllMethods == UNION {{<<c, m>> : m \in DOMAIN ClientMethods[c]} : c \in DOMAIN ClientMethods}

-----------------------------------------------------------------------------
Op == ClientMethods[method[1]][method[2]]
TwoRequests == method = <<"classroom", "GetCourses">>   \* as a teacher, then as a student
Least(a, b) == IF a < b THEN a ELSE b

ClientsInit == /\ method \in AllMethods
               /\ held \in [1 .. (IF TwoRequests THEN 2 ELSE 1) -> 0 .. MaxItems]
               /\ page \in 1 .. MaxItems
               /\ clientCall = "made" /\ ctxDone = FALSE /\ asks = DOMAIN held /\ heard = << >> /\ gathered = 0

Ask == /\ clientCall = "made" /\ clientCall' = "asked"
       /\ UNCHANGED <<method, ctxDone, asks, held, page, heard, gathered>>

(* What a decoded answer yields: -1 is an error. *)
Yields(n) == CASE Op.shape \in {"object", "posted"} -> 1
               [] Op.shape = "first" -> IF n = 0 THEN -1 ELSE 1
               [] Op.shape \in {"list", "wrapped"} -> Least(n, page)
               [] OTHER -> n

(* The request cannot be made ("net"), or its answer has another status, cannot
   be decoded, is an error object, or is the one asked for.  An error object
   cannot be decoded as a list; where the list is a field of an object it is one
   without the field.  fetchClassroomCourses takes a bad status and what it
   cannot decode for no courses. *)
Answered(a) ==
    LET n == CASE a = "net" -> -1
               [] a \in {"status", "garbled"} /\ TwoRequests -> 0
               [] a = "status" -> -1
               [] a = "garbled" /\ Op.shape # "posted" -> -1
               [] a = "errobj" -> IF Op.shape = "inner" THEN 0 ELSE -1
               [] OTHER -> Yields(held[Len(heard) + 1])
    IN  /\ clientCall = "asked" /\ asks # {} /\ (a = "errobj" => method[1] = "moodle")
        /\ heard' = Append(heard, a) /\ asks' = asks \ {Len(heard) + 1}
        /\ gathered' = IF n = -1 THEN gathered ELSE gathered + n
        /\ clientCall' = IF n = -1 THEN "error" ELSE IF asks' = {} THEN "ok" ELSE "asked"
        /\ UNCHANGED <<method, ctxDone, held, page>>

(* The caller gives up.  Only a request made with the context ends by it. *)
Cancel == /\ ~ctxDone /\ clientCall \in {"made", "asked"} /\ ctxDone' = TRUE
          /\ UNCHANGED <<method, clientCall, asks, held, page, heard, gathered>>
Abandoned == /\ ctxDone /\ Op.ctx /\ clientCall = "asked" /\ clientCall' = "error"
             /\ UNCHANGED <<method, ctxDone, asks, held, page, heard, gathered>>

ClientsNext == Ask \/ Cancel \/ Abandoned \/ \E a \in {"net", "status", "garbled", "errobj", "ok"} : Answered(a)

ClientsSpec == ClientsInit /\ [][ClientsNext]_clientVars

ClientsTypeOK == /\ clientCall \in {"made", "asked", "ok", "error"} /\ ctxDone \in BOOLEAN
                 /\ gathered \in 0 .. 2 * MaxItems + 2

-----------------------------------------------------------------------------
(* A method that reports success has had its request answered as it wanted, and
   an object is never made up.  What it returns of a list is what the answer
   holds: the whole of it only where it fits one page, which is less than "all
   courses" (blackboard.go:476).  Two refusals pass for an empty list: an error
   object of Moodle's, for the methods that look for a list inside an object, and
   any refused request of Classroom's GetCourses. *)
SuccessIsAnswered ==
    clientCall = "ok" /\ ~TwoRequests =>
        /\ \/ heard = <<"ok">>
           \/ Op.shape = "posted" /\ heard = <<"garbled">>
           \/ Op.shape = "inner" /\ method[1] = "moodle" /\ heard = <<"errobj">> /\ gathered = 0
        /\ heard = <<"ok">> /\ Op.shape \in {"list", "wrapped", "inner", "mine"} =>
              gathered <= held[1] /\ (held[1] <= page => gathered = held[1])
        /\ Op.shape = "first" => held[1] > 0
=============================================================================
