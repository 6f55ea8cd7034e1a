------------------------------ MODULE Providers ------------------------------
(* pantry/auth/oauth2, one provider per file: the constructor's checks of its
   configuration, and the fetcher that turns an access token (or an ID token,
   or a SAML assertion) into a User.  A fetcher is the list of requests it makes
   and what it does when one of them fails; what a service answers, and whether
   it answers, is external. *)
EXTENDS Integers, Sequences, FiniteSets

CONSTANT MaxSignIns        \* bound: sign-ins of one account

VARIABLES provider,        \* the provider's name
          given,           \* the configuration fields that are set
          stage,           \* "new", "refused", "ready" or "fetching"
          account,         \* what the service knows of the account: its attributes
          mails,           \* GitHub: the account's addresses
          saml,            \* Shibboleth: the attribute statements of the assertion
          claims,          \* Banner, Workday, Ed-Fi: what they say of the account's role
          todo,            \* requests the fetcher has still to make
          facts,           \* attributes it has read
          roleKnown,       \* Classroom: no course request failed to be made
          users,           \* users returned so far
          signIns

providerVars == <<provider, given, stage, account, mails, saml, claims, todo, facts, roleKnown, users, signIns>>

-----------------------------------------------------------------------------
(* What a constructor refuses to go without, in the order of its checks. *)
Checked(own) == <<"ClientID", "ClientSecret", "RedirectURL">> \o own \o <<"SessionStore", "StateStore">>

Google == Checked(<< >>)
GitHub == Checked(<< >>)
Discord == Checked(<< >>)
LinkedIn == Checked(<< >>)
Clever == Checked(<< >>)
ClassLink == Checked(<< >>)
GoogleClassroom == Checked(<< >>)
Schoology == Checked(<< >>)
GG4L == Checked(<< >>)
Microsoft == Checked(<< >>)
MicrosoftEducation == <<"TenantID">> \o Microsoft
Okta == Checked(<<"Domain">>)
Blackboard == Checked(<<"Domain">>)
Canvas == Checked(<<"CanvasURL">>)
Moodle == Checked(<<"SiteURL">>)
PowerSchool == Checked(<<"ServerURL">>)
Skyward == Checked(<<"DistrictURL">>)
InfiniteCampus == Checked(<<"DistrictURL">>)
Banner == Checked(<<"BaseURL">>)
EdFi == Checked(<<"ODSURL">>)
Workday == Checked(<<"TenantURL", "TenantName">>)
Apple == <<"ClientID", "TeamID", "KeyID", "PrivateKey", "RedirectURL", "SessionStore", "StateStore">>
LTI == <<"ClientID", "SessionStore", "StateStore", "PlatformConfigs">>
Shibboleth == <<"EntityID", "IdPMetadata", "AssertionConsumerServiceURL", "SessionStore", "StateStore">>

(* NewProvider, which all but LTI and Shibboleth end in, asks for both stores
   once more. *)
NewProvider == {"SessionStore", "StateStore"}
Refuses(required) == (\E i \in DOMAIN required : required[i] \notin given) \/ ~(NewProvider \subseteq given)

-----------------------------------------------------------------------------
(* A request: the attributes its answer carries, those that make it needless,
   and what follows when it cannot be made, is answered with another status,
   or with what cannot be decoded: the sign-in fails, the fetcher goes on, or
   it stops asking. *)
Request(gives, unless, net, status, decode) ==
    [gives |-> gives, unless |-> unless, net |-> net, status |-> status, decode |-> decode]
Must(gives) == Request(gives, {}, "fail", "fail", "fail")

(* A fetcher: its requests; the attributes the ID and the address are taken
   from, the first one present; and what makes the address a verified one:
   a flag of the service's, or that there is an address at all. *)
Fetcher(requests, id, email, verified) ==
    [requests |-> requests, id |-> id, email |-> email, verified |-> verified]
Carried(id, email, verified) == {id[i] : i \in DOMAIN id} \cup {email[i] : i \in DOMAIN email} \cup {verified}
Userinfo(id, email, verified) == Fetcher(<<Must(Carried(id, email, verified))>>, id, email, verified)
Address == "any address"
Mail == <<"email">>

fetchGoogleUserInfo == Userinfo(<<"id">>, Mail, "email_verified")
fetchDiscordUserInfo == Userinfo(<<"id">>, Mail, "email_verified")
fetchLinkedInUserInfo == Userinfo(<<"sub">>, Mail, "email_verified")
fetchCleverUserInfo == Userinfo(<<"id">>, Mail, Address)
fetchClassLinkUserInfo == Userinfo(<<"id">>, Mail, Address)
fetchMicrosoftUserInfo == Userinfo(<<"id">>, <<"mail", "user_principal_name">>, Address)
OktaUserInfo == Userinfo(<<"sub">>, Mail, "email_verified")
BlackboardUserInfo == Userinfo(<<"id">>, Mail, Address)
CanvasUserInfo == Userinfo(<<"id">>, <<"primary_email">>, Address)
GG4LUserInfo == Userinfo(<<"id">>, Mail, Address)
InfiniteCampusUserInfo == Userinfo(<<"person_id">>, Mail, Address)
SkywardUserInfo == Userinfo(<<"name_id">>, Mail, Address)
PowerSchoolUserInfo == Userinfo(<<"sub", "dcid">>, Mail, "email_verified")
SchoologyUserInfo == Userinfo(<<"uid", "id">>, <<"primary_email", "email">>, Address)
BannerUserInfo == Userinfo(<<"banner_id", "sub">>, Mail, "email_verified")
WorkdayUserInfo == Userinfo(<<"workday_id", "sub">>, Mail, "email_verified")

(* No request: the claims of the ID token, whose audience must be ours; for
   LTI the platform must be known, and its key and the nonce fit. *)
AppleUserInfo == Userinfo(<<"sub">>, Mail, "email_verified")
validateIDToken == Userinfo(<<"sub">>, Mail, Address)

(* A response without a NameID is refused even when eppn replaces it; the NameID
   is asked for as a transient one. *)
parseSAMLResponse == Userinfo(<<"eppn", "transient_id">>, <<"mail">>, Address)

(* The public address is a verified one; without it the account's list is
   asked for, and an error there only leaves the user without an address. *)
fetchGitHubUserInfo ==
    Fetcher(<<Must({"id", "email"}), Request({"listed"}, {"email"}, "skip", "skip", "skip")>>,
            <<"id">>, Mail, Address)

(* Mutant: the user name stands in for the ID. *)
MoodleUserInfoByName ==
    Fetcher(<<Must({"userid", "username"}), Request({"id", "email", "confirmed"}, {"nobody"}, "skip", "skip", "skip")>>,
            <<"id", "username">>, Mail, "confirmed")
(* The details are looked up by the ID the site gave, and replace it.  An error
   object, which Moodle sends with status 200, is decoded as user 0, and there are
   no details of that one. *)
MoodleUserInfo ==
    Fetcher(<<Must({"userid"}), Request({"id", "email", "confirmed"}, {"nobody"}, "skip", "skip", "skip")>>,
            <<"id", "userid">>, Mail, "confirmed")

(* A course request that cannot be made leaves the role unknown and ends the
   list; any other bad answer counts as no courses. *)
ClassroomUserInfo ==
    Fetcher(<<Must({"id", "email", "email_verified"}),
              Request({"teaches"}, {}, "stop", "skip", "skip"),
              Request({"studies"}, {}, "stop", "skip", "skip")>>, <<"id">>, Mail, "email_verified")

(* The identity endpoint, else the userinfo endpoint, else nothing at all. *)
EdFiPerson == {"student_unique_id", "staff_unique_id", "parent_unique_id", "email"}
EdFiUserInfo ==
    Fetcher(<<Request(EdFiPerson, {}, "skip", "skip", "fail"),
              Request(EdFiPerson, {"answered"}, "skip", "skip", "fail")>>,
            <<"student_unique_id", "staff_unique_id", "parent_unique_id", "email">>, Mail, Address)

Constructor == [google |-> Google, github |-> GitHub, discord |-> Discord, linkedin |-> LinkedIn,
    clever |-> Clever, classlink |-> ClassLink, classroom |-> GoogleClassroom, schoology |-> Schoology,
    gg4l |-> GG4L, microsoft |-> Microsoft, education |-> MicrosoftEducation, okta |-> Okta,
    blackboard |-> Blackboard, canvas |-> Canvas, moodle |-> Moodle, powerschool |-> PowerSchool,
    skyward |-> Skyward, campus |-> InfiniteCampus, banner |-> Banner, edfi |-> EdFi,
    workday |-> Workday, apple |-> Apple, lti |-> LTI, shibboleth |-> Shibboleth]
FetchOf == [google |-> fetchGoogleUserInfo, github |-> fetchGitHubUserInfo,
    discord |-> fetchDiscordUserInfo, linkedin |-> fetchLinkedInUserInfo, clever |-> fetchCleverUserInfo,
    classlink |-> fetchClassLinkUserInfo, classroom |-> ClassroomUserInfo, schoology |-> SchoologyUserInfo,
    gg4l |-> GG4LUserInfo, microsoft |-> fetchMicrosoftUserInfo, education |-> fetchMicrosoftUserInfo,
    okta |-> OktaUserInfo, blackboard |-> BlackboardUserInfo, canvas |-> CanvasUserInfo,
    moodle |-> MoodleUserInfo, powerschool |-> PowerSchoolUserInfo, skyward |-> SkywardUserInfo,
    campus |-> InfiniteCampusUserInfo, banner |-> BannerUserInfo, edfi |-> EdFiUserInfo,
    workday |-> WorkdayUserInfo, apple |-> AppleUserInfo, lti |-> validateIDToken,
    shibboleth |-> parseSAMLResponse]

(* The field a fetcher builds its URLs from, where the service has no fixed host. *)
Hosts == [okta |-> "Domain", blackboard |-> "Domain", canvas |-> "CanvasURL", moodle |-> "SiteURL",
          powerschool |-> "ServerURL", skyward |-> "DistrictURL", campus |-> "DistrictURL",
          banner |-> "BaseURL", edfi |-> "ODSURL", workday |-> "TenantURL", education |-> "TenantID"]

-----------------------------------------------------------------------------
(* fetchGitHubPrimaryEmail: the primary address if it is verified, else the
   first verified one, else the first. *)
Addresses == [primary : BOOLEAN, verified : BOOLEAN]
FirstAmong(list, S) == list[CHOOSE i \in S : \A j \in S : i <= j]
fetchGitHubPrimaryEmail(list) ==
    LET best == {i \in DOMAIN list : list[i].primary /\ list[i].verified}
        verified == {i \in DOMAIN list : list[i].verified}
    IN  FirstAmong(list, IF best # {} THEN best ELSE IF verified # {} THEN verified ELSE DOMAIN list)

(* The keys of User.Extra that defaultShibbolethAttributeMap gives to the
   attributes of an assertion.  A value list is joined with commas: the string
   is kept as the list, and equals a single value only as a list of one. *)
AttributeMap == [eduPersonAffiliation |-> "affiliation",
                 eduPersonScopedAffiliation |-> "scoped_affiliation",
                 eduPersonEntitlement |-> "entitlement"]
SamlExtra(key) == IF \E a \in DOMAIN saml : AttributeMap[a] = key
                  THEN saml[CHOOSE a \in DOMAIN saml : AttributeMap[a] = key] ELSE << >>
Has(list, value) == \E i \in DOMAIN list : list[i] = value
hasShibbolethAffiliation(value) == \/ SamlExtra("affiliation") = <<value>>
                                   \/ Has(SamlExtra("affiliations"), value)
                                   \/ Has(SamlExtra("scoped_affiliations"), value)

(* GetGoogleClassroomRole on what the course requests brought in. *)
GetGoogleClassroomRole == CASE ~roleKnown -> "unknown"
                            [] "teaches" \in facts -> "teacher"
                            [] "studies" \in facts -> "student"
                            [] OTHER -> "unknown"

(* The user type.  A role of the service's is the set of words found in its name
   (strings.Contains); a table of words is gone through for each role in turn, so
   that an earlier role wins over an earlier word. *)
NoClaims == [primary |-> "none", roles |-> << >>, types |-> << >>, flags |-> {}]
Scan(names, table) ==
    LET hits == {i \in DOMAIN names : \E k \in DOMAIN table : table[k][1] \in names[i]}
    IN  IF hits = {} THEN "none"
        ELSE LET name == FirstAmong(names, hits)
             IN  FirstAmong(table, {k \in DOMAIN table : table[k][1] \in name})[2]
OrElse(type, other) == IF type = "none" THEN other ELSE type

BannerWords == <<<<"student", "student">>, <<"faculty", "faculty">>, <<"instructor", "faculty">>, <<"staff", "staff">>,
                 <<"employee", "staff">>, <<"advisor", "advisor">>, <<"alumni", "alumni">>, <<"applicant", "applicant">>>>
Word(w) == IF w = "none" \/ w = "instructor" THEN << >> ELSE <<{w}>>   \* "instructor" is no primary role
determineBannerUserType(c) == OrElse(OrElse(Scan(Word(c.primary), BannerWords), Scan(c.roles, BannerWords)), "staff")

WorkdayTypeWords == <<<<"student", "student">>, <<"prospect", "prospect">>, <<"applicant", "applicant">>,
                      <<"faculty", "faculty">>, <<"instructor", "instructor">>, <<"advisor", "advisor">>,
                      <<"staff", "staff">>, <<"employee", "staff">>, <<"alumni", "alumni">>>>
WorkdayRoleWords == <<<<"student", "student">>, <<"faculty", "faculty">>, <<"instructor", "faculty">>, <<"advisor", "advisor">>>>
determineWorkdayUserType(c) ==
    CASE {"is_student", "student_id"} \subseteq c.flags -> "student"
      [] "is_faculty" \in c.flags -> "faculty"
      [] "is_employee" \in c.flags -> "staff"
      [] OTHER -> OrElse(OrElse(Scan(c.types, WorkdayTypeWords), Scan(c.roles, WorkdayRoleWords)),
                         IF "student_id" \in c.flags THEN "student" ELSE "staff")

EdFiWords == <<<<"admin", "admin">>, <<"principal", "admin">>, <<"superintendent", "admin">>,
               <<"teacher", "teacher">>, <<"instructor", "teacher">>>>
determineEdFiUserType(c, ids) ==
    CASE "is_administrator" \in c.flags -> "admin"
      [] "is_teacher" \in c.flags -> "teacher"
      [] "staff_unique_id" \in ids -> OrElse(Scan(c.roles, EdFiWords), "staff")
      [] "student_unique_id" \in ids -> "student"
      [] "parent_unique_id" \in ids -> "parent"
      [] OTHER -> "staff"

(* Banner and Workday are typed by the one answer they must have; an Ed-Fi user
   whose requests all failed is typed by an empty answer. *)
UserType == CASE provider = "banner" -> determineBannerUserType(claims)
              [] provider = "workday" -> determineWorkdayUserType(claims)
              [] provider = "edfi" -> determineEdFiUserType(IF "answered" \in facts THEN claims ELSE NoClaims, facts)
              [] OTHER -> "none"

-----------------------------------------------------------------------------
(* The program builds the provider; all its configuration is there, or one
   field is missing. *)
FieldsOf(p) == {Constructor[p][i] : i \in DOMAIN Constructor[p]} \cup {Hosts[q] : q \in DOMAIN Hosts \cap {p}}
AttributesOf(p) == UNION {FetchOf[p].requests[i].gives : i \in DOMAIN FetchOf[p].requests} \ {Address}

Names == {{"student"}, {"instructor"}, {"alumni", "advisor"}}
Lists(S) == {<< >>} \cup {<<a>> : a \in S} \cup {<<a, b>> : a \in S, b \in S}
ClaimsOf(p) ==
    CASE p = "banner" -> {[NoClaims EXCEPT !.primary = w, !.roles = l] :
                             w \in {"none", "instructor", "alumni", "employee"}, l \in Lists(Names)}
      [] p = "workday" -> {[NoClaims EXCEPT !.flags = f, !.types = l, !.roles = m] :
                              f \in SUBSET {"is_student", "student_id", "is_faculty"},
                              l \in Lists({{"prospect"}, {"instructor"}}), m \in {<< >>, <<{"instructor"}>>}}
      [] p = "edfi" -> {[NoClaims EXCEPT !.flags = f, !.roles = l] :
                           f \in SUBSET {"is_administrator", "is_teacher"}, l \in {<< >>, <<{"teacher"}>>, <<{"principal", "teacher"}>>}}
      [] OTHER -> {NoClaims}

ProvidersInit ==
    /\ provider \in DOMAIN Constructor
    /\ given \in {FieldsOf(provider)} \cup {FieldsOf(provider) \ {f} : f \in FieldsOf(provider)}
    /\ account \in {S \in SUBSET AttributesOf(provider) : \E i \in DOMAIN FetchOf[provider].id : FetchOf[provider].id[i] \in S}
    /\ provider = "moodle" => {"id", "userid"} \subseteq account
    /\ provider = "shibboleth" => "transient_id" \in account
    /\ mails \in IF provider = "github" THEN UNION {[1 .. n -> Addresses] : n \in 0 .. 2} ELSE {<< >>}
    /\ saml \in IF provider = "shibboleth"
                THEN [{"eduPersonAffiliation"} -> {<<"student">>, <<"student", "member">>}] ELSE {<< >>}
    /\ claims \in IF given = FieldsOf(provider) THEN ClaimsOf(provider) ELSE {NoClaims}
    /\ stage = "new" /\ todo = << >> /\ facts = {} /\ roleKnown = TRUE /\ users = {} /\ signIns = 0

Construct == /\ stage = "new"
             /\ stage' = IF Refuses(Constructor[provider]) THEN "refused" ELSE "ready"
             /\ UNCHANGED <<provider, given, account, mails, saml, claims, todo, facts, roleKnown, users, signIns>>

SignIn == /\ stage = "ready" /\ signIns < MaxSignIns
          /\ stage' = "fetching" /\ signIns' = signIns + 1 /\ todo' = FetchOf[provider].requests
          /\ facts' = {} /\ roleKnown' = TRUE
          /\ UNCHANGED <<provider, given, account, mails, saml, claims, users>>

(* The next request is answered, badly answered, or cannot be made.  A Moodle
   site answers with an error object, the others with another status. *)
Asked(answer) ==
    LET r == Head(todo)
        needless == r.unless \cap facts # {}
        then == CASE needless \/ answer \in {"ok", "error"} -> "skip" [] answer = "net" -> r.net
                  [] answer = "status" -> r.status [] OTHER -> r.decode
    IN  /\ stage = "fetching" /\ todo # << >> /\ (answer = "error" => "userid" \in r.gives)
        /\ facts' = IF answer = "error" THEN {"nobody"}
                    ELSE IF answer = "ok" /\ ~needless
                    THEN facts \cup (r.gives \cap account) \cup {"answered"}
                         \cup (IF "listed" \in r.gives /\ mails # << >>
                               THEN {"email"} \cup {v \in {"unverified"} : ~fetchGitHubPrimaryEmail(mails).verified}
                               ELSE {})
                    ELSE facts
        /\ roleKnown' = (roleKnown /\ then # "stop")
        /\ todo' = IF then = "skip" THEN Tail(todo) ELSE << >>
        /\ stage' = IF then = "fail" THEN "ready" ELSE stage
        /\ UNCHANGED <<provider, given, account, mails, saml, claims, users, signIns>>

(* The attribute the first present name stands for; Moodle's two IDs are the
   same number, and a transient NameID is a new one each time. *)
FirstOf(names) == IF \E i \in DOMAIN names : names[i] \in facts
                  THEN names[CHOOSE i \in DOMAIN names : names[i] \in facts /\ \A j \in 1 .. i - 1 : names[j] \notin facts]
                  ELSE "none"
IDOf(name) == IF name = "userid" THEN <<"id", 0>> ELSE <<name, IF name = "transient_id" THEN signIns ELSE 0>>
UserOf(f) ==
    LET mail == FirstOf(f.email) # "none"
    IN  [id |-> IDOf(FirstOf(f.id)), email |-> mail, role |-> GetGoogleClassroomRole, type |-> UserType,
         verified |-> IF f.verified = Address THEN mail /\ "unverified" \notin facts
                      ELSE f.verified \in facts /\ (f.verified = "confirmed" => mail)]

Fetched == /\ stage = "fetching" /\ todo = << >>
           /\ users' = users \cup {UserOf(FetchOf[provider])} /\ stage' = "ready"
           /\ UNCHANGED <<provider, given, account, mails, saml, claims, todo, facts, roleKnown, signIns>>

ProvidersNext == Construct \/ SignIn \/ Fetched \/ \E a \in {"ok", "net", "status", "garbled", "error"} : Asked(a)

ProvidersTypeOK == /\ stage \in {"new", "refused", "ready", "fetching"} /\ signIns \in 0 .. MaxSignIns
                   /\ facts \subseteq account \cup {"answered", "email", "unverified", "nobody"}

-----------------------------------------------------------------------------
(* Whichever of a fetcher's requests fail, one account signs in under one ID:
   an application that keys its users by it would otherwise make a second one.
   (Not so for Ed-Fi, whose fetcher carries on without any answer, and for a
   Shibboleth account without eppn, whose NameID is a transient one.)  Nobody signs
   in without an ID of the service's, but for Ed-Fi and for Moodle, where every
   account is user 0 while its site answers with an error object (moodle.go:274). *)
Nobody == <<"none", 0>>
IdentityStable ==
    /\ provider \notin {"edfi", "shibboleth"} \/ (provider = "shibboleth" /\ "eppn" \in account) =>
           Cardinality({u.id : u \in users} \ {Nobody}) <= 1
    /\ (\E u \in users : u.id = Nobody) => provider \in {"edfi", "moodle"}

(* No sign-in asks a service whose host the configuration does not name.  EmailVerified
   is "whether email is verified by provider" (oauth2.go:26) where the provider says
   so: the service's flag if it has one, whichever request carried it, and GitHub's
   list of addresses for an account without a public one.  The others have no such
   status (blackboard.go:336, schoology.go:262), and EmailVerified then says no more
   than that there is an address. *)
SignsInSoundly ==
    /\ stage = "fetching" /\ provider \in DOMAIN Hosts => Hosts[provider] \in given
    /\ LET flag == FetchOf[provider].verified
       IN  \A u \in users :
             CASE provider = "moodle" -> u.verified <=> u.email /\ flag \in account
               [] flag # Address -> u.verified <=> flag \in account
               [] provider = "github" /\ "email" \notin account ->
                    u.verified <=> u.email /\ \E i \in DOMAIN mails : mails[i].verified
               [] OTHER -> u.verified <=> u.email

(* The types that what a service says of an account can stand for, in no order. *)
InTable(names, table) == {table[k][2] : k \in {j \in DOMAIN table : \E i \in DOMAIN names : table[j][1] \in names[i]}}
TypesGiven ==
    CASE provider = "banner" -> InTable(Word(claims.primary) \o claims.roles, BannerWords)
      [] provider = "workday" ->
           InTable(claims.types, WorkdayTypeWords) \cup InTable(claims.roles, WorkdayRoleWords)
           \cup {t \in {"student"} : "student_id" \in claims.flags} \cup {t \in {"faculty"} : "is_faculty" \in claims.flags}
      [] provider = "edfi" ->
           {t \in {"admin"} : "is_administrator" \in claims.flags} \cup {t \in {"teacher"} : "is_teacher" \in claims.flags}
           \cup {t \in {"student"} : "student_unique_id" \in account} \cup {t \in {"parent"} : "parent_unique_id" \in account}
           \cup {t \in InTable(claims.roles, EdFiWords) : "staff_unique_id" \in account}
      [] OTHER -> {}

(* The role, the type and the affiliations an application reads off a user are
   ones the service gave: a course request that failed, an earlier word of a
   later role, or several affiliations in one string, never make up another.  The
   only affiliation, or type, of an account is seen; a type nobody gave is staff. *)
RolesAreReal ==
    /\ \A u \in users : u.role = "teacher" => "teaches" \in account
    /\ \A u \in users : u.role = "student" => "studies" \in account
    /\ \A u \in users : u.type \notin {"none", "staff"} => u.type \in TypesGiven
    /\ provider \in {"banner", "workday"} /\ Cardinality(TypesGiven) = 1 => \A u \in users : u.type \in TypesGiven
    /\ provider = "shibboleth" => \A v \in {"student", "member", "staff"} :
          LET asserted == saml.eduPersonAffiliation
          IN  /\ hasShibbolethAffiliation(v) => Has(asserted, v)
              /\ asserted = <<v>> => hasShibbolethAffiliation(v)

(* A sign-in gives the account its one identity and says no more about its
   address and its roles than the service did (the fetchers of pantry/auth/oauth2). *)
SignInsSound == IdentityStable /\ SignsInSoundly /\ RolesAreReal
=============================================================================
