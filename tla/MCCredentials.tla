--------------------------- MODULE MCCredentials ---------------------------
EXTENDS AuthPages, TLC

CONSTANTS p1, p2

\* The pages are interchangeable.
Symmetric == Permutations(Pages)

Passwords == [length : {7, 8, 100, 101}, upper : BOOLEAN, lower : BOOLEAN, number : BOOLEAN]
Dates == (2007 .. 2009) \X (5 .. 7) \X {1, 15, 28}
Before(a, b) == \/ a[1] < b[1]
                \/ a[1] = b[1] /\ (a[2] < b[2] \/ (a[2] = b[2] /\ a[3] < b[3]))

\* Nobody gets in before the eighteenth birthday, and whatever the registration
\* page lets through is accepted, except for a password of more than 100
\* characters; the checklist is complete exactly when the page is satisfied, and
\* the service finds no fault with what the page accepts.
ASSUME RulesAgree ==
    /\ \A birth \in Dates, today \in {<<d[1] + 18, d[2], d[3]>> : d \in Dates} :
          age(birth, today) >= 18 <=> ~Before(today, <<birth[1] + 18, birth[2], birth[3]>>)
    /\ \A pw \in Passwords :
          /\ passwordFieldSchema(pw) <=>
                \A rule \in DOMAIN getPasswordRequirementState(pw) :
                    getPasswordRequirementState(pw)[rule]
          /\ passwordFieldSchema(pw) <=> getPasswordValidationMessage(pw) = "none"
    /\ \A pw, again \in Passwords, birth \in Dates, terms \in BOOLEAN :
          LET form == [password |-> pw, confirm |-> again, birth |-> birth,
                       acceptTerms |-> terms]
              today == <<2026, 6, 15>>
          IN (registerSchema(form, today) /\ pw.length <= 100) => registerAccepts(form, today)
=============================================================================
