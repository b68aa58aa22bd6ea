------------------------------ MODULE MCStaff -------------------------------
EXTENDS Staff, TLC

CONSTANTS root, root2, m1, m2

MCSeeded == {root, root2, m1, m2}
MCProfile ==
    [s \in MCSeeded |->
        IF s = root THEN <<"SUPERADMIN", "AUTHORIZER">>
        ELSE IF s = root2 THEN <<"SUPERADMIN", "INITIATOR">>
        ELSE <<"MANAGER", IF s = m1 THEN "INITIATOR" ELSE "AUTHORIZER">>]
MCTracked == {<<"initiate", "STAFF">>}
MCOffered == {"MARKETER", "ADMIN"}
Symmetric == Permutations(Calls)
=============================================================================
