-------------------------- MODULE ClientOperations --------------------------
(***************************************************************************)
(* The operations the generated client offers for all of Axis, as pairs of *)
(* a method and the segments of the path after /api; "{}" is a parameter,  *)
(* to be filled in by the caller.  The types, the security scheme (bearer, *)
(* for all but those of accounts) and the Content-Type of an operation are *)
(* left out.                                                               *)
(***************************************************************************)
LOCAL INSTANCE Sequences

\* Navigation and the roles of the product.
RoleOperations ==
  { <<"GET",  <<"module-navigation">>>>,
    <<"POST", <<"product-role-assignments", "assign">>>>,
    <<"POST", <<"product-role-assignments", "revoke">>>>,
    <<"GET",  <<"product-role-assignments">>>> }

ListRecords  == <<"GET",  <<"business-object-records">>>>
CreateRecord == <<"POST", <<"business-object-records", "{}">>>>
GetRecord    == <<"GET",  <<"business-object-records", "{}">>>>
SaveRecord   == <<"PUT",  <<"business-object-records", "{}">>>>
SubmitRecord == <<"POST", <<"business-object-records", "{}", "submit">>>>
RecordOperations == {ListRecords, CreateRecord, GetRecord, SaveRecord, SubmitRecord}

DefinitionOperations ==
  { <<"GET",  <<"business-object-definitions">>>>,
    <<"POST", <<"business-object-definitions">>>>,
    <<"GET",  <<"business-object-definitions", "actions">>>>,
    <<"GET",  <<"business-object-definitions", "{}">>>>,
    <<"PUT",  <<"business-object-definitions", "{}", "unpublished">>>>,
    <<"POST", <<"business-object-definitions", "{}", "publish">>>> }

AccountOperations ==
  { <<"GET", <<"legal", "versions">>>>, <<"GET", <<"auth", "session">>>> }
  \cup {<<"POST", <<"auth", what>>>> : what \in {"sign-in", "verify-email", "resend-verification", "sign-out"}}
  \cup { <<"POST", <<"users", "register">>>>,
         <<"GET",  <<"users", "me">>>> }
  \cup {<<"PUT", <<"users", "me", "preferences", what>>>> : what \in {"language", "theme"}}

WorkspaceOperations ==
  { <<"POST", <<"organizations">>>>,
    <<"GET",  <<"workspace-invitations">>>>,
    <<"POST", <<"workspace-invitations">>>>,
    <<"GET",  <<"workspace-product-builders">>>> }
  \cup {<<"POST", <<"workspace-invitations", "{}", what>>>> : what \in {"resend", "revoke"}}
  \cup {<<"POST", <<"workspace-product-builders", "{}", what>>>> : what \in {"grant", "revoke"}}

ServiceIdentityOperations ==
  { <<"GET",  <<"service-identities">>>>,
    <<"POST", <<"service-identities">>>>,
    <<"GET",  <<"service-identities", "{}">>>>,
    <<"POST", <<"service-identities", "{}", "keys">>>>,
    <<"POST", <<"service-identities", "{}", "keys", "{}", "revoke">>>>,
    <<"POST", <<"service-identities", "{}", "revoke">>>> }

\* Rule definitions: the collection, and one of them.
RuleOperations ==
  {<<"GET", <<"rules">> \o rest>> : rest \in { <<>>, <<"actions">>, <<"expression-language">> }}
  \cup {<<"POST", <<"rules">> \o rest>> :
          rest \in { <<>>, <<"condition", "project">>, <<"expression-language", "guide">> }}
  \cup { <<"GET", <<"rules", "{}", "bindings">>>>, <<"GET", <<"rules", "{}">>>> }

RuleVersionOperations ==
  { <<"PUT",    <<"rules", "{}", "draft">>>>,
    <<"POST",   <<"rules", "{}", "versions">>>>,
    <<"DELETE", <<"rules", "{}", "active-version">>>>,
    <<"PUT",    <<"rules", "{}", "active-version">>>>,
    <<"POST",   <<"rules", "{}", "archive">>>>,
    <<"POST",   <<"rules", "{}", "draft", "simulate">>>>,
    <<"POST",   <<"rules", "{}", "versions", "{}", "simulate">>>> }
  \cup {<<"POST", <<"rules", "authoring", what>>>> : what \in {"project", "complete"}}

RuleBindingOperations ==
  { <<"POST", <<"rule-bindings">>>>, <<"POST", <<"rule-bindings", "{}", "evaluate">>>> }
  \cup {<<method, <<"rule-bindings", "{}">>>> : method \in {"DELETE", "GET", "PUT"}}

SolutionOperations ==
  { <<"GET",  <<"solutions", "versions">>>>,
    <<"POST", <<"solutions", "versions">>>>,
    <<"GET",  <<"solutions", "versions", "{}">>>>,
    <<"POST", <<"solutions", "versions", "{}", "installations">>>>,
    <<"GET",  <<"solutions", "installations">>>>,
    <<"GET",  <<"solutions", "operations", "{}">>>>,
    <<"POST", <<"solutions", "operations", "{}", "resume">>>> }

Operations == UNION {RoleOperations, RecordOperations, DefinitionOperations, AccountOperations,
                     WorkspaceOperations, ServiceIdentityOperations, RuleOperations,
                     RuleVersionOperations, RuleBindingOperations, SolutionOperations}

\* What the parameters of an operation are filled with: one value for all of them.
Filled(operation, value) ==
  [i \in DOMAIN operation[2] |-> IF operation[2][i] = "{}" THEN value ELSE operation[2][i]]
=============================================================================
