---------------------------- MODULE MCBootstrap ----------------------------
(* Checkouts, a package among a working copy, and the deployed images.     *)
EXTENDS Bootstrap

Repo == {"aggregation", "shared-logic", "reporting", "pyproject"}

\* The code in a checkout, with and without a repository around it, ...
InCheckout == [code |-> <<{}, Repo, {}>>, cwd |-> <<{}>>]
InGitRepo == [code |-> <<{}, Repo \cup {"git"}, {"git"}>>, cwd |-> <<{}, {}>>]
\* ... under a directory that holds another service by that name, ...
Nested == [code |-> <<{}, Repo, {"aggregation"}>>, cwd |-> <<Repo>>]
\* ... and outside the checkout it is started in.
Installed == [code |-> <<{}, {}>>, cwd |-> <<{}, Repo>>]
Apart == [code |-> <<{"shared-logic", "pyproject"}, {}>>, cwd |-> <<{}, Repo>>]

\* The image of the reporting service (its Dockerfile copies pyproject.toml,
\* shared-logic and reporting to /app).
ReportingImage ==
  LET app == <<{"shared-logic", "reporting", "pyproject"}, {}>>
  IN  [code |-> <<{}>> \o app, cwd |-> app]

\* The package is installed, PYTHONPATH names one of the directories, or both
\* are on the path, as in that image.
Paths == {<<"other">>, <<SharedSrc, "other">>, <<ServiceSrc, "other">>,
          <<SharedSrc, ServiceSrc, "other">>, <<ServiceSrc, SharedSrc>>}

Sites == {InCheckout, InGitRepo, Nested, Installed, Apart, ReportingImage}
Installations ==
  {[code |-> place.code, cwd |-> place.cwd, path |-> p] : place \in Sites, p \in Paths}
=============================================================================
