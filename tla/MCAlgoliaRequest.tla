-------------------------- MODULE MCAlgoliaRequest --------------------------
EXTENDS AlgoliaRequest
MCHostOrder == <<"dsn", "one">>
=============================================================================
