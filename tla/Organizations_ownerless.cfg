SPECIFICATION OrganizationsSpec
CONSTANTS
  Users = {"creator", "colleague"}
  Creator = "creator"
  Invitations = {"first"}
  Requests = {"first", "second"}
  MaxRequests = 3
CHECK_DEADLOCK FALSE
INVARIANTS OwnerRemains
